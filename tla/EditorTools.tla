---------------------------- MODULE EditorTools ----------------------------
(***************************************************************************)
(* The mutating tools of the plugin at work on one package: a handler runs *)
(* its program (ToolSteps) from one step to the next, alone on the game    *)
(* thread, as a call of its own or as an operation of bulk_modify with     *)
(* atomic:true.  Between calls the editor enters and leaves PIE, the user  *)
(* undoes the last call, the package is saved, reloaded or left for        *)
(* another level.                                                          *)
(***************************************************************************)
EXTENDS ToolSteps, Integers, FiniteSets

CONSTANTS
  Programs,       \* the programs of every tool
  CancelReverts   \* whether FScopedTransaction::Cancel restores what is recorded

\* Programs that are known to deviate from the rule of a property below.
CONSTANTS
  PartialOnError,  \* fail and leave a part of their changes
  Unrecorded,      \* change something outside the snapshots of their scope
  SeveralSteps,    \* need several undos
  PieUnchecked,    \* do not look at PIE
  Unconfirmed,     \* destroy without confirmed:true
  Unmodified,      \* change something that was not passed to Modify
  Unmarked         \* leave a change behind in a package that is not dirty

ASSUME ToolsAssumption ==
  /\ Programs \subseteq Seq(Steps)
  /\ CancelReverts \in BOOLEAN

VARIABLES
  prog,     \* the program of the running or the last call
  pc,       \* its next step
  done,     \* the positions of its changes that are in effect
  reply,    \* "none" while it runs, then how it ended
  pie,      \* GEditor->PlayWorld
  dirty,    \* UPackage::IsDirty
  unsaved,  \* memory and disk differ
  bulk,     \* within bulk_modify
  left,     \* history: this bulk_modify has a change that Cancel leaves
  odd       \* history: an Unmarked program has run since the last save

vars == <<prog, pc, done, reply, pie, dirty, unsaved, bulk, left, odd>>

Failures == {"error", "withdrawn"}
Replies  == {"none", "idle", "ok", "dry", "undone", "aborted", "missed", "lost"} \cup Failures

TypeOK ==
  /\ prog \in Programs \cup {<<>>}
  /\ pc \in 1..Len(prog) + 1
  /\ done \subseteq {i \in 1..pc - 1 : prog[i] \in Effects}
  /\ reply \in Replies
  /\ pie \in BOOLEAN /\ dirty \in BOOLEAN /\ unsaved \in BOOLEAN
  /\ bulk \in BOOLEAN /\ left \in BOOLEAN /\ odd \in BOOLEAN

Init ==
  /\ prog = <<>> /\ pc = 1 /\ done = {} /\ reply = "idle"
  /\ pie = FALSE /\ dirty = FALSE /\ unsaved = FALSE
  /\ bulk = FALSE /\ left = FALSE /\ odd = FALSE

-----------------------------------------------------------------------------
(* Undo.  A scope that opens within another one joins it.  The engine puts *)
(* back the objects that were passed to Modify, one by one: docs/          *)
(* engineering/transactions.md says so of undo and of Cancel, and for      *)
(* Cancel it is the assumption CancelReverts.                              *)

\* The scope that is open at step i of p opened at the least of these.
Opened(p, i) == {k \in 1..i : p[k] = Open /\ \A l \in k..i : p[l] # Close}

\* The Modify that is about the object of an edit.
RecordOf(edit) == IF edit = Edit THEN Record ELSE RecordPart

\* The edit at i is of an object that the open scope has a snapshot of.
Recorded(p, i) ==
  \E j \in 1..i - 1 : p[j] = RecordOf(p[i]) /\ Opened(p, j) \cap Opened(p, i) # {}

\* What Cancel at step a puts back: Create and Destroy are not in snapshots.
Reverted(p, a) ==
  {i \in 1..a - 1 : /\ CancelReverts /\ p[i] \in Edits /\ Recorded(p, i)
                    /\ Opened(p, i) \cap Opened(p, a) # {}}

\* What one undo after the call puts back: the last scope that recorded
\* one of its changes.
UndoneBy(p, changes) ==
  LET tracked == {i \in changes : p[i] \in Edits /\ Recorded(p, i)}
  IN {i \in tracked : \A j \in tracked : Opened(p, i) \cap Opened(p, j) # {} \/ j < i}

\* The outer scope of bulk_modify has a snapshot of what was passed to Modify
\* before the edit, and of nothing else.
LeavesChange(p, changes) ==
  IF CancelReverts
  THEN \E i \in changes : p[i] \in Edits /\ \A j \in 1..i - 1 : p[j] # RecordOf(p[i])
  ELSE changes # {}

-----------------------------------------------------------------------------
(* The steps of a running call.                                            *)

At(step) == reply = "none" /\ pc <= Len(prog) /\ prog[pc] = step

Answer(how, changes) ==
  /\ reply' = how
  /\ done' = changes
  /\ left' = (left \/ (bulk /\ prog \notin Unmodified /\ LeavesChange(prog, changes)))
  /\ UNCHANGED <<prog, pc, pie, dirty, unsaved, bulk, odd>>

GoOn == pc' = pc + 1 /\ UNCHANGED <<prog, reply, pie, bulk, left>>
Skip == GoOn /\ UNCHANGED <<done, dirty, unsaved, odd>>

\* RejectIfPie
CheckPie == At(Pie) /\ IF pie THEN Answer("error", done) ELSE Skip

Check     == At(Reject)  /\ (Answer("error", done) \/ Skip)
CheckDone == At(Already) /\ (Answer("ok", done) \/ Skip)
CheckDry  == At(Dry)     /\ (Answer("dry", done) \/ Skip)
CheckConfirmed == At(Confirm) /\ (Answer("error", done) \/ Skip)

EnterScope == At(Open) /\ Skip
LeaveScope == At(Close) /\ Skip

MarkDirty == GoOn /\ dirty' = TRUE /\ UNCHANGED <<done, unsaved, odd>>

\* Modify marks the package dirty, as MarkPackageDirty does.
CallModify == (At(Record) \/ At(RecordPart)) /\ MarkDirty
MarkPackage == At(Dirty) /\ MarkDirty

MakeEdit ==
  /\ At(Edit) \/ At(EditPart)
  /\ \/ GoOn /\ done' = done \cup {pc} /\ unsaved' = TRUE /\ UNCHANGED <<dirty, odd>>
     \/ Skip

\* Creating and deleting mark the package themselves.
CreateOrDestroy ==
  /\ At(Create) \/ At(Destroy)
  /\ GoOn /\ done' = done \cup {pc} /\ unsaved' = TRUE /\ dirty' = TRUE
  /\ UNCHANGED odd

Cancel ==
  \/ At(Abort)    /\ (Answer("error", done \ Reverted(prog, pc)) \/ Skip)
  \/ At(Withdraw) /\ (Answer("withdrawn", done \ Reverted(prog, pc)) \/ Skip)

Written == dirty' = FALSE /\ unsaved' = FALSE /\ odd' = FALSE

SaveStep_Unwritten ==
  (At(Save) \/ At(SaveNow)) /\ GoOn /\ dirty' = FALSE /\ UNCHANGED <<done, unsaved, odd>>

\* SaveLoadedAsset with bOnlyIfIsDirty=false
SaveStep ==
  \/ At(Save) /\ Skip
  \/ (At(Save) \/ At(SaveNow)) /\ GoOn /\ Written /\ UNCHANGED done

Finish == reply = "none" /\ pc = Len(prog) + 1 /\ Answer("ok", done)

Running ==
  \/ CheckPie \/ Check \/ CheckDone \/ CheckDry \/ CheckConfirmed
  \/ EnterScope \/ LeaveScope \/ CallModify \/ MarkPackage \/ MakeEdit
  \/ CreateOrDestroy \/ Cancel \/ SaveStep \/ Finish

-----------------------------------------------------------------------------
(* Calls and bulk_modify.                                                  *)

Idle == reply # "none"
Rest(how) == reply' = how /\ prog' = <<>> /\ pc' = 1 /\ done' = {}

\* InvokeHandler.  An operation of bulk_modify that failed is its last.
Call(p) ==
  /\ Idle /\ ~(bulk /\ reply = "error")
  /\ prog' = p /\ pc' = 1 /\ done' = {} /\ reply' = "none"
  /\ odd' = (p \in Unmarked \/ (odd /\ unsaved))
  /\ UNCHANGED <<pie, dirty, unsaved, bulk, left>>

\* BulkModifyOnGameThread, atomic
BeginBulk ==
  /\ Idle /\ ~bulk /\ ~pie
  /\ Rest("idle")
  /\ bulk' = TRUE /\ left' = FALSE
  /\ UNCHANGED <<pie, dirty, unsaved, odd>>

\* Tx.Cancel(): after an operation that failed, or at a malformed one
AbortBulk ==
  /\ Idle /\ bulk
  /\ Rest("aborted") /\ bulk' = FALSE
  /\ UNCHANGED <<pie, dirty, unsaved, left, odd>>

CommitBulk ==
  /\ Idle /\ bulk /\ reply # "error"
  /\ Rest("idle") /\ bulk' = FALSE
  /\ UNCHANGED <<pie, dirty, unsaved, left, odd>>

-----------------------------------------------------------------------------
(* Between calls.                                                          *)

Between == Idle /\ ~bulk

TogglePie ==
  /\ Between
  /\ pie' = ~pie /\ Rest("idle")
  /\ UNCHANGED <<dirty, unsaved, bulk, left, odd>>

\* The user's undo right after a call that succeeded (UTransactor).
Undo ==
  /\ Between /\ reply = "ok" /\ ~pie
  /\ reply' = "undone" /\ done' = done \ UndoneBy(prog, done)
  /\ UNCHANGED <<prog, pc, pie, dirty, unsaved, bulk, left, odd>>

\* save_assets of given paths: SaveAsset with bOnlyIfIsDirty=false
SaveAssets ==
  /\ Between /\ ~pie
  /\ Rest("idle") /\ Written
  /\ UNCHANGED <<pie, bulk, left>>

\* save_level, and save_assets without paths: clean packages are skipped,
\* and the reply is a success all the same.
SaveDirty ==
  /\ Between /\ ~pie
  /\ IF dirty
     THEN Rest("idle") /\ Written
     ELSE Rest(IF unsaved THEN "missed" ELSE "idle") /\ UNCHANGED <<dirty, unsaved, odd>>
  /\ UNCHANGED <<pie, bulk, left>>

\* discard_changes, and level.load with discard_unsaved:true.  The engine may
\* reload nothing (bAnyReloaded), which is a success all the same.
DiscardChanges ==
  /\ Between /\ ~pie
  /\ Rest("idle")
  /\ Written \/ UNCHANGED <<dirty, unsaved, odd>>
  /\ UNCHANGED <<pie, bulk, left>>

\* level.load refuses to leave a dirty world.
LoadLevel ==
  /\ Between /\ ~pie /\ ~dirty
  /\ Rest(IF unsaved THEN "lost" ELSE "idle")
  /\ dirty' = FALSE /\ unsaved' = FALSE
  /\ UNCHANGED <<pie, bulk, left, odd>>

Next ==
  \/ Running
  \/ \E p \in Programs : Call(p)
  \/ BeginBulk \/ AbortBulk \/ CommitBulk
  \/ TogglePie \/ Undo \/ SaveAssets \/ SaveDirty \/ DiscardChanges \/ LoadLevel

Spec == Init /\ [][Next]_vars

-----------------------------------------------------------------------------
(* Properties.                                                             *)

\* A call that fails, or that cancels its transaction, has changed nothing:
\* validation failure or execution failure cancels the transaction (ADR-006,
\* Failure Policy).
FailureLeavesNothing ==
  reply \in Failures /\ prog \notin PartialOnError => done = {}

\* One undo takes back every change that a successful call made to existing
\* objects: whatever object it changed, that one was passed to Modify within
\* the scope, and there is one undo step (ADR-006, Unreal Transactions and Explicit Boundaries).
UndoTakesCallBack ==
  reply = "undone" /\ prog \notin Unrecorded \cup SeveralSteps
    => \A i \in done : prog[i] \notin Edits

\* No tool changes anything while PIE is running (ADR-006, PIE Policy).
NothingDuringPie == pie /\ prog \notin PieUnchecked => done = {}

\* A dry run, and a reply that there is nothing to do, come before any change.
DryRunChangesNothing == reply = "dry" => done = {}

\* What a tool destroys, the caller confirmed, and the check comes first.
DestroysOnlyConfirmed ==
  \A i \in done : prog[i] = Destroy /\ prog \notin Unconfirmed
    => \E j \in 1..i - 1 : prog[j] = Confirm

\* A change that is in memory only is never skipped by save_level nor
\* dropped by level.load, which go by the package's dirty flag: no tool
\* leaves a change behind that it has not marked.
NoSilentLoss == reply \in {"missed", "lost"} => odd

\* A bulk_modify that aborts puts back the changes of all its operations to
\* existing objects: each of these had been passed to Modify itself before it
\* was changed (ADR-006, Bulk Mutation).
BulkAtomic == reply = "aborted" => ~left
============================================================================
