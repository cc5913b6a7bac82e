------------------------ MODULE EditorTools_proofs -------------------------
(***************************************************************************)
(* What the order of a handler's steps has to be for the properties of     *)
(* EditorTools to hold, and that it is enough: each discipline below is    *)
(* about one program alone, and the theorems are about every sequence of   *)
(* calls, bulk_modify, PIE, undo and save, for any set of programs.        *)
(***************************************************************************)
EXTENDS EditorTools, TLAPS

(* Disciplines of a program. *)

\* A step that may fail comes before the changes, or Cancel reverts them.
FailsClean(p) ==
  \A a \in 1..Len(p) :
    /\ p[a] \in {Pie, Reject, Confirm} => \A i \in 1..a - 1 : p[i] \notin Effects
    /\ p[a] \in {Abort, Withdraw} =>
         \A i \in 1..a - 1 : p[i] \in Effects => i \in Reverted(p, a)

\* The object of every edit is recorded, and all of them are in one scope.
UndoesInOne(p) ==
  \A i \in 1..Len(p) : p[i] \in Edits =>
    /\ Recorded(p, i)
    /\ \A j \in 1..Len(p) : p[j] \in Edits => Opened(p, i) \cap Opened(p, j) # {}

\* Every edit comes after a Modify of the object that it is an edit of.
RecordsFirst(p) ==
  \A i \in 1..Len(p) : p[i] \in Edits => \E j \in 1..i - 1 : p[j] = RecordOf(p[i])

\* Each effect of p comes after a step of the given kind.
ComesAfter(p, effects, step) ==
  \A i \in 1..Len(p) : p[i] \in effects => \E j \in 1..i - 1 : p[j] = step

DryComesFirst(p) ==
  \A a \in 1..Len(p) : p[a] = Dry => \A i \in 1..a - 1 : p[i] \notin Effects

-----------------------------------------------------------------------------
(* The kinds of step that the actions are.                                 *)

Still == reply = "none" /\ UNCHANGED <<prog, pie, bulk>>

\* The handler goes on, perhaps with a change.
Forward ==
  /\ Still /\ UNCHANGED <<reply, left>>
  /\ pc \in 1..Len(prog) /\ pc' = pc + 1
  /\ \/ done' = done
     \/ done' = done \cup {pc} /\ prog[pc] \in Effects
  /\ pie => prog[pc] # Pie

\* The handler replies, perhaps without its changes.
Reply ==
  /\ Still /\ pc' = pc
  /\ left' = (left \/ (bulk /\ prog \notin Unmodified /\ LeavesChange(prog, done')))
  /\ \/ /\ reply' = "error" /\ pc \in 1..Len(prog)
        /\ prog[pc] \in {Pie, Reject, Confirm} /\ done' = done
     \/ /\ reply' \in Failures /\ pc \in 1..Len(prog)
        /\ prog[pc] \in {Abort, Withdraw} /\ done' = done \ Reverted(prog, pc)
     \/ /\ reply' = "dry" /\ pc \in 1..Len(prog)
        /\ prog[pc] = Dry /\ done' = done
     \/ reply' = "ok" /\ done' = done

\* Nothing runs, and the last call is forgotten.
Forget ==
  /\ prog' = <<>> /\ pc' = 1 /\ done' = {}
  /\ reply' \in Replies \ {"none", "dry", "undone", "ok", "error", "withdrawn"}
  /\ left' \in {left, FALSE}
  /\ pie' \in BOOLEAN /\ bulk' \in BOOLEAN

Start ==
  /\ prog' \in Programs /\ pc' = 1 /\ done' = {} /\ reply' = "none"
  /\ UNCHANGED <<pie, bulk, left>>

Stutter == UNCHANGED <<prog, pc, done, reply, pie, bulk, left>>

Flags == dirty \in BOOLEAN /\ unsaved \in BOOLEAN /\ odd \in BOOLEAN

LEMMA ProgramIsSeq == TypeOK => prog \in Seq(Steps) /\ pc \in 1..Len(prog) + 1
<1> SUFFICES ASSUME TypeOK PROVE prog \in Seq(Steps) /\ pc \in 1..Len(prog) + 1
  OBVIOUS
<1>1. <<>> \in Seq(Steps)
  OBVIOUS
<1>2. Programs \subseteq Seq(Steps)
  BY ToolsAssumption
<1>3. QED
  BY <1>1, <1>2 DEF TypeOK

LEMMA Running_Kind == ASSUME TypeOK, Running PROVE Forward \/ Reply
<1> USE DEF GoOn, Skip, At, Still
<1>0. pc \in Nat /\ pc >= 1 /\ Len(prog) \in Nat
  BY ProgramIsSeq
<1>1. CASE CheckPie
  <2>1. CASE pie
    <3>1. Reply
      BY <1>1, <2>1, <1>0 DEF CheckPie, Answer, Reply, Pie
    <3>2. QED
      BY <3>1
  <2>2. CASE ~pie
    <3>1. Forward
      BY <1>1, <2>2, <1>0 DEF CheckPie, Forward
    <3>2. QED
      BY <3>1
  <2>3. QED
    BY <2>1, <2>2
<1>2. CASE Check \/ CheckConfirmed
  <2>1. CASE At(Reject) /\ Answer("error", done)
    BY <2>1, <1>0 DEF Answer, Reply
  <2>2. CASE At(Confirm) /\ Answer("error", done)
    BY <2>2, <1>0 DEF Answer, Reply
  <2>3. CASE (At(Reject) \/ At(Confirm)) /\ Skip
    BY <2>3, <1>0 DEF Forward, Reject, Confirm, Pie
  <2>4. QED
    BY <1>2, <2>1, <2>2, <2>3 DEF Check, CheckConfirmed
<1>3. CASE CheckDone
  <2>1. CASE At(Already) /\ Answer("ok", done)
    BY <2>1 DEF Answer, Reply
  <2>2. CASE At(Already) /\ Skip
    BY <2>2, <1>0 DEF Forward, Already, Pie
  <2>3. QED
    BY <1>3, <2>1, <2>2 DEF CheckDone
<1>4. CASE CheckDry
  <2>1. CASE At(Dry) /\ Answer("dry", done)
    BY <2>1, <1>0 DEF Answer, Reply
  <2>2. CASE At(Dry) /\ Skip
    BY <2>2, <1>0 DEF Forward, Dry, Pie
  <2>3. QED
    BY <1>4, <2>1, <2>2 DEF CheckDry
<1>5. CASE EnterScope \/ LeaveScope \/ CallModify \/ MarkPackage
  BY <1>5, <1>0
  DEF EnterScope, LeaveScope, CallModify, MarkPackage, MarkDirty, Forward, Open, Close,
      Record, RecordPart, Dirty, Pie
<1>6. CASE MakeEdit
  BY <1>6, <1>0 DEF MakeEdit, Forward, Edit, EditPart, Edits, Effects, Pie
<1>7. CASE CreateOrDestroy
  BY <1>7, <1>0 DEF CreateOrDestroy, Forward, Create, Destroy, Effects, Pie
<1>8. CASE Cancel
  <2>1. CASE At(Abort) /\ Answer("error", done \ Reverted(prog, pc))
    BY <2>1, <1>0 DEF Answer, Reply, Failures
  <2>2. CASE At(Withdraw) /\ Answer("withdrawn", done \ Reverted(prog, pc))
    BY <2>2, <1>0 DEF Answer, Reply, Failures
  <2>3. CASE (At(Abort) \/ At(Withdraw)) /\ Skip
    BY <2>3, <1>0 DEF Forward, Abort, Withdraw, Pie
  <2>4. QED
    BY <1>8, <2>1, <2>2, <2>3 DEF Cancel
<1>9. CASE SaveStep
  BY <1>9, <1>0 DEF SaveStep, Forward, Save, SaveNow, Pie
<1>10. CASE Finish
  BY <1>10 DEF Finish, Answer, Reply
<1>11. QED
  BY <1>1, <1>2, <1>3, <1>4, <1>5, <1>6, <1>7, <1>8, <1>9, <1>10 DEF Running

LEMMA Next_Kind ==
  ASSUME TypeOK, [Next]_vars
  PROVE  Forward \/ Reply \/ Forget \/ Start \/ Undo \/ Stutter
<1> USE DEF Rest, Replies, Failures
<1>1. CASE Running
  BY <1>1, Running_Kind
<1>2. CASE \E p \in Programs : Call(p)
  BY <1>2 DEF Call, Start
<1>3. CASE BeginBulk
  BY <1>3 DEF BeginBulk, Forget, TypeOK
<1>4. CASE AbortBulk
  BY <1>4 DEF AbortBulk, Forget, TypeOK
<1>5. CASE CommitBulk
  BY <1>5 DEF CommitBulk, Forget, TypeOK
<1>6. CASE TogglePie
  BY <1>6 DEF TogglePie, Forget, TypeOK
<1>7. CASE SaveAssets
  BY <1>7 DEF SaveAssets, Forget, TypeOK
<1>8. CASE SaveDirty
  <2>1. CASE dirty
    BY <1>8, <2>1 DEF SaveDirty, Forget, TypeOK
  <2>2. CASE ~dirty
    BY <1>8, <2>2 DEF SaveDirty, Forget, TypeOK
  <2>3. QED
    BY <2>1, <2>2
<1>9. CASE DiscardChanges
  BY <1>9 DEF DiscardChanges, Forget, TypeOK
<1>10. CASE LoadLevel
  BY <1>10 DEF LoadLevel, Forget, TypeOK
<1>11. CASE UNCHANGED vars
  BY <1>11 DEF vars, Stutter
<1>12. QED
  BY <1>1, <1>2, <1>3, <1>4, <1>5, <1>6, <1>7, <1>8, <1>9, <1>10, <1>11 DEF Next

(* The flags of the package, which no property below needs.                *)
LEMMA Next_Flags == ASSUME TypeOK, [Next]_vars PROVE Flags'
<1> USE DEF Flags, TypeOK
<1>1. CASE Running
  <2> USE DEF Answer, GoOn, Skip, Written
  <2>1. CASE CheckPie \/ Check \/ CheckDone \/ CheckDry \/ CheckConfirmed
    BY <2>1 DEF CheckPie, Check, CheckDone, CheckDry, CheckConfirmed
  <2>2. CASE EnterScope \/ LeaveScope \/ CallModify \/ MarkPackage
    BY <2>2 DEF EnterScope, LeaveScope, CallModify, MarkPackage, MarkDirty
  <2>3. CASE MakeEdit \/ CreateOrDestroy
    BY <2>3 DEF MakeEdit, CreateOrDestroy
  <2>4. CASE Cancel \/ SaveStep \/ Finish
    BY <2>4 DEF Cancel, SaveStep, Finish
  <2>5. QED
    BY <1>1, <2>1, <2>2, <2>3, <2>4 DEF Running
<1>2. CASE \E p \in Programs : Call(p)
  BY <1>2 DEF Call
<1>3. CASE BeginBulk \/ AbortBulk \/ CommitBulk
  BY <1>3 DEF BeginBulk, AbortBulk, CommitBulk
<1>4. CASE TogglePie \/ Undo
  BY <1>4 DEF TogglePie, Undo
<1>5. CASE SaveAssets \/ SaveDirty \/ DiscardChanges \/ LoadLevel
  BY <1>5 DEF SaveAssets, SaveDirty, DiscardChanges, LoadLevel, Written, Rest
<1>6. CASE UNCHANGED vars
  BY <1>6 DEF vars
<1>7. QED
  BY <1>1, <1>2, <1>3, <1>4, <1>5, <1>6 DEF Next

-----------------------------------------------------------------------------
(* Types.                                                                  *)

Run ==
  /\ prog \in Programs \cup {<<>>}
  /\ pc \in 1..Len(prog) + 1
  /\ done \subseteq {i \in 1..pc - 1 : prog[i] \in Effects}
  /\ reply \in Replies
Bools == pie \in BOOLEAN /\ bulk \in BOOLEAN /\ left \in BOOLEAN

LEMMA TypeOK_Parts == TypeOK <=> Run /\ Bools /\ Flags
BY DEF TypeOK, Run, Bools, Flags

LEMMA Next_Bools == ASSUME TypeOK, [Next]_vars PROVE Bools'
<1> USE DEF Bools
<1>0. Bools
  BY TypeOK_Parts
<1>1. CASE Forward \/ Stutter
  BY <1>1, <1>0, Zenon DEF Forward, Stutter, Still
<1>2. CASE Reply
  <2>1. left' \in BOOLEAN
    BY <1>2, <1>0, Zenon DEF Reply
  <2>2. QED
    BY <1>2, <1>0, <2>1, Zenon DEF Reply, Still
<1>3. CASE Forget \/ Start
  <2>1. left' \in BOOLEAN
    BY <1>3, <1>0 DEF Forget, Start
  <2>2. QED
    BY <1>3, <1>0, <2>1, Zenon DEF Forget, Start
<1>4. CASE Undo
  BY <1>4, <1>0, Zenon DEF Undo
<1>5. QED
  BY <1>1, <1>2, <1>3, <1>4, Next_Kind

LEMMA Next_Run == ASSUME TypeOK, [Next]_vars PROVE Run'
<1>0. prog \in Seq(Steps) /\ pc \in 1..Len(prog) + 1 /\ Len(prog) \in Nat
  BY ProgramIsSeq
<1>1. Run
  BY TypeOK_Parts
<1>2. CASE Forward
  <2>1. prog' = prog /\ reply' = reply /\ pc' = pc + 1 /\ pc \in 1..Len(prog)
    BY <1>2 DEF Forward, Still
  <2>2. pc' \in 1..Len(prog') + 1
    BY <2>1, <1>0
  <2>3. ASSUME NEW i \in done' PROVE i \in 1..pc' - 1 /\ prog'[i] \in Effects
    <3>1. CASE i \in done
      BY <3>1, <2>1, <1>0, <1>1 DEF Run
    <3>2. CASE i = pc /\ prog[pc] \in Effects
      BY <3>2, <2>1, <1>0
    <3>3. QED
      BY <3>1, <3>2, <1>2 DEF Forward
  <2>4. QED
    BY <1>1, <2>1, <2>2, <2>3 DEF Run
<1>3. CASE Reply
  <2>1. done' \subseteq done /\ prog' = prog /\ pc' = pc
    BY <1>3 DEF Reply, Still
  <2>2. reply' \in Replies
    BY <1>3 DEF Reply, Replies, Failures
  <2>3. QED
    BY <1>1, <2>1, <2>2 DEF Run
<1>4. CASE Forget \/ Start
  <2>1. Len(<<>>) = 0
    OBVIOUS
  <2>2. prog' \in Programs \cup {<<>>} /\ pc' = 1 /\ done' = {}
    BY <1>4 DEF Forget, Start
  <2>3. Len(prog') \in Nat
    BY <2>1, <2>2, ToolsAssumption
  <2>4. pc' \in 1..Len(prog') + 1
    BY <2>2, <2>3
  <2>5. reply' \in Replies
    BY <1>4 DEF Forget, Start, Replies
  <2>6. QED
    BY <2>2, <2>4, <2>5 DEF Run
<1>5. CASE Undo
  BY <1>5, <1>1 DEF Undo, Run, Replies
<1>6. CASE Stutter
  BY <1>6, <1>1 DEF Stutter, Run
<1>7. QED
  BY <1>2, <1>3, <1>4, <1>5, <1>6, Next_Kind

LEMMA Positions ==
  TypeOK => /\ prog \in Programs \cup {<<>>} /\ pc \in 1..Len(prog) + 1
            /\ Len(prog) \in Nat
            /\ done \subseteq {i \in 1..pc - 1 : prog[i] \in Effects}
BY TypeOK_Parts, ProgramIsSeq DEF Run

\* A call stays within its program, and what it has changed are the changes
\* that the program has at the steps before the next.
THEOREM ToolTypes == Spec => []TypeOK
<1>1. Init => TypeOK
  <2> SUFFICES ASSUME Init PROVE TypeOK
    OBVIOUS
  <2>1. Len(<<>>) = 0
    OBVIOUS
  <2>2. Run
    BY <2>1 DEF Init, Run, Replies
  <2>3. Bools /\ Flags
    BY Zenon DEF Init, Bools, Flags
  <2>4. QED
    BY <2>2, <2>3, TypeOK_Parts
<1>2. TypeOK /\ [Next]_vars => TypeOK'
  <2> SUFFICES ASSUME TypeOK, [Next]_vars PROVE TypeOK'
    OBVIOUS
  <2>1. Run' /\ Bools' /\ Flags'
    BY Next_Run, Next_Bools, Next_Flags
  <2>2. QED
    BY <2>1 DEF TypeOK, Run, Bools, Flags
<1>3. QED
  BY <1>1, <1>2, PTL DEF Spec

-----------------------------------------------------------------------------
(* Failure.                                                                *)

\* Whatever the programs are, as long as those outside PartialOnError fail
\* before they change anything or cancel what they recorded, no sequence of
\* calls, bulk_modify, undo and save leaves a part of a failed call behind.
THEOREM FailuresAreClean ==
  ASSUME \A p \in Programs \ PartialOnError : FailsClean(p)
  PROVE  Spec => []FailureLeavesNothing
<1>1. Init => FailureLeavesNothing
  BY DEF Init, FailureLeavesNothing
<1>2. ASSUME TypeOK, FailureLeavesNothing, [Next]_vars PROVE FailureLeavesNothing'
  <2> SUFFICES ASSUME reply' \in Failures, prog' \notin PartialOnError PROVE done' = {}
    BY DEF FailureLeavesNothing
  <2>0. /\ prog \in Programs \cup {<<>>} /\ pc \in 1..Len(prog) + 1
        /\ Len(prog) \in Nat
        /\ done \subseteq {i \in 1..pc - 1 : prog[i] \in Effects}
    BY <1>2, Positions
  <2>1. CASE Reply
    <3>1. prog' = prog /\ pc \in 1..Len(prog)
      BY <2>1 DEF Reply, Still, Failures
    <3>2. prog # <<>>
      BY <3>1, <2>0
    <3>3. FailsClean(prog)
      BY <3>1, <3>2, <2>0
    <3>4. CASE prog[pc] \in {Pie, Reject, Confirm} /\ done' = done
      <4>1. \A i \in 1..pc - 1 : prog[i] \notin Effects
        BY <3>1, <3>3, <3>4 DEF FailsClean
      <4>2. QED
        BY <4>1, <3>4, <2>0
    <3>5. CASE prog[pc] \in {Abort, Withdraw} /\ done' = done \ Reverted(prog, pc)
      <4>1. \A i \in 1..pc - 1 : prog[i] \in Effects => i \in Reverted(prog, pc)
        BY <3>1, <3>3, <3>5 DEF FailsClean
      <4>2. QED
        BY <4>1, <3>5, <2>0
    <3>6. QED
      BY <2>1, <3>4, <3>5 DEF Reply, Failures
  <2>2. CASE Forward \/ Forget \/ Start \/ Undo
    BY <2>2 DEF Forward, Still, Forget, Start, Undo, Failures
  <2>3. CASE Stutter
    BY <1>2, <2>3 DEF Stutter, FailureLeavesNothing
  <2>4. QED
    BY <1>2, <2>1, <2>2, <2>3, Next_Kind
<1>3. QED
  BY <1>1, <1>2, ToolTypes, PTL DEF Spec

-----------------------------------------------------------------------------
(* Undo and bulk_modify.                                                   *)

\* One undo after a successful call takes back all its edits when the object of
\* each is recorded, a part by a Modify of its own, and their scopes are one.
THEOREM OneUndoIsEnough ==
  ASSUME \A p \in Programs \ (Unrecorded \cup SeveralSteps) : UndoesInOne(p)
  PROVE  Spec => []UndoTakesCallBack
<1>1. Init => UndoTakesCallBack
  BY DEF Init, UndoTakesCallBack
<1>2. ASSUME TypeOK, UndoTakesCallBack, [Next]_vars PROVE UndoTakesCallBack'
  <2> SUFFICES ASSUME reply' = "undone", prog' \notin Unrecorded \cup SeveralSteps,
                      NEW i \in done'
               PROVE  prog'[i] \notin Edits
    BY DEF UndoTakesCallBack
  <2>0. /\ prog \in Programs \cup {<<>>} /\ pc \in 1..Len(prog) + 1
        /\ Len(prog) \in Nat
        /\ done \subseteq {k \in 1..pc - 1 : prog[k] \in Effects}
    BY <1>2, Positions
  <2>1. CASE Undo
    <3>1. prog' = prog /\ done' = done \ UndoneBy(prog, done)
      BY <2>1 DEF Undo
    <3>2. \A k \in done : k \in 1..Len(prog)
      BY <2>0
    <3>3. UndoesInOne(prog)
      <4>1. CASE prog = <<>>
        BY <4>1 DEF UndoesInOne
      <4>2. CASE prog # <<>>
        BY <4>2, <3>1, <2>0
      <4>3. QED
        BY <4>1, <4>2
    <3>4. ASSUME prog[i] \in Edits PROVE i \in UndoneBy(prog, done)
      <4>1. i \in done /\ Recorded(prog, i)
        BY <3>1, <3>2, <3>3, <3>4 DEF UndoesInOne
      <4>2. \A j \in done : prog[j] \in Edits => Opened(prog, i) \cap Opened(prog, j) # {}
        BY <4>1, <3>2, <3>3, <3>4 DEF UndoesInOne
      <4>3. QED
        BY <4>1, <4>2, <3>4 DEF UndoneBy
    <3>5. QED
      BY <3>1, <3>4
  <2>2. CASE Forward \/ Reply \/ Forget \/ Start
    BY <2>2 DEF Forward, Reply, Still, Forget, Start, Failures
  <2>3. CASE Stutter
    BY <1>2, <2>3 DEF Stutter, UndoTakesCallBack
  <2>4. QED
    BY <1>2, <2>1, <2>2, <2>3, Next_Kind
<1>3. QED
  BY <1>1, <1>2, ToolTypes, PTL DEF Spec

\* If Cancel restores what is recorded, an aborted bulk_modify puts every edit
\* back when each comes after a Modify of the object it is an edit of: the outer
\* scope has that snapshot, whatever the operations do with scopes of their own.
THEOREM BulkIsAtomic ==
  ASSUME CancelReverts,
         \A p \in Programs \ Unmodified : RecordsFirst(p)
  PROVE  Spec => []BulkAtomic
<1>1. Init => ~left
  BY DEF Init
<1>2. ASSUME TypeOK, ~left, [Next]_vars PROVE ~left'
  <2>0. /\ prog \in Programs \cup {<<>>} /\ pc \in 1..Len(prog) + 1
        /\ Len(prog) \in Nat
        /\ done \subseteq {k \in 1..pc - 1 : prog[k] \in Effects}
    BY <1>2, Positions
  <2>1. CASE Reply
    <3>1. done' \subseteq done
      BY <2>1 DEF Reply
    <3>2. ASSUME prog \notin Unmodified PROVE ~LeavesChange(prog, done')
      <4>1. SUFFICES ASSUME NEW i \in done', prog[i] \in Edits
                     PROVE  \E j \in 1..i - 1 : prog[j] = RecordOf(prog[i])
        BY <4>1 DEF LeavesChange
      <4>2. i \in 1..Len(prog) /\ prog # <<>>
        BY <3>1, <2>0
      <4>3. RecordsFirst(prog)
        BY <3>2, <4>2, <2>0
      <4>4. QED
        BY <4>1, <4>2, <4>3 DEF RecordsFirst
    <3>3. QED
      BY <2>1, <3>2, <1>2, Zenon DEF Reply
  <2>2. CASE Forward \/ Forget \/ Start \/ Undo \/ Stutter
    <3>1. left' \in {left, FALSE}
      BY <2>2 DEF Forward, Forget, Start, Undo, Stutter
    <3>2. QED
      BY <3>1, <1>2
  <2>3. QED
    BY <1>2, <2>1, <2>2, Next_Kind
<1>3. ~left => BulkAtomic
  BY DEF BulkAtomic
<1>4. QED
  BY <1>1, <1>2, <1>3, ToolTypes, PTL DEF Spec

-----------------------------------------------------------------------------
(* PIE, dry runs and confirmation.                                         *)

PieInv ==
  pie => /\ reply = "none" => \A j \in 1..pc - 1 : prog[j] # Pie
         /\ prog \notin PieUnchecked => done = {}

\* No call changes anything during PIE when each change of its program is
\* after the check: PIE cannot start while the handler runs.
THEOREM PieIsLeftAlone ==
  ASSUME \A p \in Programs \ PieUnchecked : ComesAfter(p, Effects, Pie)
  PROVE  Spec => []NothingDuringPie
<1>1. Init => PieInv
  BY DEF Init, PieInv
<1>2. ASSUME TypeOK, PieInv, [Next]_vars PROVE PieInv'
  <2>0. /\ prog \in Programs \cup {<<>>} /\ pc \in 1..Len(prog) + 1
        /\ Len(prog) \in Nat
    BY <1>2, Positions
  <2>1. CASE Forward
    <3> SUFFICES ASSUME pie
                 PROVE  /\ \A j \in 1..pc' - 1 : prog'[j] # Pie
                        /\ prog' \notin PieUnchecked => done' = {}
      BY <2>1 DEF PieInv, Forward, Still
    <3>1. /\ prog' = prog /\ pc' = pc + 1 /\ pc \in 1..Len(prog)
          /\ prog[pc] # Pie /\ \A j \in 1..pc - 1 : prog[j] # Pie
      BY <2>1, <1>2 DEF PieInv, Forward, Still
    <3>2. \A j \in 1..pc' - 1 : prog'[j] # Pie
      BY <3>1
    <3>3. ASSUME prog \notin PieUnchecked PROVE done' = {}
      <4>1. prog[pc] \notin Effects
        <5>1. prog # <<>>
          BY <3>1
        <5>2. ComesAfter(prog, Effects, Pie)
          BY <5>1, <3>3, <2>0
        <5>3. QED
          BY <5>2, <3>1 DEF ComesAfter
      <4>2. QED
        BY <4>1, <3>3, <2>1, <1>2 DEF Forward, PieInv
    <3>4. QED
      BY <3>1, <3>2, <3>3
  <2>2. CASE Reply
    <3>1. done' \subseteq done /\ prog' = prog /\ pie' = pie /\ reply' # "none"
      BY <2>2 DEF Reply, Still, Failures
    <3>2. QED
      BY <3>1, <1>2 DEF PieInv
  <2>3. CASE Forget \/ Start
    <3>1. pc' = 1 /\ done' = {}
      BY <2>3 DEF Forget, Start
    <3>2. QED
      BY <3>1 DEF PieInv
  <2>4. CASE Undo
    BY <2>4 DEF Undo, PieInv
  <2>5. CASE Stutter
    BY <2>5, <1>2 DEF Stutter, PieInv
  <2>6. QED
    BY <1>2, <2>1, <2>2, <2>3, <2>4, <2>5, Next_Kind
<1>3. PieInv => NothingDuringPie
  BY DEF PieInv, NothingDuringPie
<1>4. QED
  BY <1>1, <1>2, <1>3, ToolTypes, PTL DEF Spec

\* A dry run changes nothing when its reply comes before every change.
THEOREM DryRunsAreDry ==
  ASSUME \A p \in Programs : DryComesFirst(p)
  PROVE  Spec => []DryRunChangesNothing
<1>1. Init => DryRunChangesNothing
  BY DEF Init, DryRunChangesNothing
<1>2. ASSUME TypeOK, DryRunChangesNothing, [Next]_vars PROVE DryRunChangesNothing'
  <2> SUFFICES ASSUME reply' = "dry" PROVE done' = {}
    BY DEF DryRunChangesNothing
  <2>1. CASE Reply
    <3>1. pc \in 1..Len(prog) /\ prog[pc] = Dry /\ done' = done
      BY <2>1 DEF Reply, Failures
    <3>2. prog \in Programs /\ done \subseteq {i \in 1..pc - 1 : prog[i] \in Effects}
      BY <3>1, <1>2, Positions
    <3>3. \A i \in 1..pc - 1 : prog[i] \notin Effects
      BY <3>1, <3>2 DEF DryComesFirst
    <3>4. QED
      BY <3>1, <3>2, <3>3
  <2>2. CASE Forward \/ Forget \/ Start \/ Undo
    BY <2>2 DEF Forward, Still, Forget, Start, Undo
  <2>3. CASE Stutter
    BY <2>3, <1>2 DEF Stutter, DryRunChangesNothing
  <2>4. QED
    BY <1>2, <2>1, <2>2, <2>3, Next_Kind
<1>3. QED
  BY <1>1, <1>2, ToolTypes, PTL DEF Spec

\* What is destroyed was confirmed when the check comes first.
THEOREM DestructionIsConfirmed ==
  ASSUME \A p \in Programs \ Unconfirmed : ComesAfter(p, {Destroy}, Confirm)
  PROVE  Spec => []DestroysOnlyConfirmed
<1>1. TypeOK => DestroysOnlyConfirmed
  <2> SUFFICES ASSUME TypeOK, NEW i \in done, prog[i] = Destroy, prog \notin Unconfirmed
               PROVE  \E j \in 1..i - 1 : prog[j] = Confirm
    BY DEF DestroysOnlyConfirmed
  <2>1. /\ prog \in Programs \cup {<<>>} /\ pc \in 1..Len(prog) + 1
        /\ Len(prog) \in Nat
        /\ done \subseteq {k \in 1..pc - 1 : prog[k] \in Effects}
    BY Positions
  <2>2. i \in 1..Len(prog) /\ prog # <<>> /\ prog \in Programs
    BY <2>1
  <2>3. QED
    BY <2>2 DEF ComesAfter
<1>2. QED
  BY <1>1, ToolTypes, PTL

-----------------------------------------------------------------------------
(* Marking the package.                                                    *)

\* The steps that mark the package dirty, those that may save it, and the
\* positions at which a call may end, the end of the program included.
Marks == {Record, RecordPart, Dirty, Create, Destroy}
Saves == {Save, SaveNow}
Exits(p) == {a \in 1..Len(p) + 1 :
  a \in 1..Len(p) => p[a] \in {Pie, Reject, Already, Dry, Confirm, Abort, Withdraw}}

\* Wherever the call ends after an edit, a step has marked the package: one
\* after the edit, or one before it that no save can have undone.
MarksItsEdits(p) ==
  \A a \in Exits(p) : \A i \in 1..a - 1 :
    p[i] \in Edits => \E j \in 1..a - 1 :
                        p[j] \in Marks /\ (j > i \/ \A s \in j..i : p[s] \notin Saves)

SavesLast(p) == \A i, s \in 1..Len(p) : p[i] \in Edits /\ p[s] \in Saves => i < s

\* What the steps do to the flags of the package.
Pass  == prog[pc] \notin Marks /\ UNCHANGED <<dirty, unsaved, odd>>
Mark  == dirty' = TRUE /\ odd' = odd
Alter == prog[pc] \in Edits /\ unsaved' = TRUE /\ UNCHANGED <<dirty, odd>>
Write == prog[pc] \in Saves /\ dirty' = FALSE /\ unsaved' = FALSE /\ odd' = FALSE

Advance ==
  /\ reply = "none" /\ reply' = reply /\ prog' = prog
  /\ pc \in 1..Len(prog) /\ pc' = pc + 1
  /\ Pass \/ Mark \/ Alter \/ Write

Leave ==
  /\ reply = "none" /\ reply' \notin {"none", "missed", "lost"}
  /\ prog' = prog /\ pc' = pc /\ pc \in Exits(prog)
  /\ UNCHANGED <<dirty, unsaved, odd>>

\* A new call, and whatever happens between two calls.
Enter ==
  /\ reply # "none" /\ reply' = "none" /\ prog' \in Programs /\ pc' = 1
  /\ odd' = (prog' \in Unmarked \/ (odd /\ unsaved)) /\ UNCHANGED <<dirty, unsaved>>

Aside ==
  /\ reply # "none" /\ reply' # "none"
  /\ unsaved' = FALSE \/ UNCHANGED <<dirty, unsaved, odd>>
  /\ reply' \in {"missed", "lost"} => unsaved /\ ~dirty /\ odd' = odd

LEMMA Running_Marks == ASSUME TypeOK, Running PROVE Advance \/ Leave
<1> USE DEF GoOn, Skip, At
<1>0. pc \in Nat /\ pc >= 1 /\ Len(prog) \in Nat /\ pc \in 1..Len(prog) + 1
  BY ProgramIsSeq
<1>1. ASSUME pc <= Len(prog),
             prog[pc] \in {Pie, Reject, Already, Dry, Confirm, Abort, Withdraw},
             reply = "none", NEW how \in {"error", "withdrawn", "dry", "ok"},
             NEW changes, Answer(how, changes)
      PROVE  Leave
  BY <1>0, <1>1 DEF Answer, Leave, Exits
<1>2. ASSUME pc <= Len(prog), prog[pc] \notin Marks, reply = "none", Skip
      PROVE  Advance
  BY <1>0, <1>2 DEF Advance, Pass
<1>3. CASE CheckPie \/ Check \/ CheckDone \/ CheckDry \/ CheckConfirmed
  <2>1. /\ pc <= Len(prog) /\ reply = "none"
        /\ prog[pc] \in {Pie, Reject, Already, Dry, Confirm}
    BY <1>3 DEF CheckPie, Check, CheckDone, CheckDry, CheckConfirmed
  <2>2. \/ Skip
        \/ \E how \in {"error", "dry", "ok"} : Answer(how, done)
    BY <1>3 DEF CheckPie, Check, CheckDone, CheckDry, CheckConfirmed
  <2>3. prog[pc] \notin Marks
    BY <2>1
    DEF Marks, Pie, Reject, Already, Dry, Confirm, Record, RecordPart, Dirty, Create,
        Destroy
  <2>4. QED
    BY <1>1, <1>2, <2>1, <2>2, <2>3
<1>4. CASE EnterScope \/ LeaveScope
  BY <1>2, <1>4
  DEF EnterScope, LeaveScope, Marks, Open, Close, Record, RecordPart, Dirty, Create,
      Destroy
<1>5. CASE CallModify \/ MarkPackage
  BY <1>0, <1>5 DEF CallModify, MarkPackage, MarkDirty, Advance, Mark
<1>6. CASE MakeEdit
  <2>1. prog[pc] \in Edits /\ pc <= Len(prog) /\ reply = "none" /\ prog[pc] \notin Marks
    BY <1>6
    DEF MakeEdit, Marks, Edits, Edit, EditPart, Record, RecordPart, Dirty, Create,
        Destroy
  <2>2. CASE Skip
    BY <1>2, <2>1, <2>2
  <2>3. CASE GoOn /\ unsaved' = TRUE /\ UNCHANGED <<dirty, odd>>
    BY <1>0, <2>1, <2>3 DEF Advance, Alter
  <2>4. QED
    BY <1>6, <2>2, <2>3 DEF MakeEdit
<1>7. CASE CreateOrDestroy
  BY <1>0, <1>7 DEF CreateOrDestroy, Advance, Mark
<1>8. CASE Cancel
  <2>1. pc <= Len(prog) /\ reply = "none" /\ prog[pc] \in {Abort, Withdraw}
    BY <1>8 DEF Cancel
  <2>2. prog[pc] \notin Marks
    BY <2>1 DEF Marks, Abort, Withdraw, Record, RecordPart, Dirty, Create, Destroy
  <2>3. Skip \/ \E how \in {"error", "withdrawn"} :
                  Answer(how, done \ Reverted(prog, pc))
    BY <1>8 DEF Cancel
  <2>4. QED
    BY <1>1, <1>2, <2>1, <2>2, <2>3
<1>9. CASE SaveStep
  <2>1. prog[pc] \in Saves /\ pc <= Len(prog) /\ reply = "none" /\ prog[pc] \notin Marks
    BY <1>9
    DEF SaveStep, Saves, Marks, Save, SaveNow, Record, RecordPart, Dirty, Create,
        Destroy
  <2>2. CASE Skip
    BY <1>2, <2>1, <2>2
  <2>3. CASE GoOn /\ Written
    BY <1>0, <2>1, <2>3 DEF Advance, Write, Written
  <2>4. QED
    BY <1>9, <2>2, <2>3 DEF SaveStep
<1>10. CASE Finish
  <2>1. pc = Len(prog) + 1 /\ pc \in Exits(prog)
    BY <1>0, <1>10 DEF Finish, Exits
  <2>2. QED
    BY <1>10, <2>1 DEF Finish, Answer, Leave
<1>11. QED
  BY <1>3, <1>4, <1>5, <1>6, <1>7, <1>8, <1>9, <1>10 DEF Running

LEMMA Next_Marks ==
  ASSUME TypeOK, [Next]_vars
  PROVE  Advance \/ Leave \/ Enter \/ Aside \/ UNCHANGED vars
<1> USE DEF Rest, Idle
<1>1. CASE Running
  BY <1>1, Running_Marks
<1>2. CASE \E p \in Programs : Call(p)
  BY <1>2 DEF Call, Enter
<1>3. CASE BeginBulk \/ AbortBulk \/ CommitBulk
  BY <1>3 DEF BeginBulk, AbortBulk, CommitBulk, Aside
<1>4. CASE TogglePie \/ Undo
  BY <1>4 DEF TogglePie, Undo, Between, Aside
<1>5. CASE SaveAssets \/ DiscardChanges
  BY <1>5 DEF SaveAssets, DiscardChanges, Between, Written, Aside
<1>6. CASE SaveDirty
  <2>1. CASE dirty
    BY <1>6, <2>1 DEF SaveDirty, Between, Written, Aside
  <2>2. CASE ~dirty /\ unsaved
    BY <1>6, <2>2 DEF SaveDirty, Between, Aside
  <2>3. CASE ~dirty /\ ~unsaved
    BY <1>6, <2>3 DEF SaveDirty, Between, Aside
  <2>4. QED
    BY <2>1, <2>2, <2>3
<1>7. CASE LoadLevel
  <2>1. CASE unsaved
    BY <1>7, <2>1 DEF LoadLevel, Between, Aside
  <2>2. CASE ~unsaved
    BY <1>7, <2>2 DEF LoadLevel, Between, Aside
  <2>3. QED
    BY <2>1, <2>2
<1>8. QED
  BY <1>1, <1>2, <1>3, <1>4, <1>5, <1>6, <1>7 DEF Next

\* While the package is not dirty a save has followed every mark, and a
\* change is in memory only when the edit came after the last of them.
Saved(j, k) == \E s \in j..k : prog[s] \in Saves

CleanInv ==
  reply = "none" /\ ~dirty => \A j \in 1..pc - 1 : prog[j] \in Marks => Saved(j, pc - 1)

Bare(i) ==
  prog[i] \in Edits /\ \A j \in 1..pc - 1 : prog[j] \in Marks => j < i /\ Saved(j, i)

BareInv ==
  unsaved /\ ~dirty /\ ~odd => /\ reply = "none" /\ prog \notin Unmarked
                               /\ \E i \in 1..pc - 1 : Bare(i)

OddInv ==
  reply = "none" /\ prog \in Unmarked /\ ~odd => Saved(1, pc - 1)

LossInv == CleanInv /\ BareInv /\ OddInv /\ NoSilentLoss

LEMMA Advance_Clean ==
  ASSUME TypeOK, CleanInv, Advance
  PROVE  CleanInv'
<1> SUFFICES ASSUME ~dirty', NEW j \in 1..pc' - 1, prog'[j] \in Marks
             PROVE  \E s \in j..pc' - 1 : prog'[s] \in Saves
  BY DEF CleanInv, Saved
<1>0. /\ reply = "none" /\ prog' = prog /\ pc' = pc + 1
      /\ pc \in Nat /\ pc >= 1 /\ pc' - 1 = pc /\ j \in 1..pc
  BY ProgramIsSeq DEF Advance
<1>1. CASE Write
  BY <1>0, <1>1 DEF Write
<1>2. CASE Pass \/ Alter
  <2>1. ~dirty /\ prog[pc] \notin Marks
    BY <1>2
    DEF Pass, Alter, Marks, Edits, Edit, EditPart, Record, RecordPart, Dirty, Create,
        Destroy
  <2>2. j \in 1..pc - 1
    BY <1>0, <2>1
  <2>3. PICK s \in j..pc - 1 : prog[s] \in Saves
    BY <1>0, <2>1, <2>2 DEF CleanInv, Saved
  <2>4. QED
    BY <1>0, <2>3
<1>3. CASE Mark
  BY <1>3 DEF Mark
<1>4. QED
  BY <1>1, <1>2, <1>3 DEF Advance

LEMMA Advance_Odd ==
  ASSUME TypeOK, OddInv, Advance
  PROVE  OddInv'
<1> SUFFICES ASSUME prog' \in Unmarked, ~odd'
             PROVE  \E s \in 1..pc' - 1 : prog'[s] \in Saves
  BY DEF OddInv, Saved
<1>0. /\ reply = "none" /\ prog' = prog /\ pc' = pc + 1
      /\ pc \in Nat /\ pc >= 1 /\ pc' - 1 = pc
  BY ProgramIsSeq DEF Advance
<1>1. CASE Write
  BY <1>0, <1>1 DEF Write
<1>2. CASE Pass \/ Alter \/ Mark
  <2>1. ~odd
    BY <1>2 DEF Pass, Alter, Mark
  <2>2. PICK s \in 1..pc - 1 : prog[s] \in Saves
    BY <1>0, <2>1 DEF OddInv, Saved
  <2>3. QED
    BY <1>0, <2>2
<1>3. QED
  BY <1>1, <1>2 DEF Advance

LEMMA Advance_Bare ==
  ASSUME TypeOK, CleanInv, BareInv, OddInv, Advance,
         prog \in Unmarked => SavesLast(prog)
  PROVE  BareInv'
<1> SUFFICES ASSUME unsaved', ~dirty', ~odd'
             PROVE  prog' \notin Unmarked /\ \E i \in 1..pc' - 1 : Bare(i)'
  BY DEF BareInv, Advance
<1>0. /\ reply = "none" /\ prog' = prog /\ pc' = pc + 1 /\ pc \in 1..Len(prog)
      /\ pc \in Nat /\ pc >= 1 /\ pc' - 1 = pc /\ Len(prog) \in Nat
  BY ProgramIsSeq DEF Advance
<1>1. CASE Pass
  <2>1. unsaved /\ ~dirty /\ ~odd /\ prog[pc] \notin Marks
    BY <1>1 DEF Pass
  <2>2. PICK i \in 1..pc - 1 : Bare(i)
    BY <2>1 DEF BareInv
  <2>3. prog'[i] \in Edits /\ i \in 1..pc' - 1
    BY <1>0, <2>2 DEF Bare
  <2>4. ASSUME NEW j \in 1..pc' - 1, prog'[j] \in Marks
        PROVE  j < i /\ \E s \in j..i : prog'[s] \in Saves
    <3>1. j \in 1..pc - 1
      BY <1>0, <2>1, <2>4
    <3>2. QED
      BY <1>0, <2>2, <2>4, <3>1 DEF Bare, Saved
  <2>5. Bare(i)'
    BY <2>3, <2>4 DEF Bare, Saved
  <2>6. QED
    BY <1>0, <2>1, <2>3, <2>5 DEF BareInv
<1>2. CASE Alter
  <2>1. ~dirty /\ ~odd /\ prog[pc] \in Edits /\ prog[pc] \notin Marks
    BY <1>2
    DEF Alter, Marks, Edits, Edit, EditPart, Record, RecordPart, Dirty, Create, Destroy
  <2>2. prog \notin Unmarked
    <3> SUFFICES ASSUME prog \in Unmarked PROVE FALSE
      OBVIOUS
    <3>1. PICK s \in 1..pc - 1 : prog[s] \in Saves
      BY <1>0, <2>1 DEF OddInv, Saved
    <3>2. s \in 1..Len(prog) /\ ~(pc < s)
      BY <1>0, <3>1
    <3>3. QED
      BY <1>0, <2>1, <3>1, <3>2 DEF SavesLast
  <2>3. ASSUME NEW j \in 1..pc' - 1, prog'[j] \in Marks
        PROVE  j < pc /\ \E s \in j..pc : prog'[s] \in Saves
    <3>1. j \in 1..pc - 1
      BY <1>0, <2>1, <2>3
    <3>2. PICK s \in j..pc - 1 : prog[s] \in Saves
      BY <1>0, <2>1, <2>3, <3>1 DEF CleanInv, Saved
    <3>3. QED
      BY <1>0, <3>1, <3>2
  <2>4. PICK k \in 1..pc' - 1 : k = pc
    BY <1>0
  <2>5. prog'[k] \in Edits /\ \A j \in 1..pc' - 1 : prog'[j] \in Marks
          => j < k /\ \E s \in j..k : prog'[s] \in Saves
    BY <1>0, <2>1, <2>3, <2>4
  <2>6. Bare(k)'
    BY <2>5 DEF Bare, Saved
  <2>7. QED
    BY <1>0, <2>2, <2>6
<1>3. CASE Mark \/ Write
  BY <1>3 DEF Mark, Write
<1>4. QED
  BY <1>1, <1>2, <1>3 DEF Advance

\* save_level and level.load, which go by the dirty flag, neither skip nor
\* drop a change of a tool that marks what it edits: no sequence of calls,
\* saves, reloads and undos brings a change past them.  The tools of
\* Unmarked are exempt until the next save, and must not edit after theirs.
THEOREM NothingIsLostSilently ==
  ASSUME \A p \in Programs \ Unmarked : MarksItsEdits(p),
         \A p \in Programs \cap Unmarked : SavesLast(p)
  PROVE  Spec => []NoSilentLoss
<1>1. Init => LossInv
  BY DEF Init, LossInv, CleanInv, BareInv, OddInv, NoSilentLoss
<1>2. ASSUME TypeOK, LossInv, [Next]_vars PROVE LossInv'
  <2>0. /\ prog \in Programs \cup {<<>>} /\ pc \in 1..Len(prog) + 1
        /\ Len(prog) \in Nat
    BY <1>2, Positions
  <2>1. CASE Advance
    <3>1. prog \in Programs
      BY <2>0, <2>1 DEF Advance
    <3>2. CleanInv' /\ OddInv' /\ BareInv'
      BY <1>2, <2>1, <3>1, Advance_Clean, Advance_Odd, Advance_Bare DEF LossInv
    <3>3. NoSilentLoss'
      BY <2>1 DEF Advance, NoSilentLoss
    <3>4. QED
      BY <3>2, <3>3 DEF LossInv
  <2>2. CASE Leave
    <3>1. /\ reply = "none" /\ reply' \notin {"none", "missed", "lost"}
          /\ prog' = prog /\ pc' = pc /\ pc \in Exits(prog)
          /\ UNCHANGED <<dirty, unsaved, odd>>
      BY <2>2 DEF Leave
    <3>2. ~(unsaved /\ ~dirty /\ ~odd)
      <4> SUFFICES ASSUME unsaved, ~dirty, ~odd PROVE FALSE
        OBVIOUS
      <4>1. PICK i \in 1..pc - 1 : Bare(i)
        BY <1>2 DEF LossInv, BareInv
      <4>2. prog \notin Unmarked /\ prog[i] \in Edits
        BY <1>2, <4>1 DEF LossInv, BareInv, Bare
      <4>3. prog \in Programs
        BY <2>0, <4>1
      <4>4. PICK j \in 1..pc - 1 :
              prog[j] \in Marks /\ (j > i \/ \A s \in j..i : prog[s] \notin Saves)
        BY <3>1, <4>1, <4>2, <4>3 DEF MarksItsEdits
      <4>5. j < i /\ \E s \in j..i : prog[s] \in Saves
        BY <4>1, <4>4 DEF Bare, Saved
      <4>6. QED
        BY <4>4, <4>5
    <3>3. QED
      BY <3>1, <3>2 DEF LossInv, CleanInv, BareInv, OddInv, NoSilentLoss
  <2>3. CASE Enter
    <3>1. /\ reply # "none" /\ reply' = "none" /\ pc' = 1
          /\ UNCHANGED <<dirty, unsaved>>
          /\ prog' \in Unmarked => odd'
          /\ odd /\ unsaved => odd'
      BY <2>3 DEF Enter
    <3>2. unsaved /\ ~dirty => odd
      BY <1>2, <3>1 DEF LossInv, BareInv
    <3>3. QED
      BY <3>1, <3>2 DEF LossInv, CleanInv, BareInv, OddInv, NoSilentLoss
  <2>4. CASE Aside
    <3>1. unsaved /\ ~dirty => odd
      BY <1>2, <2>4 DEF LossInv, BareInv, Aside
    <3>2. QED
      BY <2>4, <3>1 DEF Aside, LossInv, CleanInv, BareInv, OddInv, NoSilentLoss
  <2>5. CASE UNCHANGED vars
    BY <1>2, <2>5 DEF vars, LossInv, CleanInv, BareInv, Bare, Saved, OddInv, NoSilentLoss
  <2>6. QED
    BY <1>2, <2>1, <2>2, <2>3, <2>4, <2>5, Next_Marks
<1>3. LossInv => NoSilentLoss
  BY DEF LossInv
<1>4. QED
  BY <1>1, <1>2, <1>3, ToolTypes, PTL DEF Spec
============================================================================
