----------------------------- MODULE ToolSteps -----------------------------
(***************************************************************************)
(* What the mutating tool handlers of the plugin are made of.  A handler   *)
(* runs to its end on the game thread, and what the properties need to     *)
(* know of it is the order of a few kinds of steps: the refusals, the      *)
(* undo scope, the snapshots, the changes, the saves.  A program is a      *)
(* sequence of these steps; the set of programs of a handler has one for   *)
(* each of its branches that differ in them.                               *)
(*                                                                         *)
(* Conventions of the tool modules:                                        *)
(*  - one program step stands for a stretch of like steps: every refusal   *)
(*    between two other steps is one Reject;                               *)
(*  - a call that either fails and changes nothing or makes its change is  *)
(*    Reject, Edit (or Abort, Create, ...): the refusal comes first, and   *)
(*    a change that the handler takes back itself counts as not made;      *)
(*  - a loop is written out as one or two rounds, two where a failure of   *)
(*    the second meets the change of the first;                            *)
(*  - setting up the new asset or actor is part of its Create;             *)
(*  - Record and Edit are about the objects that the handler means to      *)
(*    change, RecordPart and EditPart about another one that it reaches    *)
(*    from them (the panel of a widget, the movie scene of an animation):  *)
(*    Modify records one object and none of its parts.  A new object is a  *)
(*    change to the one it is added to;                                    *)
(*  - what an engine function records by itself is not known here.  The    *)
(*    edits of these are taken as recorded: the editor's Blueprint,        *)
(*    Kismet, graph, graph pin and material libraries, the control rig and *)
(*    animation modifier interfaces, and a data controller that may        *)
(*    transact.  Any other function of an object that did not get Modify   *)
(*    is EditPart;                                                         *)
(*  - reading, compiling, caches and the layout of the reply are left out. *)
(***************************************************************************)
EXTENDS Sequences

Pie      == "Pie"       \* detail::RejectIfPie: an error while PIE is running
Reject   == "Reject"    \* a check that may fail: an error, no Cancel
Already  == "Already"   \* a success reply before the change: nothing to do
Dry      == "Dry"       \* a success reply when dry_run (or validate_only)
Confirm  == "Confirm"   \* an error unless confirmed:true (or the like)
Open     == "Open"      \* FScopedTransaction, or a data controller's bracket
Close    == "Close"     \* the scope ends before the handler does
Record   == "Record"    \* Modify() on the objects that are about to change
Edit     == "Edit"      \* a change to those of an existing asset, or none
RecordPart == "RecordPart"  \* Modify() on a further object, a part of them
EditPart == "EditPart"      \* a change to that part, or none
Create   == "Create"    \* a new asset or actor, or a moved one's new name
Destroy  == "Destroy"   \* an asset or actor goes away
Abort    == "Abort"     \* Tx.Cancel() and an error, or on with the handler
Withdraw == "Withdraw"  \* Tx.Cancel() and a success reply, or on
Dirty    == "Dirty"     \* MarkPackageDirty, MarkBlueprintAsModified, ...
Save     == "Save"      \* save the asset when the call asks for it
SaveNow  == "SaveNow"   \* save without being asked

Steps == {Pie, Reject, Already, Dry, Confirm, Open, Close, Record, Edit, RecordPart,
          EditPart, Create, Destroy, Abort, Withdraw, Dirty, Save, SaveNow}
Edits == {Edit, EditPart}
Effects == Edits \cup {Create, Destroy}
============================================================================
