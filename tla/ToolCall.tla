------------------------------ MODULE ToolCall ------------------------------
(***************************************************************************)
(* What a remote tool call promises its caller, whatever is in between:    *)
(* one outcome, which never changes; the tool runs at most once; a result  *)
(* is reported only after it ran; a call that is turned away never runs.   *)
(* A call that failed for another reason may have run, or run later: a     *)
(* timeout is not a cancellation.                                          *)
(***************************************************************************)
EXTENDS Sequences

CONSTANTS Calls, Editors, Rejections, Failures

VARIABLES
  outcome,  \* what the caller was told: "none" while it waits
  ran       \* the editors that ran the tool

vars == <<outcome, ran>>

Init ==
  /\ outcome = [c \in Calls |-> "none"]
  /\ ran = [c \in Calls |-> <<>>]

(* The tool runs, possibly after its caller has given up. *)
Run(c, e) ==
  /\ ran[c] = <<>> /\ outcome[c] \notin Rejections
  /\ ran' = [ran EXCEPT ![c] = <<e>>]
  /\ UNCHANGED outcome

Answer(c) ==
  /\ outcome[c] = "none" /\ ran[c] # <<>>
  /\ outcome' = [outcome EXCEPT ![c] = "result"]
  /\ UNCHANGED ran

TurnAway(c) ==
  /\ outcome[c] = "none" /\ ran[c] = <<>>
  /\ outcome' \in {[outcome EXCEPT ![c] = k] : k \in Rejections}
  /\ UNCHANGED ran

GiveUp(c) ==
  /\ outcome[c] = "none"
  /\ outcome' \in {[outcome EXCEPT ![c] = k] : k \in Failures \ Rejections}
  /\ UNCHANGED ran

Next ==
  \E c \in Calls :
    \/ \E e \in Editors : Run(c, e)
    \/ Answer(c) \/ TurnAway(c) \/ GiveUp(c)

Spec == Init /\ [][Next]_vars
=============================================================================
