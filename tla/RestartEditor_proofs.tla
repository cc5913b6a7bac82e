------------------------ MODULE RestartEditor_proofs ------------------------
(***************************************************************************)
(* Proofs about RestartEditor, for any number of calls, projects, editor   *)
(* processes and connections.                                              *)
(***************************************************************************)
EXTENDS RestartEditor, TLAPS

ProcType == [slot : Slots, state : {"unborn", "running", "dead"}, unsaved : BOOLEAN]
CallType == [pc : Pcs, old : 0..MaxSessions, pid : 0..MaxProcs,
             builds : BOOLEAN, save : {"skipped", "saved", "warned"},
             new : 0..MaxProcs, reply : Replies]
TraceType == [missed : BOOLEAN, lost : BOOLEAN, found : {"none", "running", "dead"},
              rejoined : BOOLEAN]

Going(c) == call[c].pc \notin {"idle", "done"}

(* The steps between the kill and the relaunch.                            *)
Downed == {"deploy", "deploying", "rebuild", "relaunch"}

(* A session is of a process that has started; a process has at most one;  *)
(* ids are given out in order.                                             *)
SessionInv ==
  /\ \A s \in Known : s <= opened /\ procs[sessions[s]].state # "unborn"
  /\ \A r, s \in Known : sessions[r] = sessions[s] => r = s

(* What one call knows of its target.                                      *)
CallOK(c) ==
  /\ call[c].pc = "idle" => call[c].pid = 0
  /\ call[c].pc # "done" => call[c].reply = "none" /\ call[c].new = 0
  /\ Going(c) => call[c].pid # 0
  /\ call[c].pid # 0 => procs[call[c].pid].state # "unborn"
  /\ call[c].pc \in {"idle", "save", "build", "kill"} => trace[c].found = "none"
  /\ call[c].pc \in Downed \cup {"wait"} => procs[call[c].pid].state = "dead"
  /\ call[c].reply = "build_failed" => trace[c].found = "none"

(* The target's sessions: only the resolved one, until it connects again.  *)
OldOnly(c) ==
  /\ Going(c) /\ ~trace[c].rejoined
       => \A s \in Known : sessions[s] = call[c].pid => s = call[c].old
  /\ call[c].new # 0 /\ ~trace[c].rejoined => call[c].new # call[c].pid

CallInv == \A c \in Invocations : CallOK(c) /\ OldOnly(c)

(* Calls that do not overlap.                                              *)
Alone == \A c, d \in Invocations : Going(c) /\ Going(d) => c = d

NoneFoundDead == \A c \in Invocations : trace[c].found # "dead"

(* Between the kill and the relaunch no editor of the project runs.        *)
SlotDown(c) ==
  \A p \in Procs : Running(p) => procs[p].slot # procs[call[c].pid].slot

OnePerSlot ==
  \A p, q \in Procs :
    Running(p) /\ Running(q) /\ procs[p].slot = procs[q].slot => p = q

SlotInv ==
  NoneFoundDead =>
    /\ OnePerSlot
    /\ \A c \in Invocations : call[c].pc \in Downed => SlotDown(c)

SoloInv == ~Concurrent => Alone /\ RelaunchedOverWholePlugin /\ SlotInv

-----------------------------------------------------------------------------
(* What a step does to the record of its call.                             *)

Others(c) == \A d \in Invocations \ {c} : call'[d] = call[d]

Advances(c, x) ==
  /\ call' \in [Invocations -> CallType] /\ Others(c)
  /\ call'[c].pc = x
  /\ call'[c].pid = call[c].pid /\ call'[c].old = call[c].old
  /\ call'[c].new = call[c].new /\ call'[c].reply = call[c].reply

Ends(c, r) ==
  /\ call' \in [Invocations -> CallType] /\ Others(c)
  /\ call'[c].pc = "done" /\ call'[c].reply = r
  /\ call'[c].pid = call[c].pid /\ call'[c].new = call[c].new
  /\ call'[c].builds = FALSE

LEMMA Goto_Effect ==
  ASSUME TypeOK, NEW c \in Invocations, NEW x \in Pcs, Goto(c, x)
  PROVE  Advances(c, x) /\ call'[c].builds = call[c].builds
<1>1. call \in [Invocations -> CallType] /\ call[c] \in CallType
  BY DEF TypeOK, CallType
<1>2. call' = [call EXCEPT ![c] = [call[c] EXCEPT !.pc = x]]
  BY <1>1 DEF Goto
<1>3. [call[c] EXCEPT !.pc = x] \in CallType
  BY <1>1 DEF CallType
<1>4. call' \in [Invocations -> CallType] /\ Others(c)
      /\ call'[c] = [call[c] EXCEPT !.pc = x]
  BY <1>1, <1>2, <1>3 DEF Others
<1>5. QED
  BY <1>1, <1>4 DEF Advances, CallType

LEMMA Finish_Effect ==
  ASSUME TypeOK, NEW c \in Invocations, NEW r \in Replies, Finish(c, r)
  PROVE  Ends(c, r)
<1> DEFINE rec == [call[c] EXCEPT !.pc = "done", !.reply = r, !.old = 0,
                                  !.builds = FALSE, !.save = "skipped"]
<1>1. call \in [Invocations -> CallType] /\ call[c] \in CallType
  BY DEF TypeOK, CallType
<1>2. call' = [call EXCEPT ![c] = rec]
  BY <1>1 DEF Finish
<1>3. rec \in CallType
  <2>1. 0 \in 0..MaxSessions /\ "done" \in Pcs
    BY RestartAssumption DEF Pcs
  <2>2. QED
    BY <1>1, <2>1 DEF CallType
<1>4. call' \in [Invocations -> CallType] /\ Others(c) /\ call'[c] = rec
  BY <1>1, <1>2, <1>3 DEF Others
<1>5. QED
  BY <1>1, <1>4 DEF Ends, CallType

LEMMA Begin_Effect ==
  ASSUME TypeOK, NEW c \in Invocations, Begin(c)
  PROVE  /\ call[c].pc = "idle"
         /\ Concurrent \/ \A d \in Invocations : call[d].pc \in {"idle", "done"}
         /\ UNCHANGED <<procs, sessions, opened, active, plugin, trace>>
         /\ \/ Ends(c, "not_connected") \/ Ends(c, "refused")
            \/ \E s \in Known :
                 /\ call' \in [Invocations -> CallType] /\ Others(c)
                 /\ call'[c].pc = "save" /\ call'[c].old = s
                 /\ call'[c].pid = sessions[s]
                 /\ call'[c].new = call[c].new /\ call'[c].reply = call[c].reply
                 /\ call'[c].builds = call[c].builds
<1>1. call \in [Invocations -> CallType] /\ call[c] \in CallType
  BY DEF TypeOK, CallType
<1>2. Default \subseteq Known
  BY DEF Default, OnlyOne
<1>3. \/ Finish(c, "not_connected") \/ Finish(c, "refused")
      \/ \E s \in Known :
           call' = [call EXCEPT ![c].pc = "save", ![c].old = s,
                                ![c].pid = sessions[s]]
  BY <1>2 DEF Begin
<1>4. ASSUME NEW s \in Known,
             call' = [call EXCEPT ![c].pc = "save", ![c].old = s,
                                  ![c].pid = sessions[s]]
      PROVE  /\ call' \in [Invocations -> CallType] /\ Others(c)
             /\ call'[c].pc = "save" /\ call'[c].old = s
             /\ call'[c].pid = sessions[s]
             /\ call'[c].new = call[c].new /\ call'[c].reply = call[c].reply
             /\ call'[c].builds = call[c].builds
  <2> DEFINE rec == [call[c] EXCEPT !.pc = "save", !.old = s, !.pid = sessions[s]]
  <2>1. call' = [call EXCEPT ![c] = rec]
    BY <1>1, <1>4
  <2>2. s \in 0..MaxSessions /\ sessions[s] \in 0..MaxProcs /\ "save" \in Pcs
    BY RestartAssumption DEF TypeOK, Known, Sessions, Pcs
  <2>3. rec \in CallType
    BY <1>1, <2>2 DEF CallType
  <2>4. call' \in [Invocations -> CallType] /\ Others(c) /\ call'[c] = rec
    BY <1>1, <2>1, <2>3 DEF Others
  <2>5. QED
    BY <1>1, <2>4 DEF CallType
<1>5. "not_connected" \in Replies /\ "refused" \in Replies
  BY DEF Replies
<1>6. QED
  BY <1>3, <1>4, <1>5, Finish_Effect DEF Begin

LEMMA Save_Effect ==
  ASSUME TypeOK, NEW c \in Invocations, Save(c)
  PROVE  /\ call[c].pc = "save" /\ Advances(c, "build")
         /\ call'[c].builds = call[c].builds
         /\ UNCHANGED <<sessions, opened, active, plugin>>
         /\ \/ UNCHANGED procs
            \/ \E s \in Known : procs' = [procs EXCEPT ![sessions[s]].unsaved = FALSE]
         /\ trace' = [trace EXCEPT ![c].missed =
              call'[c].save = "saved" /\ procs'[call[c].pid].unsaved]
<1>1. call \in [Invocations -> CallType] /\ call[c] \in CallType /\ "build" \in Pcs
  BY DEF TypeOK, CallType, Pcs
<1>2. Routed \subseteq Known
  BY DEF Routed, OnlyOne
<1>3. ASSUME NEW how \in {"saved", "warned"},
             call' = [call EXCEPT ![c].pc = "build", ![c].save = how]
      PROVE  Advances(c, "build") /\ call'[c].builds = call[c].builds
  <2> DEFINE rec == [call[c] EXCEPT !.pc = "build", !.save = how]
  <2>1. call' = [call EXCEPT ![c] = rec]
    BY <1>1, <1>3
  <2>2. rec \in CallType
    BY <1>1 DEF CallType
  <2>3. call' \in [Invocations -> CallType] /\ Others(c) /\ call'[c] = rec
    BY <1>1, <2>1, <2>2 DEF Others
  <2>4. QED
    BY <1>1, <2>3 DEF Advances, CallType
<1>4. /\ \/ Goto(c, "build")
         \/ call' = [call EXCEPT ![c].pc = "build", ![c].save = "warned"]
         \/ call' = [call EXCEPT ![c].pc = "build", ![c].save = "saved"]
      /\ \/ UNCHANGED procs
         \/ \E s \in Known : procs' = [procs EXCEPT ![sessions[s]].unsaved = FALSE]
  BY <1>2 DEF Save
<1>5. Advances(c, "build") /\ call'[c].builds = call[c].builds
  BY <1>1, <1>3, <1>4, Goto_Effect
<1>6. QED
  BY <1>4, <1>5 DEF Save

LEMMA Build_Effect ==
  ASSUME TypeOK, NEW c \in Invocations, Build(c)
  PROVE  /\ call[c].pc = "build"
         /\ Advances(c, "kill") \/ Ends(c, "build_failed")
         /\ UNCHANGED <<procs, sessions, opened, active, plugin, trace>>
<1>1. call \in [Invocations -> CallType] /\ call[c] \in CallType
      /\ "kill" \in Pcs /\ "build_failed" \in Replies
  BY DEF TypeOK, CallType, Pcs, Replies
<1>2. ASSUME NEW builds \in BOOLEAN,
             call' = [call EXCEPT ![c].pc = "kill", ![c].builds = builds]
      PROVE  Advances(c, "kill")
  <2> DEFINE rec == [call[c] EXCEPT !.pc = "kill", !.builds = builds]
  <2>1. call' = [call EXCEPT ![c] = rec]
    BY <1>1, <1>2
  <2>2. rec \in CallType
    BY <1>1 DEF CallType
  <2>3. call' \in [Invocations -> CallType] /\ Others(c) /\ call'[c] = rec
    BY <1>1, <2>1, <2>2 DEF Others
  <2>4. QED
    BY <1>1, <2>3 DEF Advances, CallType
<1>3. QED
  BY <1>1, <1>2, Finish_Effect DEF Build

LEMMA Kill_Effect ==
  ASSUME TypeOK, NEW c \in Invocations, Kill(c)
  PROVE  /\ call[c].pc = "kill"
         /\ \/ /\ procs' = [procs EXCEPT ![call[c].pid] = Dead(call[c].pid)]
               /\ Advances(c, "deploy") /\ call'[c].builds = call[c].builds
            \/ UNCHANGED procs /\ Ends(c, "kill_failed")
         /\ WatchKill(c)
         /\ UNCHANGED <<sessions, opened, active, plugin>>
<1>1. "deploy" \in Pcs /\ "kill_failed" \in Replies
  BY DEF Pcs, Replies
<1>2. QED
  BY <1>1, Goto_Effect, Finish_Effect DEF Kill

(* The deployment, the rebuild and the wait leave the processes alone.     *)
LEMMA Deploy_Effect ==
  ASSUME TypeOK, NEW c \in Invocations, Deploy(c)
  PROVE  /\ call[c].pc = "deploy"
         /\ \/ /\ UNCHANGED plugin /\ Advances(c, "rebuild")
               /\ ~call[c].builds /\ call'[c].builds = call[c].builds
            \/ UNCHANGED plugin /\ Ends(c, "deploy_failed")
            \/ /\ plugin' = [plugin EXCEPT ![procs[call[c].pid].slot] = "mixed"]
               /\ Advances(c, "deploying")
         /\ UNCHANGED <<procs, sessions, opened, active, trace>>
<1>1. "rebuild" \in Pcs /\ "deploying" \in Pcs /\ "deploy_failed" \in Replies
  BY DEF Pcs, Replies
<1>2. QED
  BY <1>1, Goto_Effect, Finish_Effect DEF Deploy

LEMMA DeployRest_Effect ==
  ASSUME TypeOK, NEW c \in Invocations, DeployRest(c)
  PROVE  /\ call[c].pc = "deploying"
         /\ \/ /\ plugin' = [plugin EXCEPT ![procs[call[c].pid].slot] = "whole"]
               /\ Advances(c, "rebuild")
            \/ UNCHANGED plugin /\ Ends(c, "deploy_failed")
         /\ UNCHANGED <<procs, sessions, opened, active, trace>>
<1>1. "rebuild" \in Pcs /\ "deploy_failed" \in Replies
  BY DEF Pcs, Replies
<1>2. QED
  BY <1>1, Goto_Effect, Finish_Effect DEF DeployRest

LEMMA Rebuild_Effect ==
  ASSUME TypeOK, NEW c \in Invocations, Rebuild(c)
  PROVE  /\ call[c].pc = "rebuild"
         /\ \/ Advances(c, "relaunch") /\ call'[c].builds = call[c].builds
            \/ Ends(c, "rebuild_failed")
         /\ UNCHANGED <<procs, sessions, opened, active, plugin, trace>>
<1>1. "relaunch" \in Pcs /\ "rebuild_failed" \in Replies
  BY DEF Pcs, Replies
<1>2. QED
  BY <1>1, Goto_Effect, Finish_Effect DEF Rebuild

Launched(c, p) ==
  /\ procs[p].state = "unborn"
  /\ procs' = [procs EXCEPT ![p] =
       [slot |-> procs[call[c].pid].slot, state |-> "running", unsaved |-> FALSE]]

LEMMA Relaunch_Effect ==
  ASSUME TypeOK, NEW c \in Invocations, Relaunch(c)
  PROVE  /\ call[c].pc = "relaunch"
         /\ \/ /\ \E p \in Procs : Launched(c, p)
               /\ Advances(c, "wait") /\ call'[c].builds = call[c].builds
            \/ UNCHANGED procs /\ Ends(c, "relaunch_failed")
         /\ UNCHANGED <<sessions, opened, active, plugin, trace>>
<1>1. "wait" \in Pcs /\ "relaunch_failed" \in Replies
  BY DEF Pcs, Replies
<1>2. QED
  BY <1>1, Goto_Effect, Finish_Effect DEF Relaunch, Launched

LEMMA Wait_Effect ==
  ASSUME TypeOK, NEW c \in Invocations, Wait(c)
  PROVE  /\ call[c].pc = "wait"
         /\ call' \in [Invocations -> CallType] /\ Others(c)
         /\ call'[c].pc = "done" /\ call'[c].reply \in {"restarted", "no_handshake"}
         /\ call'[c].pid = call[c].pid
         /\ \/ call'[c].new = call[c].new
            \/ \E s \in Arrived(c) : call'[c].new = sessions[s]
         /\ UNCHANGED <<procs, sessions, opened, active, plugin, trace>>
<1>1. call \in [Invocations -> CallType] /\ call[c] \in CallType
  BY DEF TypeOK, CallType
<1>2. "restarted" \in Replies /\ "no_handshake" \in Replies /\ "done" \in Pcs
  BY DEF Replies, Pcs
<1>3. ASSUME NEW s \in Arrived(c),
             call' = [call EXCEPT ![c].pc = "done", ![c].new = sessions[s],
                                  ![c].reply = "restarted", ![c].old = 0,
                                  ![c].builds = FALSE, ![c].save = "skipped"]
      PROVE  /\ call' \in [Invocations -> CallType] /\ Others(c)
             /\ call'[c].pc = "done" /\ call'[c].reply = "restarted"
             /\ call'[c].pid = call[c].pid /\ call'[c].new = sessions[s]
  <2> DEFINE rec == [call[c] EXCEPT !.pc = "done", !.new = sessions[s],
                                    !.reply = "restarted", !.old = 0,
                                    !.builds = FALSE, !.save = "skipped"]
  <2>1. call' = [call EXCEPT ![c] = rec]
    BY <1>1, <1>3
  <2>2. sessions[s] \in 0..MaxProcs /\ 0 \in 0..MaxSessions
    BY RestartAssumption DEF TypeOK, Arrived, Known
  <2>3. rec \in CallType
    BY <1>1, <1>2, <2>2 DEF CallType
  <2>4. call' \in [Invocations -> CallType] /\ Others(c) /\ call'[c] = rec
    BY <1>1, <2>1, <2>3 DEF Others
  <2>5. QED
    BY <1>1, <2>4 DEF CallType
<1>4. /\ call[c].pc = "wait"
      /\ UNCHANGED <<procs, sessions, opened, active, plugin, trace>>
      /\ \/ \E s \in Arrived(c) :
              call' = [call EXCEPT ![c].pc = "done", ![c].new = sessions[s],
                                   ![c].reply = "restarted", ![c].old = 0,
                                   ![c].builds = FALSE, ![c].save = "skipped"]
         \/ Finish(c, "restarted") \/ Finish(c, "no_handshake")
  BY DEF Wait
<1>5. ASSUME Finish(c, "restarted") \/ Finish(c, "no_handshake")
      PROVE  Ends(c, "restarted") \/ Ends(c, "no_handshake")
  BY <1>2, <1>5, Finish_Effect
<1>6. QED
  BY <1>3, <1>4, <1>5 DEF Ends
-----------------------------------------------------------------------------
(* Type correctness.                                                       *)

LEMMA Types ==
  TypeOK <=> /\ procs \in [Procs -> ProcType]
             /\ sessions \in [Sessions -> 0..MaxProcs]
             /\ opened \in 0..MaxSessions /\ active \in 0..MaxSessions
             /\ plugin \in [Slots -> {"whole", "mixed"}]
             /\ call \in [Invocations -> CallType]
             /\ trace \in [Invocations -> TraceType]
  BY DEF TypeOK, ProcType, CallType, TraceType

(* A session in the table is of one of the processes.                      *)
LEMMA KnownFacts ==
  ASSUME TypeOK, NEW s \in Known
  PROVE  s \in Sessions /\ sessions[s] \in Procs /\ sessions[s] # 0
  BY RestartAssumption DEF TypeOK, Known, Procs

LEMMA PidFacts ==
  ASSUME TypeOK, CallInv, NEW c \in Invocations, Going(c)
  PROVE  /\ call[c].pid \in Procs /\ procs[call[c].pid] \in ProcType
         /\ procs[call[c].pid].slot \in Slots
         /\ procs[call[c].pid].state \in {"running", "dead"}
<1>1. call[c].pid \in 0..MaxProcs /\ procs \in [Procs -> ProcType]
  BY Types DEF CallType
<1>2. call[c].pid # 0 /\ procs[call[c].pid].state # "unborn"
  BY DEF CallInv, CallOK
<1>3. call[c].pid \in Procs
  BY <1>1, <1>2, RestartAssumption DEF Procs
<1>4. QED
  BY <1>1, <1>2, <1>3 DEF ProcType

LEMMA WatchKill_Effect ==
  ASSUME TypeOK, NEW c \in Invocations, call[c].pid \in Procs,
         procs[call[c].pid].state # "unborn", WatchKill(c)
  PROVE  /\ trace' \in [Invocations -> TraceType]
         /\ trace'[c].found = procs[call[c].pid].state
         /\ trace'[c].rejoined = trace[c].rejoined
         /\ \A d \in Invocations \ {c} : trace'[d] = trace[d]
<1> DEFINE lost == /\ trace[c].missed /\ procs[call[c].pid].unsaved
                   /\ ~procs'[call[c].pid].unsaved
<1>1. trace \in [Invocations -> TraceType] /\ trace[c] \in TraceType
  BY Types
<1>2. trace' = [trace EXCEPT ![c] =
        [trace[c] EXCEPT !.found = procs[call[c].pid].state, !.lost = lost]]
  BY DEF WatchKill
<1>3. lost \in BOOLEAN
  OBVIOUS
<1>4. procs[call[c].pid].state \in {"running", "dead"}
  BY Types DEF ProcType
<1> HIDE DEF lost
<1>5. QED
  BY <1>1, <1>2, <1>3, <1>4 DEF TraceType

LEMMA Step_Types ==
  ASSUME TypeOK, CallInv, NEW c \in Invocations, Step(c)
  PROVE  TypeOK'
<1>1. /\ procs \in [Procs -> ProcType]
      /\ trace \in [Invocations -> TraceType]
      /\ plugin \in [Slots -> {"whole", "mixed"}]
  BY Types
<1>2. CASE Begin(c)
  <2>1. call' \in [Invocations -> CallType]
    BY <1>2, Begin_Effect DEF Ends
  <2>2. QED
    BY <1>2, <2>1, Begin_Effect DEF TypeOK, CallType
<1>3. CASE Save(c)
  <2>1. call[c].pc = "save" /\ Going(c)
    BY <1>3, Save_Effect DEF Going
  <2>2. call' \in [Invocations -> CallType]
    BY <1>3, Save_Effect DEF Advances
  <2>3. procs' \in [Procs -> ProcType]
    <3>1. CASE UNCHANGED procs
      BY <1>1, <3>1
    <3>2. ASSUME NEW s \in Known,
                 procs' = [procs EXCEPT ![sessions[s]].unsaved = FALSE]
          PROVE  procs' \in [Procs -> ProcType]
      BY <1>1, <3>2 DEF ProcType
    <3>3. QED
      BY <1>3, <3>1, <3>2, Save_Effect
  <2>4. trace' \in [Invocations -> TraceType]
    <3>1. trace' = [trace EXCEPT ![c] = [trace[c] EXCEPT !.missed =
            call'[c].save = "saved" /\ procs'[call[c].pid].unsaved]]
      BY <1>3, Save_Effect
    <3>2. (call'[c].save = "saved" /\ procs'[call[c].pid].unsaved) \in BOOLEAN
      OBVIOUS
    <3>3. QED
      BY <1>1, <3>1, <3>2 DEF TraceType
  <2>5. UNCHANGED <<sessions, opened, active, plugin>>
    BY <1>3, Save_Effect
  <2>6. QED
    BY <2>2, <2>3, <2>4, <2>5, Types DEF TypeOK, ProcType, TraceType, CallType
<1>4. CASE Build(c)
  <2>1. call' \in [Invocations -> CallType]
    BY <1>4, Build_Effect DEF Ends, Advances
  <2>2. QED
    BY <1>4, <2>1, Build_Effect DEF TypeOK, CallType
<1>5. CASE Kill(c)
  <2>1. call[c].pc = "kill" /\ Going(c)
    BY <1>5, Kill_Effect DEF Going
  <2>2. call' \in [Invocations -> CallType]
    BY <1>5, Kill_Effect DEF Advances, Ends
  <2>3. procs' \in [Procs -> ProcType]
    <3>1. Dead(call[c].pid) \in ProcType
      BY <2>1, PidFacts DEF Dead, ProcType
    <3>2. QED
      BY <1>1, <1>5, <3>1, Kill_Effect
  <2>4. trace' \in [Invocations -> TraceType]
    <3>1. call[c].pid \in Procs /\ procs[call[c].pid].state # "unborn"
      BY <2>1, PidFacts
    <3>2. QED
      BY <1>5, <3>1, Kill_Effect, WatchKill_Effect
  <2>5. UNCHANGED <<sessions, opened, active, plugin>>
    BY <1>5, Kill_Effect
  <2>6. QED
    BY <2>2, <2>3, <2>4, <2>5, Types DEF TypeOK, ProcType, TraceType, CallType
<1>6. CASE Deploy(c)
  <2>1. call' \in [Invocations -> CallType]
    BY <1>6, Deploy_Effect DEF Ends, Advances
  <2>2. plugin' \in [Slots -> {"whole", "mixed"}]
    BY <1>1, <1>6, Deploy_Effect
  <2>3. QED
    BY <1>6, <2>1, <2>2, Deploy_Effect DEF TypeOK, CallType
<1>7. CASE DeployRest(c)
  <2>1. call' \in [Invocations -> CallType]
    BY <1>7, DeployRest_Effect DEF Ends, Advances
  <2>2. plugin' \in [Slots -> {"whole", "mixed"}]
    BY <1>1, <1>7, DeployRest_Effect
  <2>3. QED
    BY <1>7, <2>1, <2>2, DeployRest_Effect DEF TypeOK, CallType
<1>8. CASE Rebuild(c)
  <2>1. call' \in [Invocations -> CallType]
    BY <1>8, Rebuild_Effect DEF Ends, Advances
  <2>2. QED
    BY <1>8, <2>1, Rebuild_Effect DEF TypeOK, CallType
<1>9. CASE Relaunch(c)
  <2>1. call' \in [Invocations -> CallType]
    BY <1>9, Relaunch_Effect DEF Ends, Advances
  <2>2. procs' \in [Procs -> ProcType]
    <3>1. ASSUME NEW p \in Procs, Launched(c, p)
          PROVE  procs' \in [Procs -> ProcType]
      <4>1. Going(c)
        BY <1>9, Relaunch_Effect DEF Going
      <4>2. procs[call[c].pid].slot \in Slots
        BY <4>1, PidFacts
      <4>3. QED
        BY <1>1, <3>1, <4>2 DEF Launched, ProcType
    <3>2. QED
      BY <1>1, <1>9, <3>1, Relaunch_Effect
  <2>3. QED
    BY <1>9, <2>1, <2>2, Relaunch_Effect DEF TypeOK, CallType, ProcType
<1>10. CASE Wait(c)
  <2>1. call' \in [Invocations -> CallType]
    BY <1>10, Wait_Effect
  <2>2. QED
    BY <1>10, <2>1, Wait_Effect DEF TypeOK, CallType
<1>11. QED
  BY <1>2, <1>3, <1>4, <1>5, <1>6, <1>7, <1>8, <1>9, <1>10 DEF Step

LEMMA Next_Types ==
  TypeOK /\ CallInv /\ [Next]_vars => TypeOK'
<1> SUFFICES ASSUME TypeOK, CallInv, [Next]_vars PROVE TypeOK'
  OBVIOUS
<1>0. MaxSessions \in Nat /\ MaxProcs \in Nat
  BY RestartAssumption
<1>1. ASSUME NEW p \in Procs, Connect(p)
      PROVE  TypeOK'
  <2>1. /\ opened' = opened + 1 /\ opened < MaxSessions
        /\ sessions' = [sessions EXCEPT ![opened + 1] = p]
        /\ UNCHANGED <<procs, active, plugin, call>>
    BY <1>1 DEF Connect
  <2>2. opened' \in 0..MaxSessions /\ p \in 0..MaxProcs
    BY <1>0, <2>1 DEF TypeOK, Procs
  <2>3. sessions' \in [Sessions -> 0..MaxProcs]
    BY <2>1, <2>2 DEF TypeOK
  <2>4. trace' \in [Invocations -> TraceType]
    <3>1. trace' = [c \in Invocations |-> [trace[c] EXCEPT !.rejoined =
            @ \/ (call[c].pid = p /\ call[c].pc # "done")]]
      BY <1>1 DEF Connect
    <3>2. trace \in [Invocations -> TraceType]
      BY Types
    <3>3. ASSUME NEW c \in Invocations
          PROVE  [trace[c] EXCEPT !.rejoined =
                    @ \/ (call[c].pid = p /\ call[c].pc # "done")] \in TraceType
      BY <3>2 DEF TraceType
    <3>4. QED
      BY <3>1, <3>3
  <2>5. QED
    BY <2>1, <2>2, <2>3, <2>4 DEF TypeOK, TraceType
<1>2. ASSUME NEW p \in Procs, Edit(p) \/ Crash(p)
      PROVE  TypeOK'
  <2>1. procs' \in [Procs -> ProcType]
    <3>1. procs \in [Procs -> ProcType]
      BY Types
    <3>2. QED
      BY <1>2, <3>1 DEF Edit, Crash, Dead, ProcType
  <2>2. UNCHANGED <<sessions, opened, active, plugin, call, trace>>
    BY <1>2 DEF Edit, Crash
  <2>3. QED
    BY <2>1, <2>2 DEF TypeOK, ProcType
<1>3. ASSUME NEW s \in Sessions, Disconnect(s) \/ SetActive(s)
      PROVE  TypeOK'
  <2>1. s \in 0..MaxSessions /\ 0 \in 0..MaxProcs
    BY <1>0 DEF Sessions
  <2>2. sessions' \in [Sessions -> 0..MaxProcs] /\ active' \in 0..MaxSessions
    BY <1>3, <2>1 DEF Disconnect, SetActive, TypeOK
  <2>3. UNCHANGED <<procs, opened, plugin, call, trace>>
    BY <1>3 DEF Disconnect, SetActive
  <2>4. QED
    BY <2>2, <2>3 DEF TypeOK
<1>4. ASSUME NEW c \in Invocations, Step(c)
      PROVE  TypeOK'
  BY <1>4, Step_Types
<1>5. CASE UNCHANGED vars
  BY <1>5 DEF vars, TypeOK
<1>6. QED
  BY <1>1, <1>2, <1>3, <1>4, <1>5 DEF Next
-----------------------------------------------------------------------------
(* Processes: none changes its project or comes back to life, and only a   *)
(* relaunch starts one.                                                    *)

Kept ==
  \A p \in Procs : procs[p].state # "unborn" =>
    /\ procs'[p].slot = procs[p].slot /\ procs'[p].state # "unborn"
    /\ procs[p].state = "dead" => procs'[p].state = "dead"

NoneStarts ==
  \A p \in Procs : procs'[p].slot = procs[p].slot
                   /\ (procs'[p].state = "running" => procs[p].state = "running")

LEMMA SavedProcs ==
  ASSUME TypeOK, NEW q \in Procs, procs' = [procs EXCEPT ![q].unsaved = FALSE]
  PROVE  \A p \in Procs : procs'[p].slot = procs[p].slot
                          /\ procs'[p].state = procs[p].state
<1>1. procs \in [Procs -> ProcType]
  BY Types
<1>2. QED
  BY <1>1 DEF ProcType

LEMMA KilledProcs ==
  ASSUME TypeOK, NEW q \in Procs, procs' = [procs EXCEPT ![q] = Dead(q)]
  PROVE  /\ procs'[q].slot = procs[q].slot /\ procs'[q].state = "dead"
         /\ \A p \in Procs \ {q} : procs'[p] = procs[p]
<1>1. procs \in [Procs -> ProcType]
  BY Types
<1>2. QED
  BY <1>1 DEF ProcType, Dead

LEMMA LaunchedProcs ==
  ASSUME TypeOK, NEW c \in Invocations, NEW q \in Procs, Launched(c, q)
  PROVE  /\ procs[q].state = "unborn"
         /\ procs'[q].slot = procs[call[c].pid].slot /\ procs'[q].state = "running"
         /\ \A p \in Procs \ {q} : procs'[p] = procs[p]
<1>1. procs \in [Procs -> ProcType]
  BY Types
<1>2. QED
  BY <1>1 DEF Launched

LEMMA Step_Kept ==
  ASSUME TypeOK, CallInv, NEW c \in Invocations, Step(c)
  PROVE  Kept /\ (~Relaunch(c) => NoneStarts)
<1>1. CASE Save(c)
  <2>1. ASSUME NEW s \in Known, procs' = [procs EXCEPT ![sessions[s]].unsaved = FALSE]
        PROVE  Kept /\ NoneStarts
    <3>1. sessions[s] \in Procs
      BY KnownFacts
    <3>2. \A p \in Procs : procs'[p].slot = procs[p].slot
                           /\ procs'[p].state = procs[p].state
      BY <2>1, <3>1, SavedProcs
    <3>3. QED
      BY <3>2 DEF Kept, NoneStarts
  <2>2. CASE UNCHANGED procs
    BY <2>2 DEF Kept, NoneStarts
  <2>3. QED
    BY <1>1, <2>1, <2>2, Save_Effect
<1>2. CASE Kill(c)
  <2>1. call[c].pid \in Procs /\ procs[call[c].pid].state # "unborn"
    BY <1>2, Kill_Effect, PidFacts DEF Going
  <2>2. CASE procs' = [procs EXCEPT ![call[c].pid] = Dead(call[c].pid)]
    BY <2>1, <2>2, KilledProcs DEF Kept, NoneStarts
  <2>3. CASE UNCHANGED procs
    BY <2>3 DEF Kept, NoneStarts
  <2>4. QED
    BY <1>2, <2>2, <2>3, Kill_Effect
<1>3. CASE Relaunch(c)
  <2>1. ASSUME NEW q \in Procs, Launched(c, q)
        PROVE  Kept
    BY <2>1, LaunchedProcs DEF Kept
  <2>2. ASSUME UNCHANGED procs
        PROVE  Kept
    BY <2>2 DEF Kept
  <2>3. QED
    BY <1>3, <2>1, <2>2, Relaunch_Effect
<1>4. CASE \/ Begin(c) \/ Build(c) \/ Deploy(c) \/ DeployRest(c) \/ Rebuild(c)
           \/ Wait(c)
  <2>1. UNCHANGED procs
    BY <1>4 DEF Begin, Build, Deploy, DeployRest, Rebuild, Wait
  <2>2. QED
    BY <2>1 DEF Kept, NoneStarts
<1>5. QED
  BY <1>1, <1>2, <1>3, <1>4 DEF Step

LEMMA Env_Kept ==
  ASSUME TypeOK,
         \/ \E p \in Procs : Connect(p) \/ Edit(p) \/ Crash(p)
         \/ \E s \in Sessions : Disconnect(s) \/ SetActive(s)
         \/ UNCHANGED vars
  PROVE  Kept /\ NoneStarts
<1>1. procs \in [Procs -> ProcType]
  BY Types
<1>2. ASSUME NEW p \in Procs, Edit(p)
      PROVE  Kept /\ NoneStarts
  <2>1. procs' = [procs EXCEPT ![p].unsaved = TRUE]
    BY <1>2 DEF Edit
  <2>2. \A q \in Procs : procs'[q].slot = procs[q].slot
                         /\ procs'[q].state = procs[q].state
    BY <1>1, <2>1 DEF ProcType
  <2>3. QED
    BY <2>2 DEF Kept, NoneStarts
<1>3. ASSUME NEW p \in Procs, Crash(p)
      PROVE  Kept /\ NoneStarts
  BY <1>3, KilledProcs DEF Crash, Running, Kept, NoneStarts
<1>4. CASE UNCHANGED procs
  BY <1>4 DEF Kept, NoneStarts
<1>5. QED
  BY <1>2, <1>3, <1>4 DEF Connect, Disconnect, SetActive, vars

(* Steps of a call leave the connections alone.                            *)
LEMMA Step_Sessions ==
  ASSUME NEW c \in Invocations, Step(c)
  PROVE  UNCHANGED <<sessions, opened, active>>
  BY DEF Step, Begin, Save, Build, Kill, Deploy, DeployRest, Rebuild, Relaunch, Wait

LEMMA Connect_Sessions ==
  ASSUME TypeOK, NEW p \in Procs, Connect(p)
  PROVE  /\ opened + 1 \in Sessions /\ sessions'[opened + 1] = p
         /\ \A s \in Sessions \ {opened + 1} : sessions'[s] = sessions[s]
         /\ Known' \subseteq Known \cup {opened + 1}
<1>1. opened + 1 \in Sessions
  BY RestartAssumption DEF Connect, TypeOK, Sessions
<1>2. sessions' = [sessions EXCEPT ![opened + 1] = p]
  BY DEF Connect
<1>3. QED
  BY <1>1, <1>2 DEF TypeOK, Known

LEMMA Disconnect_Sessions ==
  ASSUME TypeOK, NEW r \in Sessions, Disconnect(r)
  PROVE  Known' \subseteq Known /\ \A s \in Known' : sessions'[s] = sessions[s]
  BY DEF Disconnect, TypeOK, Known

LEMMA SessionInv_Kept ==
  ASSUME TypeOK, SessionInv, Kept, opened' = opened, Known' \subseteq Known,
         \A s \in Known' : sessions'[s] = sessions[s]
  PROVE  SessionInv'
<1>1. ASSUME NEW s \in Known'
      PROVE  s <= opened' /\ procs'[sessions'[s]].state # "unborn"
  <2>1. s \in Known /\ sessions[s] \in Procs /\ sessions'[s] = sessions[s]
    BY KnownFacts
  <2>2. s <= opened /\ procs[sessions[s]].state # "unborn"
    BY <2>1 DEF SessionInv
  <2>3. QED
    BY <2>1, <2>2 DEF Kept
<1>2. \A r, s \in Known' : sessions'[r] = sessions'[s] => r = s
  BY DEF SessionInv
<1>3. QED
  BY <1>1, <1>2 DEF SessionInv

LEMMA Next_Sessions ==
  ASSUME TypeOK, SessionInv, CallInv, [Next]_vars
  PROVE  SessionInv'
<1>1. ASSUME NEW p \in Procs, Connect(p)
      PROVE  SessionInv'
  <2>1. /\ procs[p].state = "running" /\ \A s \in Known : sessions[s] # p
        /\ opened' = opened + 1 /\ UNCHANGED procs /\ opened \in Nat
    BY <1>1, RestartAssumption DEF Connect, Running, TypeOK
  <2>2. /\ sessions'[opened + 1] = p
        /\ \A s \in Sessions \ {opened + 1} : sessions'[s] = sessions[s]
        /\ Known' \subseteq Known \cup {opened + 1}
    BY <1>1, Connect_Sessions
  <2>3. \A s \in Known : s \in Sessions /\ s <= opened /\ s # opened + 1
    BY <2>1, RestartAssumption DEF SessionInv, Known, Sessions
  <2>4. \A s \in Known : sessions'[s] = sessions[s]
    BY <2>2, <2>3
  <2>5. ASSUME NEW s \in Known'
        PROVE  s <= opened' /\ procs'[sessions'[s]].state # "unborn"
    <3>1. CASE s = opened + 1
      BY <2>1, <2>2, <3>1
    <3>2. CASE s # opened + 1
      <4>1. s \in Known /\ s \in Int
        BY <2>2, <3>2, RestartAssumption DEF Known, Sessions
      <4>2. s <= opened /\ procs[sessions[s]].state # "unborn"
        BY <4>1 DEF SessionInv
      <4>3. QED
        BY <2>1, <2>4, <4>1, <4>2
    <3>3. QED
      BY <3>1, <3>2
  <2>6. ASSUME NEW r \in Known', NEW s \in Known', sessions'[r] = sessions'[s]
        PROVE  r = s
    <3>1. r \in Known \/ r = opened + 1
      BY <2>2
    <3>2. s \in Known \/ s = opened + 1
      BY <2>2
    <3>3. CASE r \in Known /\ s \in Known
      BY <2>4, <2>6, <3>3 DEF SessionInv
    <3>4. QED
      BY <2>1, <2>2, <2>4, <2>6, <3>1, <3>2, <3>3
  <2>7. QED
    BY <2>5, <2>6 DEF SessionInv
<1>2. ASSUME NEW r \in Sessions, Disconnect(r)
      PROVE  SessionInv'
  <2>1. opened' = opened /\ Kept
    BY <1>2, Env_Kept DEF Disconnect
  <2>2. QED
    BY <1>2, <2>1, Disconnect_Sessions, SessionInv_Kept
<1>3. ASSUME UNCHANGED <<sessions, opened>>, Kept
      PROVE  SessionInv'
  <2>1. Known' = Known
    BY <1>3 DEF Known
  <2>2. QED
    BY <1>3, <2>1, SessionInv_Kept
<1>4. ASSUME NEW p \in Procs, Edit(p) \/ Crash(p)
      PROVE  SessionInv'
  BY <1>3, <1>4, Env_Kept DEF Edit, Crash
<1>5. ASSUME NEW s \in Sessions, SetActive(s)
      PROVE  SessionInv'
  BY <1>3, <1>5, Env_Kept DEF SetActive
<1>6. ASSUME NEW c \in Invocations, Step(c)
      PROVE  SessionInv'
  BY <1>3, <1>6, Step_Sessions, Step_Kept
<1>7. CASE UNCHANGED vars
  BY <1>3, <1>7, Env_Kept DEF vars
<1>8. QED
  BY <1>1, <1>2, <1>4, <1>5, <1>6, <1>7 DEF Next
-----------------------------------------------------------------------------
(* What a call knows of its target.                                        *)

(* The steps of others.                                                    *)
LEMMA OtherCalls ==
  ASSUME TypeOK, CallInv, Kept, NEW d \in Invocations, call'[d] = call[d],
         trace'[d].found = trace[d].found
  PROVE  CallOK(d)'
<1>1. CallOK(d) /\ call[d] \in CallType
  BY Types DEF CallInv
<1>2. call[d].pid # 0 => call[d].pid \in Procs
  BY <1>1, RestartAssumption DEF CallType, Procs
<1>3. call[d].pid # 0 => procs'[call[d].pid].state # "unborn"
  BY <1>1, <1>2 DEF CallOK, Kept
<1>4. call[d].pc \in Downed \cup {"wait"} => procs'[call[d].pid].state = "dead"
  BY <1>1, <1>2 DEF CallOK, Kept, Going, Downed
<1>5. QED
  BY <1>1, <1>3, <1>4 DEF CallOK, Going

LEMMA OtherOlds ==
  ASSUME TypeOK, CallInv, NEW d \in Invocations, call'[d] = call[d],
         trace'[d].rejoined = trace[d].rejoined, Known' \subseteq Known,
         \A s \in Known' : sessions'[s] = sessions[s]
  PROVE  OldOnly(d)'
<1>1. OldOnly(d)
  BY DEF CallInv
<1>2. QED
  BY <1>1 DEF OldOnly, Going

LEMMA Connect_Calls ==
  ASSUME TypeOK, CallInv, NEW p \in Procs, Connect(p), NEW d \in Invocations
  PROVE  CallOK(d)' /\ OldOnly(d)'
<1>1. call' = call /\ Kept
  BY Env_Kept DEF Connect
<1>2. /\ trace'[d].found = trace[d].found
      /\ trace'[d].rejoined = (trace[d].rejoined
                                 \/ (call[d].pid = p /\ call[d].pc # "done"))
  <2>1. trace[d] \in TraceType
    BY Types
  <2>2. trace'[d] = [trace[d] EXCEPT !.rejoined =
                       @ \/ (call[d].pid = p /\ call[d].pc # "done")]
    BY DEF Connect
  <2>3. QED
    BY <2>1, <2>2 DEF TraceType
<1>3. CallOK(d)'
  BY <1>1, <1>2, OtherCalls
<1>4. OldOnly(d)
  BY DEF CallInv
<1>5. /\ sessions'[opened + 1] = p
      /\ \A s \in Sessions \ {opened + 1} : sessions'[s] = sessions[s]
      /\ Known' \subseteq Known \cup {opened + 1}
  BY Connect_Sessions
<1>6. ASSUME Going(d), ~trace'[d].rejoined, NEW s \in Known',
             sessions'[s] = call[d].pid
      PROVE  s = call[d].old
  <2>1. ~trace[d].rejoined /\ call[d].pid # p
    BY <1>2, <1>6 DEF Going
  <2>2. s # opened + 1
    BY <1>5, <1>6, <2>1
  <2>3. s \in Known /\ s \in Sessions
    BY <1>5, <2>2 DEF Known
  <2>4. sessions[s] = call[d].pid
    BY <1>5, <1>6, <2>2, <2>3
  <2>5. QED
    BY <1>4, <1>6, <2>1, <2>3, <2>4 DEF OldOnly
<1>7. OldOnly(d)'
  <2>1. Going(d)' /\ ~trace'[d].rejoined
          => \A s \in Known' : sessions'[s] = call'[d].pid => s = call'[d].old
    BY <1>1, <1>6 DEF Going
  <2>2. call'[d].new # 0 /\ ~trace'[d].rejoined => call'[d].new # call'[d].pid
    BY <1>1, <1>2, <1>4 DEF OldOnly
  <2>3. QED
    BY <2>1, <2>2 DEF OldOnly
<1>8. QED
  BY <1>3, <1>7

(* A call that goes on, or ends, with the same target.                     *)
LEMMA OwnOld ==
  ASSUME TypeOK, CallInv, NEW c \in Invocations, Going(c),
         UNCHANGED <<sessions>>, trace'[c].rejoined = trace[c].rejoined,
         call'[c].pid = call[c].pid, call'[c].new = call[c].new,
         call'[c].pc = "done" \/ call'[c].old = call[c].old
  PROVE  OldOnly(c)'
<1>1. OldOnly(c) /\ Known' = Known
  BY DEF CallInv, Known
<1>2. QED
  BY <1>1 DEF OldOnly, Going

LEMMA OwnGoing ==
  ASSUME TypeOK, CallInv, Kept, NEW c \in Invocations, Going(c),
         NEW x \in Pcs, Advances(c, x), trace'[c].found = trace[c].found,
         \/ x \in {"build", "kill"} /\ call[c].pc \in {"save", "build"}
         \/ x \in {"deploying", "rebuild", "relaunch", "wait"} /\ call[c].pc \in Downed
  PROVE  CallOK(c)'
<1>1. CallOK(c) /\ call[c].pid \in Procs
  BY PidFacts DEF CallInv
<1>2. /\ call'[c].pc = x /\ call'[c].pid = call[c].pid
      /\ call'[c].new = call[c].new /\ call'[c].reply = call[c].reply
  BY DEF Advances
<1>3. /\ procs'[call[c].pid].state # "unborn"
      /\ procs[call[c].pid].state = "dead" => procs'[call[c].pid].state = "dead"
  BY <1>1, PidFacts DEF Kept
<1>4. call[c].reply = "none" /\ call[c].new = 0 /\ call[c].pid # 0
  BY <1>1 DEF CallOK, Going
<1>5. CASE x \in {"build", "kill"} /\ call[c].pc \in {"save", "build"}
  <2>1. trace'[c].found = "none"
    BY <1>1, <1>5 DEF CallOK
  <2>2. QED
    BY <1>2, <1>3, <1>4, <1>5, <2>1 DEF CallOK, Going, Downed
<1>6. CASE /\ x \in {"deploying", "rebuild", "relaunch", "wait"}
           /\ call[c].pc \in Downed
  <2>1. procs'[call[c].pid].state = "dead"
    BY <1>1, <1>3, <1>6 DEF CallOK
  <2>2. QED
    BY <1>2, <1>3, <1>4, <1>6, <2>1 DEF CallOK, Going, Downed
<1>7. QED
  BY <1>5, <1>6

LEMMA OwnEnding ==
  ASSUME TypeOK, CallInv, Kept, NEW c \in Invocations, call[c].pc # "done",
         call'[c].pc = "done", call'[c].pid = call[c].pid,
         call'[c].reply = "build_failed" => trace'[c].found = "none"
  PROVE  CallOK(c)'
<1>1. CallOK(c) /\ call[c].pid \in 0..MaxProcs
  BY Types DEF CallInv, CallType
<1>2. call[c].pid # 0 => call[c].pid \in Procs
  BY <1>1, RestartAssumption DEF Procs
<1>3. call[c].pid # 0 => procs'[call[c].pid].state # "unborn"
  BY <1>1, <1>2 DEF CallOK, Kept
<1>4. QED
  BY <1>3 DEF CallOK, Going, Downed

LEMMA Begin_Own ==
  ASSUME TypeOK, SessionInv, CallInv, NEW c \in Invocations, Begin(c)
  PROVE  CallOK(c)' /\ OldOnly(c)'
<1>1. /\ call[c].pc = "idle" /\ UNCHANGED <<procs, sessions, trace>>
      /\ CallOK(c) /\ OldOnly(c)
  BY Begin_Effect DEF CallInv
<1>2. Kept /\ Known' = Known
  BY <1>1 DEF Kept, Known
<1>3. call[c].pid = 0 /\ call[c].new = 0 /\ call[c].reply = "none"
      /\ trace[c].found = "none"
  BY <1>1 DEF CallOK
<1>4. ASSUME Ends(c, "not_connected") \/ Ends(c, "refused")
      PROVE  CallOK(c)' /\ OldOnly(c)'
  <2>1. /\ call'[c].pc = "done" /\ call'[c].pid = call[c].pid
        /\ call'[c].new = call[c].new
    BY <1>4 DEF Ends
  <2>2. CallOK(c)'
    BY <1>1, <1>2, <1>3, <2>1, OwnEnding
  <2>3. QED
    BY <1>3, <2>1, <2>2 DEF OldOnly, Going
<1>5. ASSUME NEW s \in Known,
             call'[c].pc = "save", call'[c].old = s, call'[c].pid = sessions[s],
             call'[c].new = call[c].new, call'[c].reply = call[c].reply
      PROVE  CallOK(c)' /\ OldOnly(c)'
  <2>1. sessions[s] # 0 /\ procs[sessions[s]].state # "unborn"
    BY KnownFacts DEF SessionInv
  <2>2. CallOK(c)'
    BY <1>1, <1>3, <1>5, <2>1 DEF CallOK, Going, Downed
  <2>3. \A r \in Known : sessions[r] = sessions[s] => r = s
    BY DEF SessionInv
  <2>4. OldOnly(c)'
    BY <1>1, <1>2, <1>3, <1>5, <2>3 DEF OldOnly, Going
  <2>5. QED
    BY <2>2, <2>4
<1>6. QED
  BY <1>4, <1>5, Begin_Effect

LEMMA Save_Own ==
  ASSUME TypeOK, CallInv, NEW c \in Invocations, Save(c)
  PROVE  CallOK(c)' /\ OldOnly(c)'
<1>1. /\ call[c].pc = "save" /\ Going(c) /\ Advances(c, "build")
      /\ UNCHANGED sessions
      /\ trace' = [trace EXCEPT ![c].missed =
           call'[c].save = "saved" /\ procs'[call[c].pid].unsaved]
  BY Save_Effect DEF Going
<1>2. /\ trace'[c].found = trace[c].found
      /\ trace'[c].rejoined = trace[c].rejoined
  <2>1. trace \in [Invocations -> TraceType] /\ trace[c] \in TraceType
    BY Types
  <2>2. trace'[c] = [trace[c] EXCEPT !.missed =
           call'[c].save = "saved" /\ procs'[call[c].pid].unsaved]
    BY <1>1, <2>1
  <2>3. QED
    BY <2>1, <2>2 DEF TraceType
<1>3. Kept /\ "build" \in Pcs
  BY Step_Kept DEF Step, Pcs
<1>4. CallOK(c)'
  BY <1>1, <1>2, <1>3, OwnGoing
<1>5. OldOnly(c)'
  BY <1>1, <1>2, OwnOld DEF Advances
<1>6. QED
  BY <1>4, <1>5

LEMMA Kill_Own ==
  ASSUME TypeOK, CallInv, NEW c \in Invocations, Kill(c)
  PROVE  CallOK(c)' /\ OldOnly(c)'
<1>1. call[c].pc = "kill" /\ Going(c) /\ WatchKill(c) /\ UNCHANGED sessions
  BY Kill_Effect DEF Going
<1>2. trace'[c].rejoined = trace[c].rejoined
  <2>1. call[c].pid \in Procs /\ procs[call[c].pid].state # "unborn"
    BY <1>1, PidFacts
  <2>2. QED
    BY <1>1, <2>1, WatchKill_Effect
<1>3. CallOK(c) /\ call[c].pid \in Procs /\ Kept
  BY <1>1, PidFacts, Step_Kept DEF CallInv, Step
<1>4. CASE /\ procs' = [procs EXCEPT ![call[c].pid] = Dead(call[c].pid)]
           /\ Advances(c, "deploy")
  <2>1. procs'[call[c].pid].state = "dead"
    BY <1>3, <1>4, KilledProcs
  <2>2. /\ call'[c].pc = "deploy" /\ call'[c].pid = call[c].pid
        /\ call'[c].new = call[c].new /\ call'[c].reply = call[c].reply
        /\ call'[c].old = call[c].old
    BY <1>4 DEF Advances
  <2>3. CallOK(c)'
    BY <1>1, <1>3, <2>1, <2>2 DEF CallOK, Going, Downed
  <2>4. OldOnly(c)'
    BY <1>1, <1>2, <2>2, OwnOld
  <2>5. QED
    BY <2>3, <2>4
<1>5. CASE Ends(c, "kill_failed")
  <2>1. /\ call'[c].pc = "done" /\ call'[c].pid = call[c].pid
        /\ call'[c].new = call[c].new /\ call'[c].reply # "build_failed"
    BY <1>5 DEF Ends
  <2>2. CallOK(c)'
    BY <1>1, <1>3, <2>1, OwnEnding
  <2>3. OldOnly(c)'
    BY <1>1, <1>2, <2>1, OwnOld
  <2>4. QED
    BY <2>2, <2>3
<1>6. QED
  BY <1>4, <1>5, Kill_Effect

LEMMA Wait_Own ==
  ASSUME TypeOK, CallInv, NEW c \in Invocations, Wait(c)
  PROVE  CallOK(c)' /\ OldOnly(c)'
<1>1. /\ call[c].pc = "wait" /\ Going(c) /\ UNCHANGED <<procs, sessions, trace>>
      /\ call'[c].pc = "done" /\ call'[c].pid = call[c].pid
      /\ call'[c].reply # "build_failed"
      /\ \/ call'[c].new = call[c].new
         \/ \E s \in Arrived(c) : call'[c].new = sessions[s]
  BY Wait_Effect DEF Going
<1>2. Kept
  BY <1>1 DEF Kept
<1>3. CallOK(c)'
  BY <1>1, <1>2, OwnEnding
<1>4. CASE call'[c].new = call[c].new
  <2>1. OldOnly(c)'
    BY <1>1, <1>4, OwnOld
  <2>2. QED
    BY <1>3, <2>1
<1>5. ASSUME NEW s \in Arrived(c), call'[c].new = sessions[s]
      PROVE  OldOnly(c)'
  <2>1. s \in Known /\ s # call[c].old /\ OldOnly(c)
    BY DEF Arrived, CallInv
  <2>2. ~trace[c].rejoined => sessions[s] # call[c].pid
    BY <1>1, <2>1 DEF OldOnly
  <2>3. QED
    BY <1>1, <1>5, <2>2 DEF OldOnly, Going
<1>6. QED
  BY <1>1, <1>3, <1>4, <1>5

(* The steps that change neither the connections nor the history.          *)
LEMMA Plain_Own ==
  ASSUME TypeOK, CallInv, NEW c \in Invocations,
         Build(c) \/ Deploy(c) \/ DeployRest(c) \/ Rebuild(c) \/ Relaunch(c)
  PROVE  CallOK(c)' /\ OldOnly(c)'
<1>1. /\ Going(c) /\ UNCHANGED <<sessions, trace>>
      /\ \/ call[c].pc = "build" /\ (Advances(c, "kill") \/ Ends(c, "build_failed"))
         \/ /\ call[c].pc \in Downed
            /\ \/ \E x \in {"deploying", "rebuild", "relaunch", "wait"} : Advances(c, x)
               \/ \E r \in {"deploy_failed", "rebuild_failed", "relaunch_failed"} :
                    Ends(c, r)
  BY Build_Effect, Deploy_Effect, DeployRest_Effect, Rebuild_Effect, Relaunch_Effect
     DEF Going, Downed
<1>2. Kept /\ CallOK(c)
  BY Step_Kept DEF Step, CallInv
<1>3. ASSUME NEW x \in Pcs, Advances(c, x),
             \/ x = "kill" /\ call[c].pc = "build"
             \/ /\ x \in {"deploying", "rebuild", "relaunch", "wait"}
                /\ call[c].pc \in Downed
      PROVE  CallOK(c)' /\ OldOnly(c)'
  <2>1. CallOK(c)'
    BY <1>1, <1>2, <1>3, OwnGoing
  <2>2. OldOnly(c)'
    BY <1>1, <1>3, OwnOld DEF Advances
  <2>3. QED
    BY <2>1, <2>2
<1>4. ASSUME NEW r \in Replies, Ends(c, r), r = "build_failed" => call[c].pc = "build"
      PROVE  CallOK(c)' /\ OldOnly(c)'
  <2>1. /\ call'[c].pc = "done" /\ call'[c].pid = call[c].pid
        /\ call'[c].new = call[c].new /\ call'[c].reply = r
    BY <1>4 DEF Ends
  <2>2. call'[c].reply = "build_failed" => trace'[c].found = "none"
    BY <1>1, <1>2, <1>4, <2>1 DEF CallOK
  <2>3. CallOK(c)'
    BY <1>1, <1>2, <2>1, <2>2, OwnEnding DEF Going
  <2>4. OldOnly(c)'
    BY <1>1, <2>1, OwnOld
  <2>5. QED
    BY <2>3, <2>4
<1>5. CASE call[c].pc = "build" /\ (Advances(c, "kill") \/ Ends(c, "build_failed"))
  <2>1. "kill" \in Pcs /\ "build_failed" \in Replies
    BY DEF Pcs, Replies
  <2>2. QED
    BY <1>3, <1>4, <1>5, <2>1
<1>6. ASSUME NEW x \in {"deploying", "rebuild", "relaunch", "wait"}, Advances(c, x),
             call[c].pc \in Downed
      PROVE  CallOK(c)' /\ OldOnly(c)'
  <2>1. x \in Pcs
    BY DEF Pcs
  <2>2. QED
    BY <1>3, <1>6, <2>1
<1>7. ASSUME NEW r \in {"deploy_failed", "rebuild_failed", "relaunch_failed"}, Ends(c, r)
      PROVE  CallOK(c)' /\ OldOnly(c)'
  <2>1. r \in Replies /\ r # "build_failed"
    BY DEF Replies
  <2>2. QED
    BY <1>4, <1>7, <2>1
<1>8. QED
  BY <1>1, <1>5, <1>6, <1>7

LEMMA Step_Others ==
  ASSUME TypeOK, NEW c \in Invocations, Step(c), NEW d \in Invocations \ {c}
  PROVE  call'[d] = call[d] /\ trace'[d] = trace[d]
<1>1. Others(c)
  BY Begin_Effect, Save_Effect, Build_Effect, Kill_Effect, Deploy_Effect,
     DeployRest_Effect, Rebuild_Effect, Relaunch_Effect, Wait_Effect
     DEF Step, Advances, Ends
<1>2. trace'[d] = trace[d]
  <2>1. trace \in [Invocations -> TraceType]
    BY Types
  <2>2. ASSUME Save(c) \/ Kill(c)
        PROVE  trace'[d] = trace[d]
    <3>1. CASE Save(c)
      BY <2>1, <3>1, Save_Effect
    <3>2. CASE Kill(c)
      BY <2>1, <3>2, Kill_Effect DEF WatchKill
    <3>3. QED
      BY <2>2, <3>1, <3>2
  <2>3. Save(c) \/ Kill(c) \/ UNCHANGED trace
    BY DEF Step, Begin, Build, Deploy, DeployRest, Rebuild, Relaunch, Wait
  <2>4. QED
    BY <2>2, <2>3
<1>3. QED
  BY <1>1, <1>2 DEF Others

LEMMA Next_Calls ==
  ASSUME TypeOK, SessionInv, CallInv, [Next]_vars
  PROVE  CallInv'
<1> SUFFICES ASSUME NEW d \in Invocations PROVE CallOK(d)' /\ OldOnly(d)'
  BY DEF CallInv
<1>1. ASSUME NEW p \in Procs, Connect(p)
      PROVE  CallOK(d)' /\ OldOnly(d)'
  BY <1>1, Connect_Calls
<1>2. ASSUME Kept, call' = call, trace' = trace, Known' \subseteq Known,
             \A s \in Known' : sessions'[s] = sessions[s]
      PROVE  CallOK(d)' /\ OldOnly(d)'
  BY <1>2, OtherCalls, OtherOlds
<1>3. ASSUME NEW s \in Sessions, Disconnect(s)
      PROVE  CallOK(d)' /\ OldOnly(d)'
  <2>1. Kept /\ call' = call /\ trace' = trace
    BY <1>3, Env_Kept DEF Disconnect
  <2>2. QED
    BY <1>2, <1>3, <2>1, Disconnect_Sessions
<1>4. ASSUME \/ \E p \in Procs : Edit(p) \/ Crash(p)
             \/ \E s \in Sessions : SetActive(s)
             \/ UNCHANGED vars
      PROVE  CallOK(d)' /\ OldOnly(d)'
  <2>1. UNCHANGED <<call, trace, sessions>>
    BY <1>4 DEF Edit, Crash, SetActive, vars
  <2>2. Kept /\ Known' = Known
    BY <1>4, <2>1, Env_Kept DEF Known
  <2>3. QED
    BY <1>2, <2>1, <2>2
<1>5. ASSUME NEW c \in Invocations, Step(c)
      PROVE  CallOK(d)' /\ OldOnly(d)'
  <2>1. CASE d = c
    BY <1>5, <2>1, Begin_Own, Save_Own, Kill_Own, Wait_Own, Plain_Own DEF Step
  <2>2. CASE d # c
    <3>1. call'[d] = call[d] /\ trace'[d] = trace[d]
      BY <1>5, <2>2, Step_Others
    <3>2. Kept /\ sessions' = sessions /\ Known' = Known
      BY <1>5, Step_Kept, Step_Sessions DEF Known
    <3>3. QED
      BY <3>1, <3>2, OtherCalls, OtherOlds
  <2>3. QED
    BY <2>1, <2>2
<1>6. QED
  BY <1>1, <1>3, <1>4, <1>5 DEF Next
-----------------------------------------------------------------------------
(* Calls that do not overlap.                                              *)

LEMMA Step_Going ==
  ASSUME TypeOK, NEW c \in Invocations, Step(c)
  PROVE  \/ Begin(c) /\ call[c].pc = "idle"
         \/ ~Begin(c) /\ Going(c)
  BY DEF Step, Begin, Save, Build, Kill, Deploy, DeployRest, Rebuild, Relaunch, Wait,
     Going

LEMMA Env_Calls ==
  ASSUME \/ \E p \in Procs : Connect(p) \/ Edit(p) \/ Crash(p)
         \/ \E s \in Sessions : Disconnect(s) \/ SetActive(s)
         \/ UNCHANGED vars
  PROVE  UNCHANGED <<call, plugin>>
  BY DEF Connect, Edit, Crash, Disconnect, SetActive, vars

LEMMA Begin_Alone ==
  ASSUME ~Concurrent, TypeOK, NEW c \in Invocations, Begin(c),
         NEW d \in Invocations
  PROVE  ~Going(d)
  BY Begin_Effect DEF Going

LEMMA Step_Alone ==
  ASSUME ~Concurrent, TypeOK, Alone, NEW c \in Invocations, Step(c)
  PROVE  Alone' /\ \A d \in Invocations \ {c} : ~Going(d)
<1>1. ASSUME NEW d \in Invocations \ {c}
      PROVE  ~Going(d) /\ ~Going(d)'
  <2>1. ~Going(d)
    <3>1. CASE Begin(c)
      BY <3>1, Begin_Alone
    <3>2. CASE Going(c)
      BY <3>2 DEF Alone
    <3>3. QED
      BY <3>1, <3>2, Step_Going
  <2>2. call'[d] = call[d]
    BY Step_Others
  <2>3. QED
    BY <2>1, <2>2 DEF Going
<1>2. QED
  BY <1>1 DEF Alone

(* The plugin's files.                                                     *)
WholeFor(c) ==
  call[c].builds /\ call[c].pc \in {"rebuild", "relaunch", "wait"}
    => plugin[procs[call[c].pid].slot] = "whole"

LEMMA OtherWhole ==
  ASSUME TypeOK, CallInv, Kept, UNCHANGED plugin, NEW d \in Invocations,
         WholeFor(d), call'[d].builds => call[d].builds,
         call'[d].pc = call[d].pc \/ call[d].pc \in {"rebuild", "relaunch", "wait"},
         call'[d].pid = call[d].pid
  PROVE  WholeFor(d)'
<1> SUFFICES ASSUME call'[d].builds, call'[d].pc \in {"rebuild", "relaunch", "wait"}
             PROVE  plugin'[procs'[call'[d].pid].slot] = "whole"
  BY DEF WholeFor
<1>1. call[d].pc \in {"rebuild", "relaunch", "wait"} /\ Going(d)
  BY DEF Going
<1>2. call[d].pid \in Procs /\ procs[call[d].pid].state # "unborn"
  BY <1>1, PidFacts
<1>3. procs'[call[d].pid].slot = procs[call[d].pid].slot
  BY <1>2 DEF Kept
<1>4. QED
  BY <1>1, <1>3 DEF WholeFor

LEMMA Own_Whole ==
  ASSUME TypeOK, CallInv, NEW c \in Invocations, Step(c), WholeFor(c)
  PROVE  WholeFor(c)'
<1>1. Kept
  BY Step_Kept
<1>2. ASSUME call'[c].pc \notin {"rebuild", "relaunch", "wait"}
      PROVE  WholeFor(c)'
  BY <1>2 DEF WholeFor
<1>3. CASE Begin(c) \/ Save(c) \/ Build(c) \/ Kill(c) \/ Wait(c)
  <2>1. call'[c].pc \in {"save", "build", "kill", "deploy", "done"}
    BY <1>3, Begin_Effect, Save_Effect, Build_Effect, Kill_Effect, Wait_Effect
       DEF Advances, Ends
  <2>2. QED
    BY <1>2, <2>1
<1>4. CASE Deploy(c)
  <2>1. \/ ~call'[c].builds
        \/ call'[c].pc \in {"done", "deploying"}
    BY <1>4, Deploy_Effect DEF Advances, Ends
  <2>2. QED
    BY <2>1 DEF WholeFor
<1>5. CASE DeployRest(c)
  <2>1. /\ call[c].pc = "deploying" /\ UNCHANGED procs
        /\ \/ /\ plugin' = [plugin EXCEPT ![procs[call[c].pid].slot] = "whole"]
              /\ call'[c].pid = call[c].pid
           \/ call'[c].pc = "done"
    BY <1>5, DeployRest_Effect DEF Advances, Ends
  <2>2. procs[call[c].pid].slot \in Slots
    BY <2>1, PidFacts DEF Going
  <2>3. plugin \in [Slots -> {"whole", "mixed"}]
    BY Types
  <2>4. QED
    BY <2>1, <2>2, <2>3 DEF WholeFor
<1>6. CASE Rebuild(c) \/ Relaunch(c)
  <2>1. /\ call[c].pc \in {"rebuild", "relaunch"} /\ UNCHANGED plugin
        /\ \/ call'[c].pc = "done"
           \/ /\ call'[c].pc \in {"relaunch", "wait"}
              /\ call'[c].builds = call[c].builds /\ call'[c].pid = call[c].pid
    BY <1>6, Rebuild_Effect, Relaunch_Effect DEF Advances, Ends
  <2>2. CASE call'[c].pc = "done"
    BY <1>2, <2>2
  <2>3. CASE call'[c].builds = call[c].builds /\ call'[c].pid = call[c].pid
    BY <1>1, <2>1, <2>3, OtherWhole
  <2>4. QED
    BY <2>1, <2>2, <2>3
<1>7. QED
  BY <1>3, <1>4, <1>5, <1>6 DEF Step

LEMMA Whole == RelaunchedOverWholePlugin <=> \A c \in Invocations : WholeFor(c)
  BY DEF RelaunchedOverWholePlugin, WholeFor

LEMMA Next_Whole ==
  ASSUME ~Concurrent, TypeOK, CallInv, Alone, RelaunchedOverWholePlugin, [Next]_vars
  PROVE  RelaunchedOverWholePlugin'
<1> SUFFICES ASSUME NEW d \in Invocations PROVE WholeFor(d)'
  BY DEF RelaunchedOverWholePlugin, WholeFor
<1>0. WholeFor(d)
  BY Whole
<1>1. ASSUME \/ \E p \in Procs : Connect(p) \/ Edit(p) \/ Crash(p)
             \/ \E s \in Sessions : Disconnect(s) \/ SetActive(s)
             \/ UNCHANGED vars
      PROVE  WholeFor(d)'
  <2>1. Kept
    BY <1>1, Env_Kept
  <2>2. UNCHANGED plugin /\ UNCHANGED call
    BY <1>1, Env_Calls
  <2>3. QED
    BY <1>0, <2>1, <2>2, OtherWhole
<1>2. ASSUME NEW c \in Invocations, Step(c)
      PROVE  WholeFor(d)'
  <2>1. CASE d = c
    BY <1>0, <1>2, <2>1, Own_Whole
  <2>2. CASE d # c
    <3>1. ~Going(d) /\ call'[d] = call[d]
      BY <1>2, <2>2, Step_Alone, Step_Others
    <3>2. QED
      BY <3>1 DEF WholeFor, Going
  <2>3. QED
    BY <2>1, <2>2
<1>3. QED
  BY <1>1, <1>2 DEF Next

(* The editors of a project.                                               *)
LEMMA NoneStarts_Slots ==
  ASSUME NoneStarts, OnePerSlot
  PROVE  OnePerSlot'
<1> SUFFICES ASSUME NEW p \in Procs, NEW q \in Procs, Running(p)', Running(q)',
                    procs'[p].slot = procs'[q].slot
             PROVE  p = q
  BY DEF OnePerSlot
<1>1. /\ procs[p].slot = procs'[p].slot /\ procs[q].slot = procs'[q].slot
      /\ Running(p) /\ Running(q)
  BY DEF NoneStarts, Running
<1>2. QED
  BY <1>1 DEF OnePerSlot

LEMMA NoneStarts_Down ==
  ASSUME NoneStarts, NEW d \in Invocations, call'[d].pid = call[d].pid,
         call[d].pid \in Procs, SlotDown(d)
  PROVE  SlotDown(d)'
<1> SUFFICES ASSUME NEW p \in Procs, Running(p)'
             PROVE  procs'[p].slot # procs'[call'[d].pid].slot
  BY DEF SlotDown
<1>1. /\ Running(p) /\ procs'[p].slot = procs[p].slot
      /\ procs'[call[d].pid].slot = procs[call[d].pid].slot
  BY DEF NoneStarts, Running
<1>2. QED
  BY <1>1 DEF SlotDown

LEMMA Env_Slots ==
  ASSUME TypeOK, CallInv, SlotInv,
         \/ \E p \in Procs : Connect(p) \/ Edit(p) \/ Crash(p)
         \/ \E s \in Sessions : Disconnect(s) \/ SetActive(s)
         \/ UNCHANGED vars
  PROVE  SlotInv'
<1>1. NoneStarts /\ call' = call
  BY Env_Kept, Env_Calls
<1>2. \A c \in Invocations : trace'[c].found = trace[c].found
  <2>1. CASE UNCHANGED trace
    BY <2>1
  <2>2. ASSUME NEW p \in Procs, Connect(p)
        PROVE  \A c \in Invocations : trace'[c].found = trace[c].found
    <3>1. trace \in [Invocations -> TraceType]
      BY Types
    <3>2. QED
      BY <2>2, <3>1 DEF Connect, TraceType
  <2>3. (\E p \in Procs : Connect(p)) \/ UNCHANGED trace
    BY DEF Edit, Crash, Disconnect, SetActive, vars
  <2>4. QED
    BY <2>1, <2>2, <2>3
<1> SUFFICES ASSUME NoneFoundDead'
             PROVE  /\ OnePerSlot'
                    /\ \A c \in Invocations : call'[c].pc \in Downed => SlotDown(c)'
  BY DEF SlotInv
<1>3. NoneFoundDead
  BY <1>2 DEF NoneFoundDead
<1>4. OnePerSlot'
  BY <1>1, <1>3, NoneStarts_Slots DEF SlotInv
<1>5. ASSUME NEW c \in Invocations, call'[c].pc \in Downed
      PROVE  SlotDown(c)'
  <2>1. call[c].pc \in Downed /\ call'[c].pid = call[c].pid
    BY <1>1, <1>5
  <2>2. call[c].pid \in Procs
    BY <2>1, PidFacts DEF Going, Downed
  <2>3. SlotDown(c)
    BY <1>3, <2>1 DEF SlotInv
  <2>4. QED
    BY <1>1, <2>1, <2>2, <2>3, NoneStarts_Down
<1>6. QED
  BY <1>4, <1>5

LEMMA Step_Slots ==
  ASSUME ~Concurrent, TypeOK, CallInv, Alone, SlotInv, NEW c \in Invocations, Step(c)
  PROVE  SlotInv'
<1>1. NoneFoundDead' => NoneFoundDead
  <2>1. \A d \in Invocations \ {c} : trace'[d] = trace[d]
    BY Step_Others
  <2>2. CASE Kill(c)
    <3>1. trace[c].found = "none"
      BY <2>2, Kill_Effect DEF CallInv, CallOK
    <3>2. QED
      BY <2>1, <3>1 DEF NoneFoundDead
  <2>3. CASE ~Kill(c)
    <3>1. CASE Save(c)
      <4>1. trace \in [Invocations -> TraceType] /\ trace[c] \in TraceType
        BY Types
      <4>2. trace'[c] = [trace[c] EXCEPT !.missed =
              call'[c].save = "saved" /\ procs'[call[c].pid].unsaved]
        BY <3>1, <4>1, Save_Effect
      <4>3. trace'[c].found = trace[c].found
        BY <4>1, <4>2 DEF TraceType
      <4>4. QED
        BY <2>1, <4>3 DEF NoneFoundDead
    <3>2. CASE ~Save(c)
      <4>1. UNCHANGED trace
        BY <2>3, <3>2 DEF Step, Begin, Build, Deploy, DeployRest, Rebuild, Relaunch, Wait
      <4>2. QED
        BY <4>1 DEF NoneFoundDead
    <3>3. QED
      BY <3>1, <3>2
  <2>4. QED
    BY <2>2, <2>3
<1> SUFFICES ASSUME NoneFoundDead'
             PROVE  /\ OnePerSlot'
                    /\ \A d \in Invocations : call'[d].pc \in Downed => SlotDown(d)'
  BY DEF SlotInv
<1>2. /\ OnePerSlot
      /\ \A d \in Invocations : call[d].pc \in Downed => SlotDown(d)
  BY <1>1 DEF SlotInv
<1>3. \A d \in Invocations \ {c} : call'[d].pc \notin Downed
  <2>1. \A d \in Invocations \ {c} : ~Going(d) /\ call'[d] = call[d]
    BY Step_Alone, Step_Others
  <2>2. QED
    BY <2>1 DEF Going, Downed
<1>4. CASE Relaunch(c)
  <2>1. call'[c].pc \notin Downed /\ call[c].pc = "relaunch"
    BY <1>4, Relaunch_Effect DEF Advances, Ends, Downed
  <2>2. OnePerSlot'
    <3>1. SlotDown(c)
      BY <1>2, <2>1 DEF Downed
    <3>2. ASSUME NEW q \in Procs, Launched(c, q)
          PROVE  OnePerSlot'
      <4>1. /\ procs'[q].slot = procs[call[c].pid].slot
            /\ \A p \in Procs \ {q} : procs'[p] = procs[p]
        BY <3>2, LaunchedProcs
      <4>2. \A p \in Procs \ {q} : Running(p)' => Running(p)
                                   /\ procs'[p].slot # procs'[q].slot
        BY <3>1, <4>1 DEF Running, SlotDown
      <4>3. ASSUME NEW p \in Procs, NEW r \in Procs, Running(p)', Running(r)',
                   procs'[p].slot = procs'[r].slot
            PROVE  p = r
        <5>1. CASE p = q \/ r = q
          BY <4>2, <4>3, <5>1
        <5>2. CASE p # q /\ r # q
          <6>1. Running(p) /\ Running(r) /\ procs[p].slot = procs[r].slot
            BY <4>1, <4>2, <4>3, <5>2
          <6>2. QED
            BY <1>2, <6>1 DEF OnePerSlot
        <5>3. QED
          BY <5>1, <5>2
      <4>4. QED
        BY <4>3 DEF OnePerSlot
    <3>3. CASE UNCHANGED procs
      BY <1>2, <3>3 DEF OnePerSlot, Running
    <3>4. QED
      BY <1>4, <3>2, <3>3, Relaunch_Effect
  <2>3. QED
    BY <1>3, <2>1, <2>2
<1>5. CASE ~Relaunch(c)
  <2>1. NoneStarts
    BY <1>5, Step_Kept
  <2>2. OnePerSlot'
    BY <1>2, <2>1, NoneStarts_Slots
  <2>3. ASSUME call'[c].pc \in Downed, ~Kill(c)
        PROVE  SlotDown(c)'
    <3>1. call[c].pc \in Downed /\ call'[c].pid = call[c].pid
      <4>1. CASE Deploy(c)
        BY <4>1, Deploy_Effect DEF Advances, Ends, Downed
      <4>2. CASE DeployRest(c)
        BY <4>2, DeployRest_Effect DEF Advances, Ends, Downed
      <4>3. CASE Rebuild(c)
        BY <4>3, Rebuild_Effect DEF Advances, Ends, Downed
      <4>4. CASE Save(c)
        BY <2>3, <4>4, Save_Effect DEF Advances, Downed
      <4>5. CASE Build(c)
        BY <2>3, <4>5, Build_Effect DEF Advances, Ends, Downed
      <4>6. CASE Wait(c)
        BY <2>3, <4>6, Wait_Effect DEF Downed
      <4>7. CASE Begin(c)
        BY <2>3, <4>7, Begin_Effect DEF Ends, Downed
      <4>8. QED
        BY <1>5, <2>3, <4>1, <4>2, <4>3, <4>4, <4>5, <4>6, <4>7 DEF Step
    <3>2. call[c].pid \in Procs
      BY <3>1, PidFacts DEF Going, Downed
    <3>3. SlotDown(c)
      BY <1>2, <3>1
    <3>4. QED
      BY <2>1, <3>1, <3>2, <3>3, NoneStarts_Down
  <2>4. ASSUME call'[c].pc \in Downed, Kill(c)
        PROVE  SlotDown(c)'
    <3>1. /\ procs' = [procs EXCEPT ![call[c].pid] = Dead(call[c].pid)]
          /\ call'[c].pid = call[c].pid /\ call[c].pc = "kill"
          /\ WatchKill(c)
      BY <2>4, Kill_Effect DEF Advances, Ends, Downed
    <3>2. /\ call[c].pid \in Procs
          /\ procs[call[c].pid].state \in {"running", "dead"}
      BY <3>1, PidFacts DEF Going
    <3>3. procs[call[c].pid].state # "dead"
      <4>1. trace'[c].found = procs[call[c].pid].state
        BY <3>1, <3>2, WatchKill_Effect
      <4>2. QED
        BY <4>1 DEF NoneFoundDead
    <3>4. /\ procs'[call[c].pid].slot = procs[call[c].pid].slot
          /\ procs'[call[c].pid].state = "dead"
          /\ \A p \in Procs \ {call[c].pid} : procs'[p] = procs[p]
      BY <3>1, <3>2, KilledProcs
    <3>5. ASSUME NEW p \in Procs, Running(p)'
          PROVE  procs'[p].slot # procs'[call'[c].pid].slot
      <4>1. p # call[c].pid /\ procs'[p] = procs[p] /\ Running(p) /\ Running(call[c].pid)
        BY <3>2, <3>3, <3>4, <3>5 DEF Running
      <4>2. procs[p].slot # procs[call[c].pid].slot
        BY <1>2, <3>2, <4>1 DEF OnePerSlot
      <4>3. QED
        BY <3>1, <3>4, <4>1, <4>2
    <3>6. QED
      BY <3>5 DEF SlotDown
  <2>5. QED
    BY <1>3, <2>2, <2>3, <2>4
<1>6. QED
  BY <1>4, <1>5

LEMMA Next_Solo ==
  TypeOK /\ CallInv /\ SoloInv /\ [Next]_vars => SoloInv'
<1> SUFFICES ASSUME TypeOK, CallInv, [Next]_vars, ~Concurrent, Alone,
                    RelaunchedOverWholePlugin, SlotInv
             PROVE  Alone' /\ RelaunchedOverWholePlugin' /\ SlotInv'
  BY DEF SoloInv
<1>1. RelaunchedOverWholePlugin'
  BY Next_Whole
<1>2. CASE \/ \E p \in Procs : Connect(p) \/ Edit(p) \/ Crash(p)
           \/ \E s \in Sessions : Disconnect(s) \/ SetActive(s)
           \/ UNCHANGED vars
  <2>1. call' = call
    BY <1>2, Env_Calls
  <2>2. Alone'
    BY <2>1 DEF Alone, Going
  <2>3. QED
    BY <1>1, <1>2, <2>2, Env_Slots
<1>3. ASSUME NEW c \in Invocations, Step(c)
      PROVE  Alone' /\ SlotInv'
  BY <1>3, Step_Alone, Step_Slots
<1>4. QED
  BY <1>1, <1>2, <1>3 DEF Next
-----------------------------------------------------------------------------
(* The theorems.                                                           *)

LEMMA Init_OK == Init => TypeOK /\ SessionInv /\ CallInv /\ SoloInv
<1> SUFFICES ASSUME Init PROVE TypeOK /\ SessionInv /\ CallInv /\ SoloInv
  OBVIOUS
<1>0. MaxProcs \in Nat /\ MaxSessions \in Nat
  BY RestartAssumption
<1>1. PICK first \in [1..2 \cap Procs -> Slots] :
        procs = [p \in Procs |->
          IF p \in 1..2 THEN [slot |-> first[p], state |-> "running", unsaved |-> FALSE]
          ELSE [slot |-> CHOOSE s \in Slots : TRUE, state |-> "unborn",
                unsaved |-> FALSE]]
  BY DEF Init
<1>2. procs \in [Procs -> ProcType]
  <2>1. ASSUME NEW p \in Procs
        PROVE  procs[p] \in ProcType
    <3>1. CASE p \in 1..2
      <4>1. first[p] \in Slots
        BY <3>1
      <4>2. procs[p] = [slot |-> first[p], state |-> "running", unsaved |-> FALSE]
        BY <1>1, <3>1
      <4>3. QED
        BY <4>1, <4>2 DEF ProcType
    <3>2. CASE p \notin 1..2
      <4>1. 1 \in 1..2 \cap Procs
        BY <1>0 DEF Procs
      <4>2. first[1] \in Slots
        BY <4>1
      <4>3. (CHOOSE s \in Slots : TRUE) \in Slots
        BY <4>2
      <4>4. procs[p] = [slot |-> CHOOSE s \in Slots : TRUE, state |-> "unborn",
                        unsaved |-> FALSE]
        BY <1>1, <3>2
      <4>5. QED
        BY <4>3, <4>4 DEF ProcType
    <3>3. QED
      BY <3>1, <3>2
  <2>2. QED
    BY <1>1, <2>1
<1>3. /\ call \in [Invocations -> CallType] /\ trace \in [Invocations -> TraceType]
      /\ \A c \in Invocations :
           /\ call[c].pc = "idle" /\ call[c].pid = 0 /\ call[c].new = 0
           /\ call[c].reply = "none" /\ trace[c].found = "none"
  <2>1. 0 \in 0..MaxSessions /\ 0 \in 0..MaxProcs
    BY <1>0
  <2>2. QED
    BY <2>1 DEF Init, CallType, TraceType, Pcs, Replies
<1>4. Known = {}
  BY DEF Init, Known
<1>5. TypeOK
  <2>1. /\ sessions \in [Sessions -> 0..MaxProcs]
        /\ opened \in 0..MaxSessions /\ active \in 0..MaxSessions
        /\ plugin \in [Slots -> {"whole", "mixed"}]
    BY <1>0 DEF Init
  <2>2. QED
    BY <1>2, <1>3, <2>1, Types
<1>6. SessionInv
  BY <1>4 DEF SessionInv
<1>7. CallInv
  BY <1>3 DEF CallInv, CallOK, OldOnly, Going, Downed
<1>8. Alone /\ RelaunchedOverWholePlugin
  BY <1>3 DEF Alone, RelaunchedOverWholePlugin, Going
<1>9. SlotInv
  <2>1. ASSUME NEW p \in Procs, Running(p)
        PROVE  p \in 1..2 \cap Procs
    BY <1>1, <2>1 DEF Running
  <2>2. \A p, q \in 1..2 \cap Procs : procs[p].slot = procs[q].slot => p = q
    BY DEF Init
  <2>3. OnePerSlot
    BY <2>1, <2>2 DEF OnePerSlot
  <2>4. QED
    BY <1>3, <2>3 DEF SlotInv, Downed
<1>10. QED
  BY <1>5, <1>6, <1>7, <1>8, <1>9 DEF SoloInv

RestartInv == TypeOK /\ SessionInv /\ CallInv /\ SoloInv

LEMMA Next_OK == RestartInv /\ [Next]_vars => RestartInv'
  BY Next_Types, Next_Sessions, Next_Calls, Next_Solo DEF RestartInv

LEMMA RestartInvariant == Spec => []RestartInv
<1>1. Init => RestartInv
  BY Init_OK DEF RestartInv
<1>2. QED
  BY <1>1, Next_OK, PTL DEF Spec

(* Sessions, processes, the plugin's files and the state of every call     *)
(* keep their types; in particular each step reads the record of a process *)
(* that exists.                                                            *)
THEOREM TypeCorrect == Spec => []TypeOK
<1>1. RestartInv => TypeOK
  BY DEF RestartInv
<1>2. QED
  BY <1>1, RestartInvariant, PTL

(* A call deploys, rebuilds and relaunches only over an editor that is     *)
(* down, and gives up on a failed build before it has killed anything,     *)
(* however the calls overlap (runRestart, steps 2 to 5).                   *)
THEOREM DeploysOverDeadTarget == Spec => []TargetDownForDeploy
<1>1. RestartInv => TargetDownForDeploy
  <2> SUFFICES ASSUME RestartInv, NEW c \in Invocations
               PROVE  /\ call[c].pc \in {"deploy", "deploying", "rebuild", "relaunch",
                                         "wait"}
                           => ~Running(call[c].pid) /\ call[c].reply = "none"
                      /\ call[c].reply = "build_failed" => trace[c].found = "none"
    BY DEF TargetDownForDeploy
  <2>1. CallOK(c)
    BY DEF RestartInv, CallInv
  <2>2. QED
    BY <2>1 DEF CallOK, Downed, Running
<1>2. QED
  BY <1>1, RestartInvariant, PTL

(* The pid of the session that waitForNewSession reports is not that of    *)
(* the editor the call killed, unless that editor connected a second time  *)
(* meanwhile.                                                              *)
THEOREM ReturnedEditorIsNew == Spec => []ReturnsAnotherEditor
<1>1. RestartInv => ReturnsAnotherEditor
  BY DEF RestartInv, CallInv, OldOnly, ReturnsAnotherEditor
<1>2. QED
  BY <1>1, RestartInvariant, PTL

(* Served one at a time (stdio), a call that replaced the plugin relaunches*)
(* the editor over all of it: deployPackagedPlugin's failure ends the call.*)
THEOREM RelaunchesWholePlugin ==
  ASSUME ~Concurrent
  PROVE  Spec => []RelaunchedOverWholePlugin
<1>1. RestartInv => RelaunchedOverWholePlugin
  BY DEF RestartInv, SoloInv
<1>2. QED
  BY <1>1, RestartInvariant, PTL

(* Served one at a time, restarts never leave two editors of one project,  *)
(* unless a call resolved a session whose process had died.                *)
THEOREM OneEditorOfASlot ==
  ASSUME ~Concurrent
  PROVE  Spec => []OneEditorPerSlot
<1>1. RestartInv => OneEditorPerSlot
  BY DEF RestartInv, SoloInv, SlotInv, NoneFoundDead, OnePerSlot, OneEditorPerSlot
<1>2. QED
  BY <1>1, RestartInvariant, PTL
=============================================================================
