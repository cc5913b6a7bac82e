------------------------- MODULE BridgeServer_proofs -------------------------
(***************************************************************************)
(* Proofs about BridgeServer, for any number of calls, sessions, names and *)
(* waiters.                                                                *)
(***************************************************************************)
EXTENDS BridgeServer, TLAPS

LEMMA OutcomeTypes ==
  /\ \A c \in Calls : Result(c) \in Outcomes /\ Result(c) # Unset
  /\ \A k \in Failures : Error(k) \in Outcomes /\ Error(k) # Unset
<1>1. \A k \in Failures : k # "unset" /\ k # "result"
  BY DEF Failures, Rejections
<1>2. QED
  BY <1>1 DEF Outcomes, Result, Error, Unset

LEMMA FailureKinds ==
  /\ {"timeout", "disconnected", "stopped"} \subseteq Failures
  /\ {"not_running", "no_match", "no_editor", "ambiguous", "gone"} \subseteq Failures
  BY DEF Failures, Rejections

-----------------------------------------------------------------------------
(* Type correctness. *)

(* The three ways a dispatching thread changes its local state.            *)
LEMMA CallSteps_Types ==
  ASSUME NEW c \in Calls, RpcTypes, UNCHANGED <<pending, txCounter, promise>>,
         \/ \E pc \in Pcs \ ({"lookup", "register"} \cup FlightPcs) : Goto(c, pc)
         \/ call[c].pc = "lookup" /\ Goto(c, "register")
         \/ call[c].pc \in FlightPcs /\ \E pc \in FlightPcs : Goto(c, pc)
         \/ \E v \in Outcomes : Return(c, v)
         \/ \E s \in Sessions : Target(c, s)
  PROVE  RpcTypes'
<1> USE DEF FlightPcs
<1>1. call[c] \in CallStates
  BY DEF RpcTypes
<1>2. ASSUME NEW pc \in Pcs, Goto(c, pc),
             \/ pc \notin {"lookup", "register"} \cup FlightPcs
             \/ call[c].pc = "lookup" /\ pc = "register"
             \/ call[c].pc \in FlightPcs
      PROVE  RpcTypes'
  <2>1. [call[c] EXCEPT !.pc = pc] \in CallStates
    BY <1>1, <1>2 DEF CallStates, CallRecords
  <2>2. QED
    BY <1>2, <2>1 DEF RpcTypes, Goto
<1>3. CASE \E v \in Outcomes : Return(c, v)
  <2>1. PICK v \in Outcomes : Return(c, v)
    BY <1>3
  <2>2. [call[c] EXCEPT !.pc = "done", !.outcome = v] \in CallStates
    BY <1>1 DEF CallStates, CallRecords, Pcs, FlightPcs
  <2>3. QED
    BY <2>1, <2>2 DEF RpcTypes, Return
<1>4. CASE \E s \in Sessions : Target(c, s)
  <2>1. PICK s \in Sessions : Target(c, s)
    BY <1>4
  <2>2. [call[c] EXCEPT !.pc = "lookup", !.target = s] \in CallStates
    BY <1>1 DEF CallStates, CallRecords, Pcs, FlightPcs
  <2>3. QED
    BY <2>1, <2>2 DEF RpcTypes, Target
<1>5. QED
  BY <1>2, <1>3, <1>4 DEF Pcs

LEMMA Resolve_Types ==
  ASSUME NEW P, NEW v \in Outcomes, RpcTypes, Resolve(P, v)
  PROVE  promise' \in [Calls -> Outcomes \cup {Unset}]
  BY DEF Resolve, RpcTypes

LEMMA Lose_Types ==
  ASSUME NEW S \in SUBSET Sessions, SessionTypes, WireTypes, Lose(S), ran' = ran
  PROVE  conn' \in [Sessions -> {"new", "open", "dropped"}] /\ WireTypes'
<1>1. PICK keep \in [S -> 0..Cardinality(Calls)] :
        /\ \A s \in S : keep[s] <= Len(toEditor[s])
        /\ toEditor' = [s \in Sessions |-> IF s \in S
                          THEN SubSeq(toEditor[s], 1, keep[s]) ELSE toEditor[s]]
  BY DEF Lose
<1>2. ASSUME NEW s \in S
      PROVE  SubSeq(toEditor[s], 1, keep[s]) \in Seq(Messages)
  <2>1. toEditor[s] \in Seq(Messages) /\ keep[s] \in 0..Cardinality(Calls)
    BY DEF WireTypes
  <2>2. \A i \in 1..keep[s] : toEditor[s][i] \in Messages
    BY <1>1, <2>1
  <2>3. QED
    BY <2>1, <2>2
<1>3. toEditor' \in [Sessions -> Seq(Messages)]
  BY <1>1, <1>2 DEF WireTypes
<1>4. QED
  BY <1>3 DEF Lose, SessionTypes, WireTypes

LEMMA Notified_Types ==
  ASSUME WaiterTypes
  PROVE  Notified \in [Waiters -> WaitStates]
<1>1. \A w \in Waiters : waiter[w] \in WaitStates
  BY DEF WaiterTypes
<1>2. QED
  BY <1>1 DEF Notified, WaitStates, WaitPcs

LEMMA WaiterStep_Types ==
  ASSUME NEW w \in Waiters, WaiterTypes,
         \/ \E pc \in WaitPcs : WGoto(w, pc)
         \/ \E s \in Sessions \cup {None} : Found(w, s)
  PROVE  WaiterTypes'
<1>1. waiter[w] \in WaitStates
  BY DEF WaiterTypes
<1>2. \A pc \in WaitPcs : [waiter[w] EXCEPT !.pc = pc] \in WaitStates
  BY <1>1 DEF WaitStates
<1>3. \A s \in Sessions \cup {None} :
        [waiter[w] EXCEPT !.pc = "done", !.found = s] \in WaitStates
  BY <1>1 DEF WaitStates, WaitPcs
<1>4. QED
  BY <1>2, <1>3 DEF WaiterTypes, WGoto, Found

(* Groups of variables that a step leaves alone keep their types.          *)
LEMMA Frame_Types ==
  /\ SessionTypes /\ UNCHANGED sessionVars => SessionTypes'
  /\ RpcTypes /\ UNCHANGED rpcVars => RpcTypes'
  /\ WireTypes /\ UNCHANGED wireVars => WireTypes'
  /\ StopTypes /\ UNCHANGED stopVars => StopTypes'
  /\ ActiveTypes /\ UNCHANGED activeVars => ActiveTypes'
  /\ WaiterTypes /\ UNCHANGED waiter => WaiterTypes'
  BY DEF SessionTypes, RpcTypes, WireTypes, StopTypes, ActiveTypes, WaiterTypes,
         sessionVars, rpcVars, wireVars, stopVars, activeVars

LEMMA Init_Types == Init => TypeOK
<1> SUFFICES ASSUME Init PROVE TypeOK
  OBVIOUS
<1>1. SessionTypes
  BY DEF Init, SessionTypes, HandlerPcs
<1>2. RpcTypes
  BY DEF Init, RpcTypes, CallStates, CallRecords, Pcs, FlightPcs
<1>3. WireTypes
  <2>1. <<>> \in Seq(Messages) /\ <<>> \in Seq(Sessions)
    OBVIOUS
  <2>2. QED
    BY <2>1 DEF Init, WireTypes
<1>4. StopTypes /\ ActiveTypes
  BY DEF Init, StopTypes, ActiveTypes, StopPcs
<1>5. WaiterTypes
  BY DEF Init, WaiterTypes, WaitStates, WaitPcs
<1>6. QED
  BY <1>1, <1>2, <1>3, <1>4, <1>5 DEF TypeOK

LEMMA Dispatch_Types ==
  ASSUME TypeOK, NEW c \in Calls, Dispatch(c) \/ CallSteps(c)
  PROVE  TypeOK'
<1> USE OutcomeTypes, FailureKinds
<1>0. call[c] \in CallStates /\ promise[c] \in Outcomes \cup {Unset}
  BY DEF TypeOK, RpcTypes
<1>1. CASE Dispatch(c)
  <2>1. PICK k \in Keys :
          IF running
            THEN call' = [call EXCEPT ![c] = [@ EXCEPT !.pc = "resolve", !.key = k]]
            ELSE call' = [call EXCEPT ![c] = [@ EXCEPT !.pc = "done", !.key = k,
                                               !.outcome = Error("not_running")]]
    BY <1>1 DEF Dispatch
  <2>2. /\ [call[c] EXCEPT !.pc = "resolve", !.key = k] \in CallStates
        /\ [call[c] EXCEPT !.pc = "done", !.key = k,
                           !.outcome = Error("not_running")] \in CallStates
    BY <1>0 DEF CallStates, CallRecords, Pcs, FlightPcs
  <2>3. RpcTypes'
    BY <1>1, <2>1, <2>2 DEF Dispatch, TypeOK, RpcTypes
  <2>4. QED
    BY <1>1, <2>3, Frame_Types DEF Dispatch, TypeOK
<1>2. CASE ResolveExplicit(c)
  <2>1. FindByIdOrLabel(call[c].key) \subseteq Sessions
    BY DEF FindByIdOrLabel, TypeOK, SessionTypes
  <2>2. \/ \E v \in Outcomes : Return(c, v)
        \/ \E s \in Sessions : Target(c, s)
    BY <1>2, <2>1 DEF ResolveExplicit
  <2>3. QED
    BY <1>2, <2>2, CallSteps_Types, Frame_Types DEF ResolveExplicit, TypeOK
<1>3. CASE ResolveActive(c)
  <2>1. \/ Goto(c, "only")
        \/ \E s \in Sessions : Target(c, s)
    BY <1>3 DEF ResolveActive, TypeOK, ActiveTypes
  <2>2. QED
    BY <1>3, <2>1, CallSteps_Types, Frame_Types
       DEF ResolveActive, TypeOK, Pcs, FlightPcs
<1>4. CASE ResolveOnly(c)
  <2>1. \/ \E v \in Outcomes : Return(c, v)
        \/ \E s \in Sessions : Target(c, s)
    BY <1>4 DEF ResolveOnly, TypeOK, SessionTypes
  <2>2. QED
    BY <1>4, <2>1, CallSteps_Types, Frame_Types DEF ResolveOnly, TypeOK
<1>5. CASE LookupSocket(c)
  <2>1. \/ Goto(c, "register")
        \/ \E v \in Outcomes : Return(c, v)
    BY <1>5 DEF LookupSocket
  <2>2. QED
    BY <1>5, <2>1, CallSteps_Types, Frame_Types DEF LookupSocket, TypeOK
<1>6. CASE RegisterPending(c)
  <2>1. [call[c] EXCEPT !.pc = "send", !.tx = txCounter] \in CallStates
    BY <1>0, <1>6 DEF CallStates, CallRecords, Pcs, FlightPcs, TypeOK,
                    RpcTypes, RegisterPending
  <2>2. QED
    BY <1>6, <2>1, Frame_Types
       DEF RegisterPending, TypeOK, RpcTypes, Entries, CallStates, CallRecords
<1>7. CASE SendCall(c)
  <2>1. RpcTypes'
    BY <1>7, CallSteps_Types DEF SendCall, TypeOK, FlightPcs
  <2>2. WireTypes'
    <3>1. [tx |-> call[c].tx, call |-> c] \in Messages
      BY <1>0, <1>7 DEF SendCall, CallStates, FlightPcs, Messages
    <3>2. \A s \in Sessions : Append(toEditor[s], [tx |-> call[c].tx, call |-> c])
                                \in Seq(Messages)
      BY <3>1 DEF TypeOK, WireTypes
    <3>3. QED
      BY <1>7, <3>2 DEF SendCall, TypeOK, WireTypes
  <2>3. QED
    BY <1>7, <2>1, <2>2, Frame_Types DEF SendCall, TypeOK, StopTypes
<1>8. CASE ReturnValue(c)
  <2>1. \E v \in Outcomes : Return(c, v)
    BY <1>0, <1>8 DEF ReturnValue
  <2>2. QED
    BY <1>8, <2>1, CallSteps_Types, Frame_Types DEF ReturnValue, TypeOK
<1>9. CASE Timeout(c)
  BY <1>9, CallSteps_Types, Frame_Types DEF Timeout, TypeOK, FlightPcs
<1>10. CASE ExpirePending(c)
  <2>1. [call[c] EXCEPT !.pc = "done", !.outcome = Error("timeout")] \in CallStates
    BY <1>0 DEF CallStates, CallRecords, Pcs, FlightPcs
  <2>2. QED
    BY <1>10, <2>1, Frame_Types 
       DEF ExpirePending, Return, TypeOK, RpcTypes
<1>11. QED
  BY <1>1, <1>2, <1>3, <1>4, <1>5, <1>6, <1>7, <1>8, <1>9, <1>10 DEF CallSteps

LEMMA Handler_Types ==
  ASSUME TypeOK, NEW s \in Sessions,
         Open(s) \/ HelloRegister(s) \/ HandlerSteps(s) \/ EditorRun(s) \/ Drop(s)
  PROVE  TypeOK'
<1> USE OutcomeTypes, FailureKinds, Frame_Types DEF TypeOK
<1>1. CASE Open(s)
  BY <1>1 DEF Open, SessionTypes, HandlerPcs, rpcVars
<1>2. CASE HelloRegister(s)
  BY <1>2 DEF HelloRegister, SessionTypes, HandlerPcs
<1>3. CASE HelloAnnounce(s)
  BY <1>3 DEF HelloAnnounce, SessionTypes, HandlerPcs
<1>4. CASE HelloNotify(s)
  BY <1>4, Notified_Types DEF HelloNotify, SessionTypes, HandlerPcs, WaiterTypes
<1>5. CASE HandleToolResult(s)
  <2>1. Head(toServer[s]) \in Messages /\ Tail(toServer[s]) \in Seq(Messages)
    BY <1>5 DEF HandleToolResult, WireTypes
  <2>2. RpcTypes'
    BY <1>5, <2>1, Resolve_Types DEF HandleToolResult, RpcTypes, Messages
  <2>3. WireTypes'
    BY <1>5, <2>1 DEF HandleToolResult, WireTypes
  <2>4. QED
    BY <1>5, <2>2, <2>3 DEF HandleToolResult
<1>6. CASE CloseErase(s)
  BY <1>6 DEF CloseErase, SessionTypes, HandlerPcs
<1>7. CASE CloseAnnounce(s)
  BY <1>7 DEF CloseAnnounce, SessionTypes, HandlerPcs
<1>8. CASE CloseFailPending(s)
  <2>1. RpcTypes'
    BY <1>8, Resolve_Types DEF CloseFailPending, RpcTypes
  <2>2. SessionTypes'
    BY <1>8 DEF CloseFailPending, SessionTypes, HandlerPcs
  <2>3. QED
    BY <1>8, <2>1, <2>2 DEF CloseFailPending
<1>9. CASE CloseNotify(s)
  BY <1>9, Notified_Types DEF CloseNotify, SessionTypes, HandlerPcs, WaiterTypes
<1>10. CASE EditorRun(s)
  <2>1. Head(toEditor[s]) \in Messages /\ Tail(toEditor[s]) \in Seq(Messages)
    BY <1>10 DEF EditorRun, WireTypes
  <2> DEFINE m == Head(toEditor[s])
  <2>2. \A t \in Sessions :
          [toServer EXCEPT ![t] = Append(@, m)] \in [Sessions -> Seq(Messages)]
    BY <2>1 DEF WireTypes
  <2>3. toServer' \in [Sessions -> Seq(Messages)]
    BY <1>10, <2>2 DEF EditorRun, WireTypes
  <2>4. toEditor' \in [Sessions -> Seq(Messages)]
    BY <1>10, <2>1 DEF EditorRun, WireTypes
  <2>5. ran' \in [Calls -> Seq(Sessions)]
    BY <1>10, <2>1 DEF EditorRun, WireTypes, Messages
  <2>6. WireTypes'
    BY <2>3, <2>4, <2>5 DEF WireTypes
  <2>7. QED
    BY <1>10, <2>6 DEF EditorRun
<1>11. CASE Drop(s)
  BY <1>11, Lose_Types DEF Drop, SessionTypes, WireTypes
<1>12. QED
  BY <1>1, <1>2, <1>3, <1>4, <1>5, <1>6, <1>7, <1>8, <1>9, <1>10, <1>11
     DEF HandlerSteps

LEMMA Other_Types ==
  ASSUME TypeOK,
         \/ \E w \in Waiters : WaitStart(w) \/ WaiterSteps(w) \/ WaitDeadline(w)
         \/ SetActiveFind \/ SetActiveStore \/ StopBegin \/ StopSteps
  PROVE  TypeOK'
<1> USE OutcomeTypes, FailureKinds, Frame_Types DEF TypeOK
<1>1. ASSUME NEW w \in Waiters, WaitStart(w)
      PROVE  TypeOK'
  <2>1. PICK n \in Names \cup {None} :
          waiter' = [waiter EXCEPT ![w] = [@ EXCEPT !.pc = "fast", !.slot = n]]
    BY <1>1 DEF WaitStart
  <2>2. [waiter[w] EXCEPT !.pc = "fast", !.slot = n] \in WaitStates
    BY DEF WaiterTypes, WaitStates, WaitPcs
  <2>3. WaiterTypes'
    BY <2>1, <2>2 DEF WaiterTypes
  <2>4. QED
    BY <1>1, <2>3 DEF WaitStart
<1>2. ASSUME NEW w \in Waiters, WaiterSteps(w) \/ WaitDeadline(w)
      PROVE  TypeOK'
  <2>1. Matching(w) \subseteq Sessions
    BY DEF Matching, SessionTypes
  <2>2. \/ \E pc \in WaitPcs : WGoto(w, pc)
        \/ \E s \in Sessions \cup {None} : Found(w, s)
    BY <1>2, <2>1 DEF WaiterSteps, WaitFastPath, WaitCheck, WaitPark,
                      WaitDeadline, WaitPcs
  <2>3. UNCHANGED <<sessionVars, rpcVars, wireVars, stopVars, activeVars>>
    BY <1>2 DEF WaiterSteps, WaitFastPath, WaitCheck, WaitPark, WaitDeadline
  <2>4. QED
    BY <2>2, <2>3, WaiterStep_Types
<1>3. CASE SetActiveFind
  BY <1>3 DEF SetActiveFind, ActiveTypes, SessionTypes
<1>4. CASE SetActiveStore
  BY <1>4 DEF SetActiveStore, ActiveTypes
<1>5. CASE StopBegin
  BY <1>5 DEF StopBegin, StopTypes, StopPcs
<1>6. CASE StopServer
  <2>1. conn' \in [Sessions -> {"new", "open", "dropped"}] /\ WireTypes'
    BY <1>6, Lose_Types DEF StopServer
  <2>2. QED
    BY <1>6, <2>1 DEF StopServer, SessionTypes, StopTypes, StopPcs
<1>7. CASE StopDrain
  <2>1. RpcTypes'
    BY <1>7, Resolve_Types DEF StopDrain, RpcTypes
  <2>2. QED
    BY <1>7, <2>1 DEF StopDrain, StopTypes, StopPcs
<1>8. CASE StopNotify
  BY <1>8, Notified_Types DEF StopNotify, StopTypes, StopPcs, WaiterTypes
<1>9. QED
  BY <1>1, <1>2, <1>3, <1>4, <1>5, <1>6, <1>7, <1>8 DEF StopSteps

LEMMA Next_Types == TypeOK /\ [Next]_vars => TypeOK'
<1> SUFFICES ASSUME TypeOK, [Next]_vars PROVE TypeOK'
  OBVIOUS
<1>1. CASE UNCHANGED vars
  BY <1>1, Frame_Types DEF vars, TypeOK
<1>2. CASE Next
  BY <1>2, Dispatch_Types, Handler_Types, Other_Types DEF Next
<1>3. QED
  BY <1>1, <1>2

(* The variables keep their types (bridge_server.h, PendingRpc and the     *)
(* members of BridgeServer).                                               *)
THEOREM TypeCorrect == Spec => []TypeOK
<1>1. Init => TypeOK
  BY Init_Types
<1>2. TypeOK /\ [Next]_vars => TypeOK'
  BY Next_Types
<1>3. QED
  BY <1>1, <1>2, PTL DEF Spec

-----------------------------------------------------------------------------
(* Pending calls: no call is orphaned and no entry leaks. Both need the    *)
(* fact that transaction ids identify calls, and each needs the other: an  *)
(* entry is removed exactly when its promise is set or its caller leaves.  *)
PendingInv == TxDiscipline /\ NoOrphanedCall /\ NoLeakedPending

(* What the elementary moves of a dispatching thread do to its record.     *)
LEMMA Moves ==
  ASSUME NEW c \in Calls, RpcTypes
  PROVE  /\ \A v : Return(c, v) =>
              /\ \A d \in Calls \ {c} : call'[d] = call[d]
              /\ call'[c].pc = "done" /\ call'[c].outcome = v
              /\ call'[c].key = call[c].key
              /\ call'[c].target = call[c].target /\ call'[c].tx = call[c].tx
         /\ \A pc : Goto(c, pc) =>
              /\ \A d \in Calls \ {c} : call'[d] = call[d]
              /\ call'[c].pc = pc /\ call'[c].outcome = call[c].outcome
              /\ call'[c].key = call[c].key
              /\ call'[c].target = call[c].target /\ call'[c].tx = call[c].tx
         /\ \A s : Target(c, s) =>
              /\ \A d \in Calls \ {c} : call'[d] = call[d]
              /\ call'[c].pc = "lookup" /\ call'[c].outcome = call[c].outcome
              /\ call'[c].key = call[c].key
              /\ call'[c].target = s /\ call'[c].tx = call[c].tx
<1>1. call \in [Calls -> CallRecords] /\ call[c] \in CallRecords
  BY DEF RpcTypes, CallStates
<1>2. ASSUME NEW v, Return(c, v)
      PROVE  /\ \A d \in Calls \ {c} : call'[d] = call[d]
             /\ call'[c].pc = "done" /\ call'[c].outcome = v
             /\ call'[c].key = call[c].key
             /\ call'[c].target = call[c].target /\ call'[c].tx = call[c].tx
  <2>1. /\ \A d \in Calls \ {c} : call'[d] = call[d]
        /\ call'[c] = [call[c] EXCEPT !.pc = "done", !.outcome = v]
    BY <1>1, <1>2 DEF Return
  <2>2. QED
    BY <1>1, <2>1 DEF CallRecords
<1>3. ASSUME NEW pc, Goto(c, pc)
      PROVE  /\ \A d \in Calls \ {c} : call'[d] = call[d]
             /\ call'[c].pc = pc /\ call'[c].outcome = call[c].outcome
             /\ call'[c].key = call[c].key
             /\ call'[c].target = call[c].target /\ call'[c].tx = call[c].tx
  <2>1. /\ \A d \in Calls \ {c} : call'[d] = call[d]
        /\ call'[c] = [call[c] EXCEPT !.pc = pc]
    BY <1>1, <1>3 DEF Goto
  <2>2. QED
    BY <1>1, <2>1 DEF CallRecords
<1>4. ASSUME NEW s, Target(c, s)
      PROVE  /\ \A d \in Calls \ {c} : call'[d] = call[d]
             /\ call'[c].pc = "lookup" /\ call'[c].outcome = call[c].outcome
             /\ call'[c].key = call[c].key
             /\ call'[c].target = s /\ call'[c].tx = call[c].tx
  <2>1. /\ \A d \in Calls \ {c} : call'[d] = call[d]
        /\ call'[c] = [call[c] EXCEPT !.pc = "lookup", !.target = s]
    BY <1>1, <1>4 DEF Target
  <2>2. QED
    BY <1>1, <2>1 DEF CallRecords
<1>5. QED
  BY <1>2, <1>3, <1>4

LEMMA Frame_Pending ==
  PendingInv /\ UNCHANGED rpcVars => PendingInv'
  BY DEF PendingInv, TxDiscipline, NoOrphanedCall, NoLeakedPending, InFlight,
         rpcVars

(* A step of one thread that neither sends nor leaves the waiting states.  *)
LEMMA LocalStep_Pending ==
  ASSUME NEW c \in Calls, RpcTypes, PendingInv,
         UNCHANGED <<pending, txCounter, promise>>,
         \A d \in Calls \ {c} : call'[d] = call[d],
         call'[c].tx = call[c].tx,
         \/ call[c].pc \in EarlyPcs /\ call'[c].pc \in EarlyPcs \cup {"done"}
         \/ /\ call[c].pc \in FlightPcs /\ call'[c].pc \in FlightPcs
            /\ call'[c].target = call[c].target
  PROVE  PendingInv'
<1> USE DEF PendingInv, EarlyPcs, FlightPcs, InFlight
<1>1. TxDiscipline'
  BY DEF TxDiscipline
<1>2. NoOrphanedCall'
  BY DEF NoOrphanedCall
<1>3. NoLeakedPending'
  BY DEF NoLeakedPending, RpcTypes, Entries
<1>4. QED
  BY <1>1, <1>2, <1>3

LEMMA Register_Pending ==
  ASSUME NEW c \in Calls, RpcTypes, PendingInv, RegisterPending(c)
  PROVE  PendingInv'
<1> USE DEF PendingInv, EarlyPcs, FlightPcs, InFlight
<1> DEFINE e == [tx |-> txCounter, session |-> call[c].target, call |-> c]
<1>1. /\ pending' = pending \cup {e} /\ txCounter' = txCounter + 1
      /\ promise' = promise /\ txCounter \in Nat
      /\ call[c].pc = "register" /\ call'[c].pc = "send"
      /\ call'[c].tx = txCounter /\ call'[c].target = call[c].target
      /\ \A d \in Calls \ {c} : call'[d] = call[d]
  BY DEF RegisterPending, RpcTypes, CallStates, CallRecords
<1>2. \A d \in Calls : call[d].tx \in Nat \cup {-1}
  BY DEF RpcTypes, CallStates, CallRecords
<1>3. TxDiscipline'
  BY <1>1, <1>2 DEF TxDiscipline
<1>4. NoOrphanedCall'
  <2>1. e \in pending' /\ e.call = c /\ e.tx = call'[c].tx
    BY <1>1
  <2>2. ASSUME NEW d \in Calls \ {c}, InFlight(d)', promise'[d] = Unset
        PROVE  \E p \in pending' : p.call = d /\ p.tx = call'[d].tx
    <3>1. \E p \in pending : p.call = d /\ p.tx = call[d].tx
      BY <1>1, <2>2 DEF NoOrphanedCall
    <3>2. QED
      BY <1>1, <3>1
  <2>3. QED
    BY <2>1, <2>2 DEF NoOrphanedCall
<1>5. NoLeakedPending'
  BY <1>1 DEF NoLeakedPending, RpcTypes, Entries, TxDiscipline
<1>6. QED
  BY <1>3, <1>4, <1>5

(* Setting the promises of some entries and erasing those entries.         *)
LEMMA Resolve_Pending ==
  ASSUME NEW P \in SUBSET pending, NEW v \in Outcomes, v # Unset,
         RpcTypes, PendingInv, Resolve(P, v), pending' = pending \ P,
         UNCHANGED <<txCounter, call>>
  PROVE  PendingInv'
<1> USE DEF PendingInv, InFlight
<1>1. \A c \in Calls : promise'[c] = IF promise[c] = Unset /\ \E p \in P : p.call = c
                                       THEN v ELSE promise[c]
  BY DEF Resolve
<1>2. \A p \in P : p.call \in Calls /\ InFlight(p.call)
  BY DEF NoLeakedPending, RpcTypes, Entries
<1>3. TxDiscipline'
  BY <1>1, <1>2 DEF TxDiscipline, EarlyPcs, FlightPcs
<1>4. NoOrphanedCall'
  <2> SUFFICES ASSUME NEW c \in Calls, InFlight(c)', promise'[c] = Unset
               PROVE  \E p \in pending' : p.call = c /\ p.tx = call'[c].tx
    BY DEF NoOrphanedCall
  <2>1. promise[c] = Unset /\ ~\E p \in P : p.call = c
    BY <1>1
  <2>2. \E p \in pending : p.call = c /\ p.tx = call[c].tx
    BY <2>1 DEF NoOrphanedCall
  <2>3. QED
    BY <2>1, <2>2
<1>5. \A p, q \in pending : p.call = q.call => p = q
  BY DEF NoLeakedPending, RpcTypes, Entries
<1>6. NoLeakedPending'
  BY <1>1, <1>5 DEF NoLeakedPending, RpcTypes, Entries
<1>7. QED
  BY <1>3, <1>4, <1>6

LEMMA Leave_Pending ==
  ASSUME NEW c \in Calls, RpcTypes, PendingInv,
         ReturnValue(c) \/ ExpirePending(c)
  PROVE  PendingInv'
<1> USE DEF PendingInv, InFlight, EarlyPcs, FlightPcs
<1>1. /\ UNCHANGED <<txCounter, promise>>
      /\ call[c].pc \in {"wait", "expire"} /\ call'[c].pc = "done"
      /\ call'[c].tx = call[c].tx /\ call'[c].target = call[c].target
      /\ \A d \in Calls \ {c} : call'[d] = call[d]
  BY Moves DEF ReturnValue, ExpirePending
<1>2. \A d \in Calls : InFlight(d) => call[d].tx \in Nat
  BY DEF RpcTypes, CallStates
<1>3. TxDiscipline'
  BY <1>1 DEF TxDiscipline
<1>4. CASE ReturnValue(c)
  <2>1. pending' = pending /\ promise[c] # Unset
    BY <1>4 DEF ReturnValue
  <2>2. \A p \in pending : p.call \in Calls \ {c}
    BY <2>1 DEF NoLeakedPending, RpcTypes, Entries
  <2>3. NoOrphanedCall'
    BY <1>1, <2>1 DEF NoOrphanedCall
  <2>4. NoLeakedPending'
    BY <1>1, <2>1, <2>2 DEF NoLeakedPending
  <2>5. QED
    BY <1>3, <2>3, <2>4
<1>5. CASE ExpirePending(c)
  <2>1. pending' = {p \in pending : p.tx # call[c].tx}
    BY <1>5 DEF ExpirePending
  <2>2. \A d \in Calls \ {c} : InFlight(d) => call[d].tx # call[c].tx
    BY <1>1, <1>2 DEF TxDiscipline
  <2>3. NoOrphanedCall'
    BY <1>1, <2>1, <2>2 DEF NoOrphanedCall
  <2>4. \A p \in pending' : p.call \in Calls \ {c}
    BY <2>1 DEF NoLeakedPending, RpcTypes, Entries
  <2>5. NoLeakedPending'
    BY <1>1, <2>1, <2>4 DEF NoLeakedPending
  <2>6. QED
    BY <1>3, <2>3, <2>5
<1>6. QED
  BY <1>4, <1>5

LEMMA Init_Pending == Init => PendingInv
  BY DEF Init, PendingInv, TxDiscipline, NoOrphanedCall, NoLeakedPending,
         InFlight, FlightPcs

LEMMA Call_Pending ==
  ASSUME TypeOK, PendingInv, NEW c \in Calls, Dispatch(c) \/ CallSteps(c)
  PROVE  PendingInv'
<1>0. RpcTypes /\ call[c] \in CallRecords
  BY DEF TypeOK, RpcTypes, CallStates
<1>1. CASE Dispatch(c) \/ ResolveExplicit(c) \/ ResolveActive(c)
             \/ ResolveOnly(c) \/ LookupSocket(c)
  <2>1. /\ UNCHANGED <<pending, txCounter, promise>>
        /\ call[c].pc \in EarlyPcs
    BY <1>1 DEF Dispatch, ResolveExplicit, ResolveActive, ResolveOnly,
                LookupSocket, EarlyPcs
  <2>2. /\ \A d \in Calls \ {c} : call'[d] = call[d]
        /\ call'[c].tx = call[c].tx
        /\ call'[c].pc \in EarlyPcs \cup {"done"}
    <3>1. CASE Dispatch(c)
      <4>1. PICK k \in Keys :
              call' = IF running
                THEN [call EXCEPT ![c] = [@ EXCEPT !.pc = "resolve", !.key = k]]
                ELSE [call EXCEPT ![c] = [@ EXCEPT !.pc = "done", !.key = k,
                                            !.outcome = Error("not_running")]]
        BY <3>1 DEF Dispatch
      <4>2. \A d \in Calls \ {c} : call'[d] = call[d]
        BY <1>0, <4>1 DEF RpcTypes
      <4>3. call'[c] = IF running
              THEN [call[c] EXCEPT !.pc = "resolve", !.key = k]
              ELSE [call[c] EXCEPT !.pc = "done", !.key = k,
                                   !.outcome = Error("not_running")]
        BY <1>0, <4>1 DEF RpcTypes
      <4>4. QED
        BY <1>0, <4>2, <4>3 DEF CallRecords, EarlyPcs
    <3>2. CASE ResolveExplicit(c) \/ ResolveActive(c) \/ ResolveOnly(c)
                 \/ LookupSocket(c)
      BY <1>0, <3>2, Moves DEF ResolveExplicit, ResolveActive, ResolveOnly,
         LookupSocket, EarlyPcs
    <3>3. QED
      BY <1>1, <3>1, <3>2
  <2>3. QED
    BY <1>0, <2>1, <2>2, LocalStep_Pending
<1>2. CASE RegisterPending(c)
  BY <1>0, <1>2, Register_Pending
<1>3. CASE SendCall(c) \/ Timeout(c)
  <2>1. /\ UNCHANGED <<pending, txCounter, promise>>
        /\ call[c].pc \in FlightPcs /\ call'[c].pc \in FlightPcs
        /\ call'[c].target = call[c].target /\ call'[c].tx = call[c].tx
        /\ \A d \in Calls \ {c} : call'[d] = call[d]
    <3>1. PICK pc \in {"wait", "expire"} : Goto(c, pc)
      BY <1>3 DEF SendCall, Timeout
    <3>2. UNCHANGED <<pending, txCounter, promise>> /\ call[c].pc \in FlightPcs
      BY <1>3 DEF SendCall, Timeout, FlightPcs
    <3>3. /\ call'[c].pc \in FlightPcs
          /\ call'[c].target = call[c].target /\ call'[c].tx = call[c].tx
          /\ \A d \in Calls \ {c} : call'[d] = call[d]
      BY <1>0, <3>1, Moves DEF FlightPcs
    <3>4. QED
      BY <3>2, <3>3
  <2>2. QED
    BY <1>0, <2>1, LocalStep_Pending
<1>4. CASE ReturnValue(c) \/ ExpirePending(c)
  BY <1>0, <1>4, Leave_Pending
<1>5. QED
  BY <1>1, <1>2, <1>3, <1>4 DEF CallSteps

LEMMA Next_Pending == TypeOK /\ PendingInv /\ [Next]_vars => PendingInv'
<1> SUFFICES ASSUME TypeOK, PendingInv, [Next]_vars PROVE PendingInv'
  OBVIOUS
<1> USE OutcomeTypes, FailureKinds
<1>0. RpcTypes
  BY DEF TypeOK
<1>1. ASSUME NEW c \in Calls, Dispatch(c) \/ CallSteps(c)
      PROVE  PendingInv'
  BY <1>1, Call_Pending
<1>2. ASSUME NEW s \in Sessions, HandleToolResult(s)
      PROVE  PendingInv'
  <2>1. Head(toServer[s]) \in Messages
    BY <1>2 DEF HandleToolResult, TypeOK, WireTypes
  <2>2. Result(Head(toServer[s]).call) \in Outcomes \ {Unset}
    BY <2>1 DEF Messages
  <2>3. QED
    BY <1>0, <1>2, <2>2, Resolve_Pending DEF HandleToolResult
<1>3. ASSUME NEW s \in Sessions, CloseFailPending(s)
      PROVE  PendingInv'
  BY <1>0, <1>3, Resolve_Pending DEF CloseFailPending
<1>4. CASE StopDrain
  BY <1>0, <1>4, Resolve_Pending DEF StopDrain
<1>5. ASSUME NEW s \in Sessions,
             \/ Open(s) \/ HelloRegister(s) \/ HelloAnnounce(s) \/ HelloNotify(s)
             \/ CloseErase(s) \/ CloseAnnounce(s) \/ CloseNotify(s)
             \/ EditorRun(s) \/ Drop(s)
      PROVE  PendingInv'
  BY <1>5, Frame_Pending DEF Open, HelloRegister, HelloAnnounce, HelloNotify,
     CloseErase, CloseAnnounce, CloseNotify, EditorRun, Drop
<1>6. ASSUME NEW w \in Waiters, WaitStart(w) \/ WaiterSteps(w) \/ WaitDeadline(w)
      PROVE  PendingInv'
  BY <1>6, Frame_Pending DEF WaitStart, WaiterSteps, WaitFastPath, WaitCheck,
     WaitPark, WaitDeadline
<1>7. CASE SetActiveFind \/ SetActiveStore \/ StopBegin \/ StopServer \/ StopNotify
  BY <1>7, Frame_Pending DEF SetActiveFind, SetActiveStore, StopBegin,
     StopServer, StopNotify
<1>8. CASE UNCHANGED vars
  BY <1>8, Frame_Pending DEF vars
<1>9. QED
  BY <1>1, <1>2, <1>3, <1>4, <1>5, <1>6, <1>7, <1>8
     DEF Next, HandlerSteps, StopSteps

LEMMA PendingInvariant == Spec => []PendingInv
<1>1. Init => PendingInv
  BY Init_Pending
<1>2. TypeOK /\ PendingInv /\ [Next]_vars => PendingInv'
  BY Next_Pending
<1>3. QED
  BY <1>1, <1>2, TypeCorrect, PTL DEF Spec

(* Whatever editors, connections, timeouts and stop() do, a dispatched     *)
(* call whose promise is unset can still be reached through pending_.      *)
THEOREM CallsStayReachable == Spec => []NoOrphanedCall
<1>1. PendingInv => NoOrphanedCall
  BY DEF PendingInv
<1>2. QED
  BY <1>1, PendingInvariant, PTL

(* pending_ holds nothing but calls that still wait for their promise.     *)
THEOREM PendingDoesNotLeak == Spec => []NoLeakedPending
<1>1. PendingInv => NoLeakedPending
  BY DEF PendingInv
<1>2. QED
  BY <1>1, PendingInvariant, PTL
=============================================================================
