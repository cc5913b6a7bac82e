-------------------------- MODULE BridgeCalls_proofs --------------------------
(***************************************************************************)
(* Proofs about what a caller of the bridge is told: each call runs at     *)
(* most once and gets its own result, notifications come in order, and the *)
(* bridge implements ToolCall. For any number of calls, sessions, names    *)
(* and waiters.                                                            *)
(***************************************************************************)
EXTENDS BridgeServer_proofs

(* A session that has said hello has a name for good, and the state of its *)
(* handler tells whether it is registered and what has been announced.     *)
SessionsKept(s) ==
  /\ conn[s] = "new" => handler[s] = "none"
  /\ s \in sessions <=> handler[s] \in {"announce", "notify", "ready"}
  /\ handler[s] \in {"none", "fresh"} => name[s] = None
  /\ handler[s] \in {"announce", "notify", "ready", "goodbye"} => name[s] # None

AnnouncedInTime(s) ==
  /\ name[s] # None /\ handler[s] # "announce" => <<"connected", s>> \in announced
  /\ name[s] # None /\ handler[s] \in {"failing", "leaving", "closed"}
       => <<"disconnected", s>> \in announced

Greeted(s) == s # None => name[s] # None

SessionInv ==
  /\ \A s \in Sessions : SessionsKept(s) /\ AnnouncedInTime(s)
  /\ Greeted(active) /\ Greeted(setting)
  /\ \A w \in Waiters : Greeted(waiter[w].found)

RoutedByKey(c) ==
  /\ Greeted(call[c].target)
  /\ call[c].target # None => call[c].key \in {None, call[c].target, name[call[c].target]}
  /\ call[c].pc \in {"idle", "resolve", "only"} => call[c].target = None
  /\ call[c].pc = "only" => call[c].key = None

RouteInv == \A c \in Calls : RoutedByKey(c)

(* An envelope is on its way once, under the tx id and to the session of   *)
(* its call, and the tool has run only where the call was sent.            *)
Underway(s, m) ==
  /\ call[m.call].tx = m.tx /\ call[m.call].pc # "send"
  /\ call[m.call].target = s /\ ran[m.call] = <<>>

Answered(m) == call[m.call].tx = m.tx /\ ran[m.call] = <<call[m.call].target>>

AllUnderway ==
  \A s \in Sessions : \A i \in 1..Len(toEditor[s]) : Underway(s, toEditor[s][i])

SentOnce ==
  \A s \in Sessions : \A i, j \in 1..Len(toEditor[s]) :
    toEditor[s][i].call = toEditor[s][j].call => i = j

AllAnswered ==
  \A s \in Sessions : \A i \in 1..Len(toServer[s]) : Answered(toServer[s][i])

RanAtTarget(c) ==
  /\ ran[c] \in {<<>>, <<call[c].target>>}
  /\ call[c].tx = -1 \/ call[c].pc = "send" => ran[c] = <<>>

WireInv ==
  AllUnderway /\ SentOnce /\ AllAnswered /\ \A c \in Calls : RanAtTarget(c)

PromiseKept(c) ==
  /\ promise[c] \in {Unset, Result(c), Error("disconnected"), Error("stopped")}
  /\ promise[c] = Result(c) => ran[c] = <<call[c].target>>
  /\ promise[c] = Error("disconnected")
       => <<"disconnected", call[c].target>> \in announced

ToldTruly(c) ==
  /\ call[c].pc # "done" => call[c].outcome = Unset
  /\ call[c].outcome.kind = "result"
       => call[c].outcome = Result(c) /\ ran[c] = <<call[c].target>>
  /\ call[c].outcome.kind \in Rejections => call[c].tx = -1

AnswerInv == \A c \in Calls : PromiseKept(c) /\ ToldTruly(c)

(* A waiter that has looked has found nothing, and whatever registered     *)
(* since is about to signal.                                               *)
WillBeWoken(w) ==
  /\ waiter[w].pc = "parking" => Matching(w) = {}
  /\ waiter[w].pc = "parked" =>
       \A s \in Matching(w) : handler[s] \in {"announce", "notify"}

WakerInv == \A w \in Waiters : WillBeWoken(w)
-----------------------------------------------------------------------------
(* What the bridge knows of each session.                                  *)

LEMMA Init_Session == Init => SessionInv
  BY DEF Init, SessionInv, SessionsKept, AnnouncedInTime, Greeted

(* Names are never taken back, so whoever remembers a session that said    *)
(* hello still does.                                                       *)
LEMMA Greeted_Kept ==
  ASSUME SessionInv, \A s \in Sessions : name[s] # None => name'[s] # None,
         SessionTypes, ActiveTypes, WaiterTypes,
         \/ UNCHANGED activeVars
         \/ setting' \in sessions /\ active' = active
         \/ setting' = None /\ active' = setting,
         \A w \in Waiters : waiter'[w].found \in sessions \cup {None, waiter[w].found}
  PROVE  /\ Greeted(active)' /\ Greeted(setting)'
         /\ \A w \in Waiters : Greeted(waiter[w].found)'
<1>1. \A s \in sessions : name[s] # None
  BY DEF SessionInv, SessionsKept, SessionTypes
<1>2. \A w \in Waiters : waiter[w].found \in Sessions \cup {None}
  BY DEF WaiterTypes, WaitStates
<1>3. Greeted(active)' /\ Greeted(setting)'
  BY <1>1 DEF Greeted, SessionInv, activeVars, ActiveTypes, SessionTypes
<1>4. ASSUME NEW w \in Waiters
      PROVE  Greeted(waiter[w].found)'
  BY <1>1, <1>2 DEF Greeted, SessionInv, SessionTypes
<1>5. QED
  BY <1>3, <1>4

LEMMA Notified_Found ==
  ASSUME WaiterTypes, waiter' = Notified
  PROVE  \A w \in Waiters : /\ waiter'[w].found = waiter[w].found
                            /\ waiter'[w].slot = waiter[w].slot
                            /\ waiter'[w].pc = IF waiter[w].pc = "parked"
                                                 THEN "check" ELSE waiter[w].pc
<1>1. \A w \in Waiters : waiter[w] \in WaitStates
  BY DEF WaiterTypes
<1>2. QED
  BY <1>1 DEF Notified, WaitStates

(* What the elementary moves of a waiting thread do to its record.         *)
LEMMA WaiterMoves ==
  ASSUME NEW w \in Waiters, WaiterTypes
  PROVE  /\ \A pc : WGoto(w, pc) =>
              /\ \A v \in Waiters \ {w} : waiter'[v] = waiter[v]
              /\ waiter'[w].pc = pc /\ waiter'[w].slot = waiter[w].slot
              /\ waiter'[w].found = waiter[w].found
         /\ \A s : Found(w, s) =>
              /\ \A v \in Waiters \ {w} : waiter'[v] = waiter[v]
              /\ waiter'[w].pc = "done" /\ waiter'[w].slot = waiter[w].slot
              /\ waiter'[w].found = s
<1>1. waiter \in [Waiters -> WaitStates] /\ waiter[w] \in WaitStates
  BY DEF WaiterTypes
<1>2. ASSUME NEW pc, WGoto(w, pc)
      PROVE  /\ \A v \in Waiters \ {w} : waiter'[v] = waiter[v]
             /\ waiter'[w].pc = pc /\ waiter'[w].slot = waiter[w].slot
             /\ waiter'[w].found = waiter[w].found
  <2>1. /\ \A v \in Waiters \ {w} : waiter'[v] = waiter[v]
        /\ waiter'[w] = [waiter[w] EXCEPT !.pc = pc]
    BY <1>1, <1>2 DEF WGoto
  <2>2. QED
    BY <1>1, <2>1 DEF WaitStates
<1>3. ASSUME NEW s, Found(w, s)
      PROVE  /\ \A v \in Waiters \ {w} : waiter'[v] = waiter[v]
             /\ waiter'[w].pc = "done" /\ waiter'[w].slot = waiter[w].slot
             /\ waiter'[w].found = s
  <2>1. /\ \A v \in Waiters \ {w} : waiter'[v] = waiter[v]
        /\ waiter'[w] = [waiter[w] EXCEPT !.pc = "done", !.found = s]
    BY <1>1, <1>3 DEF Found
  <2>2. QED
    BY <1>1, <2>1 DEF WaitStates
<1>4. QED
  BY <1>2, <1>3

LEMMA Waiting_Session ==
  ASSUME TypeOK, SessionInv, NEW w \in Waiters,
         WaitStart(w) \/ WaiterSteps(w) \/ WaitDeadline(w)
  PROVE  SessionInv'
<1>1. UNCHANGED <<sessionVars, activeVars>>
  BY DEF WaitStart, WaiterSteps, WaitFastPath, WaitCheck, WaitPark, WaitDeadline
<1>2. \A v \in Waiters : waiter'[v].found \in sessions \cup {None, waiter[v].found}
  <2>1. CASE WaitStart(w)
    <3>1. waiter \in [Waiters -> WaitStates] /\ waiter[w] \in WaitStates
      BY DEF TypeOK, WaiterTypes
    <3>2. PICK n \in Names \cup {None} :
            waiter' = [waiter EXCEPT ![w] = [@ EXCEPT !.pc = "fast", !.slot = n]]
      BY <2>1 DEF WaitStart
    <3>3. /\ \A v \in Waiters \ {w} : waiter'[v] = waiter[v]
          /\ waiter'[w] = [waiter[w] EXCEPT !.pc = "fast", !.slot = n]
      BY <3>1, <3>2
    <3>4. waiter'[w].found = waiter[w].found
      BY <3>1, <3>3 DEF WaitStates
    <3>5. QED
      BY <3>3, <3>4
  <2>2. CASE WaiterSteps(w) \/ WaitDeadline(w)
    <3>1. \/ \E pc \in WaitPcs : WGoto(w, pc)
          \/ \E s \in sessions \cup {None} : Found(w, s)
      BY <2>2 DEF WaiterSteps, WaitFastPath, WaitCheck, WaitPark, WaitDeadline,
                  WaitPcs, Matching
    <3>2. QED
      BY <3>1, WaiterMoves DEF TypeOK
  <2>3. QED
    BY <2>1, <2>2
<1>3. \A s \in Sessions : (SessionsKept(s) /\ AnnouncedInTime(s))'
  BY <1>1 DEF SessionInv, SessionsKept, AnnouncedInTime, sessionVars
<1>4. \A s \in Sessions : name[s] # None => name'[s] # None
  BY <1>1 DEF sessionVars
<1>5. QED
  BY <1>1, <1>2, <1>3, <1>4, Greeted_Kept DEF TypeOK, SessionInv

LEMMA Connection_Session ==
  ASSUME TypeOK, SessionInv, NEW s \in Sessions,
         Open(s) \/ HelloRegister(s) \/ HandlerSteps(s) \/ EditorRun(s) \/ Drop(s)
  PROVE  SessionInv'
<1> USE DEF SessionTypes
<1>0. SessionTypes /\ WaiterTypes /\ ActiveTypes
  BY DEF TypeOK
<1>1. \A t \in Sessions : SessionsKept(t) /\ AnnouncedInTime(t)
  BY DEF SessionInv
<1>2. UNCHANGED activeVars
  BY DEF Open, HelloRegister, HandlerSteps, HelloAnnounce, HelloNotify,
     HandleToolResult, CloseErase, CloseAnnounce, CloseFailPending, CloseNotify,
     EditorRun, Drop
<1>3. \A w \in Waiters : waiter'[w].found = waiter[w].found
  BY <1>0, Notified_Found
     DEF Open, HelloRegister, HandlerSteps, HelloAnnounce, HelloNotify,
     HandleToolResult, CloseErase, CloseAnnounce, CloseFailPending, CloseNotify,
     EditorRun, Drop
<1>4. ASSUME NEW t \in Sessions, name[t] # None
      PROVE  name'[t] # None
  <2>1. CASE HelloRegister(s)
    BY <1>0, <2>1, <1>4, ConstantsAssumption DEF HelloRegister
  <2>2. CASE ~HelloRegister(s)
    BY <2>2, <1>4 DEF Open, HandlerSteps, HelloAnnounce, HelloNotify,
     HandleToolResult, CloseErase, CloseAnnounce, CloseFailPending, CloseNotify,
     EditorRun, Drop, sessionVars
  <2>3. QED
    BY <2>1, <2>2
<1>5. ASSUME NEW t \in Sessions
      PROVE  (SessionsKept(t) /\ AnnouncedInTime(t))'
  <2> USE DEF SessionsKept, AnnouncedInTime
  <2>0. SessionsKept(t) /\ AnnouncedInTime(t)
    BY <1>1
  <2>1. CASE Open(s)
    BY <1>0, <1>1, <2>0, <2>1 DEF Open
  <2>2. CASE HelloRegister(s)
    BY <1>0, <2>0, <2>2, ConstantsAssumption DEF HelloRegister
  <2>3. CASE HelloAnnounce(s)
    BY <1>0, <2>0, <2>3 DEF HelloAnnounce
  <2>4. CASE HelloNotify(s)
    BY <1>0, <2>0, <2>4 DEF HelloNotify
  <2>5. CASE HandleToolResult(s)
    BY <2>0, <2>5 DEF HandleToolResult, sessionVars
  <2>6. CASE CloseErase(s)
    BY <1>0, <2>0, <2>6 DEF CloseErase
  <2>7. CASE CloseAnnounce(s)
    BY <1>0, <2>0, <2>7 DEF CloseAnnounce
  <2>8. CASE CloseFailPending(s)
    BY <1>0, <2>0, <2>8 DEF CloseFailPending
  <2>9. CASE CloseNotify(s)
    BY <1>0, <2>0, <2>9 DEF CloseNotify
  <2>10. CASE EditorRun(s)
    BY <2>0, <2>10 DEF EditorRun, sessionVars
  <2>11. CASE Drop(s)
    BY <1>0, <2>0, <2>11 DEF Drop, Lose
  <2>12. QED
    BY <2>1, <2>2, <2>3, <2>4, <2>5, <2>6, <2>7, <2>8, <2>9, <2>10, <2>11
       DEF HandlerSteps
<1>6. QED
  BY <1>0, <1>2, <1>3, <1>4, <1>5, Greeted_Kept DEF SessionInv

LEMMA Next_Session == TypeOK /\ SessionInv /\ [Next]_vars => SessionInv'
<1> SUFFICES ASSUME TypeOK, SessionInv, [Next]_vars PROVE SessionInv'
  OBVIOUS
<1>1. SessionTypes /\ WaiterTypes /\ ActiveTypes
  BY DEF TypeOK
<1>2. CASE UNCHANGED <<sessionVars, activeVars, waiter>>
  BY <1>2 DEF SessionInv, SessionsKept, AnnouncedInTime, Greeted, sessionVars,
     activeVars
<1>3. ASSUME NEW c \in Calls, Dispatch(c) \/ CallSteps(c)
      PROVE  SessionInv'
  BY <1>2, <1>3 DEF Dispatch, CallSteps, ResolveExplicit, ResolveActive,
     ResolveOnly, LookupSocket, RegisterPending, SendCall, ReturnValue, Timeout,
     ExpirePending
<1>4. ASSUME UNCHANGED <<handler, name, sessions, announced>>,
             \A s \in Sessions : conn'[s] = "new" => conn[s] = "new"
      PROVE  \A s \in Sessions : (SessionsKept(s) /\ AnnouncedInTime(s))'
  BY <1>4 DEF SessionInv, SessionsKept, AnnouncedInTime
<1>5. CASE SetActiveFind \/ SetActiveStore \/ StopBegin \/ StopDrain \/ StopNotify
  <2>1. UNCHANGED sessionVars
    BY <1>5 DEF SetActiveFind, SetActiveStore, StopBegin, StopDrain, StopNotify
  <2>2. \A w \in Waiters : waiter'[w].found = waiter[w].found
    BY <1>1, <1>5, Notified_Found
       DEF SetActiveFind, SetActiveStore, StopBegin, StopDrain, StopNotify
  <2>3. \/ UNCHANGED activeVars
        \/ setting' \in sessions /\ active' = active
        \/ setting' = None /\ active' = setting
    BY <1>5 DEF SetActiveFind, SetActiveStore, StopBegin, StopDrain, StopNotify
  <2>4. QED
    BY <1>1, <1>4, <2>1, <2>2, <2>3, Greeted_Kept DEF SessionInv, sessionVars
<1>6. CASE StopServer
  <2>1. UNCHANGED <<handler, name, sessions, announced, activeVars, waiter>>
    BY <1>6 DEF StopServer
  <2>2. \A s \in Sessions : conn'[s] = "new" => conn[s] = "new"
    BY <1>6 DEF StopServer, Lose
  <2>3. QED
    BY <1>1, <1>4, <2>1, <2>2, Greeted_Kept DEF SessionInv
<1>7. QED
  BY <1>2, <1>3, <1>5, <1>6, Waiting_Session, Connection_Session
     DEF Next, StopSteps, vars

LEMMA SessionInvariant == Spec => []SessionInv
<1>1. Init => SessionInv
  BY Init_Session
<1>2. TypeOK /\ SessionInv /\ [Next]_vars => SessionInv'
  BY Next_Session
<1>3. QED
  BY <1>1, <1>2, TypeCorrect, PTL DEF Spec

(* wait_for_editor names only editors whose connected notification is out  *)
(* or about to be published (handleHello inserts, then calls back).        *)
THEOREM FoundEditorsAreAnnounced == Spec => []FoundIsAnnounced
<1>1. TypeOK /\ SessionInv => FoundIsAnnounced
  <2>1. ASSUME TypeOK, NEW w \in Waiters
        PROVE  waiter[w].found \in Sessions \cup {None}
    BY <2>1 DEF TypeOK, WaiterTypes, WaitStates
  <2>2. QED
    BY <2>1 DEF SessionInv, FoundIsAnnounced, Greeted, AnnouncedInTime
<1>2. QED
  BY <1>1, TypeCorrect, SessionInvariant, PTL
-----------------------------------------------------------------------------
(* Waiters: the mutex is held from the evaluation of the predicate to the  *)
(* wait, so no session can register in between.                            *)

LEMMA Waiting_Waker ==
  ASSUME TypeOK, WakerInv, NEW w \in Waiters,
         WaitStart(w) \/ WaiterSteps(w) \/ WaitDeadline(w)
  PROVE  WakerInv'
<1> USE DEF WillBeWoken
<1>0. waiter \in [Waiters -> WaitStates] /\ waiter[w] \in WaitStates
  BY DEF TypeOK, WaiterTypes
<1>1. UNCHANGED <<handler, name, sessions>>
  BY DEF WaitStart, WaiterSteps, WaitFastPath, WaitCheck, WaitPark, WaitDeadline,
     sessionVars
<1>2. \A v \in Waiters \ {w} : waiter'[v] = waiter[v]
  BY <1>0, WaiterMoves DEF WaitStart, WaiterSteps, WaitFastPath, WaitCheck,
     WaitPark, WaitDeadline, TypeOK
<1>3. \A v \in Waiters \ {w} : WillBeWoken(v)'
  BY <1>1, <1>2 DEF WakerInv, Matching
<1>4. WillBeWoken(w)'
  <2>1. CASE waiter'[w].pc \notin {"parking", "parked"}
    BY <2>1
  <2>2. CASE WaitStart(w)
    <3>1. PICK n \in Names \cup {None} :
            waiter' = [waiter EXCEPT ![w] = [@ EXCEPT !.pc = "fast", !.slot = n]]
      BY <2>2 DEF WaitStart
    <3>2. waiter'[w] = [waiter[w] EXCEPT !.pc = "fast", !.slot = n]
      BY <1>0, <3>1
    <3>3. waiter'[w].pc = "fast"
      BY <1>0, <3>2 DEF WaitStates
    <3>4. QED
      BY <2>1, <3>3
  <2>3. CASE WaitFastPath(w) \/ WaitDeadline(w)
    BY <2>1, <2>3, WaiterMoves DEF WaitFastPath, WaitDeadline, TypeOK
  <2>4. CASE WaitCheck(w)
    <3>1. CASE Matching(w) = {} /\ WGoto(w, "parking")
      <4>1. waiter'[w].pc = "parking" /\ waiter'[w].slot = waiter[w].slot
        BY <3>1, WaiterMoves DEF TypeOK
      <4>2. Matching(w)' = {}
        BY <1>1, <3>1, <4>1 DEF Matching
      <4>3. QED
        BY <4>1, <4>2
    <3>2. CASE \E s : Found(w, s)
      BY <2>1, <3>2, WaiterMoves DEF TypeOK
    <3>3. QED
      BY <2>4, <3>1, <3>2 DEF WaitCheck
  <2>5. CASE WaitPark(w)
    <3>1. waiter[w].pc = "parking" /\ WGoto(w, "parked")
      BY <2>5 DEF WaitPark
    <3>2. waiter'[w].pc = "parked" /\ waiter'[w].slot = waiter[w].slot
      BY <3>1, WaiterMoves DEF TypeOK
    <3>3. Matching(w)' = {}
      BY <1>1, <3>1, <3>2 DEF WakerInv, Matching
    <3>4. QED
      BY <3>2, <3>3
  <2>6. QED
    BY <2>2, <2>3, <2>4, <2>5 DEF WaiterSteps
<1>5. QED
  BY <1>3, <1>4 DEF WakerInv

(* notify_all leaves nobody parked.                                        *)
LEMMA Notified_Waker ==
  ASSUME TypeOK, WakerInv, waiter' = Notified, UNCHANGED <<name, sessions>>
  PROVE  WakerInv'
<1>1. \A w \in Waiters : /\ waiter'[w].slot = waiter[w].slot
                         /\ waiter'[w].pc = IF waiter[w].pc = "parked"
                                              THEN "check" ELSE waiter[w].pc
  BY Notified_Found DEF TypeOK
<1>2. QED
  BY <1>1 DEF WakerInv, WillBeWoken, Matching

LEMMA Connection_Waker ==
  ASSUME TypeOK, SessionInv, WakerInv, NEW s \in Sessions,
         Open(s) \/ HelloRegister(s) \/ HandlerSteps(s) \/ EditorRun(s) \/ Drop(s)
  PROVE  WakerInv'
<1> USE DEF WillBeWoken, WakerInv, Matching, TypeOK, SessionTypes
<1>1. CASE Open(s)
  <2>1. s \notin sessions
    BY <1>1 DEF Open, SessionInv, SessionsKept
  <2>2. QED
    BY <1>1, <2>1 DEF Open
<1>2. CASE HelloRegister(s)
  BY <1>2 DEF HelloRegister, MuFree
<1>3. CASE HelloAnnounce(s)
  BY <1>3 DEF HelloAnnounce
<1>4. CASE HelloNotify(s) \/ CloseNotify(s)
  BY <1>4, Notified_Waker DEF HelloNotify, CloseNotify
<1>5. CASE CloseErase(s)
  BY <1>5 DEF CloseErase
<1>6. CASE CloseAnnounce(s)
  BY <1>6 DEF CloseAnnounce
<1>7. CASE CloseFailPending(s)
  BY <1>7 DEF CloseFailPending
<1>8. CASE HandleToolResult(s) \/ EditorRun(s) \/ Drop(s)
  BY <1>8 DEF HandleToolResult, EditorRun, Drop, sessionVars
<1>9. QED
  BY <1>1, <1>2, <1>3, <1>4, <1>5, <1>6, <1>7, <1>8 DEF HandlerSteps

LEMMA Next_Waker == TypeOK /\ SessionInv /\ WakerInv /\ [Next]_vars => WakerInv'
<1> SUFFICES ASSUME TypeOK, SessionInv, WakerInv, [Next]_vars PROVE WakerInv'
  OBVIOUS
<1>1. CASE UNCHANGED <<handler, name, sessions, waiter>>
  BY <1>1 DEF WakerInv, WillBeWoken, Matching
<1>2. ASSUME NEW c \in Calls, Dispatch(c) \/ CallSteps(c)
      PROVE  WakerInv'
  BY <1>1, <1>2 DEF Dispatch, CallSteps, ResolveExplicit, ResolveActive,
     ResolveOnly, LookupSocket, RegisterPending, SendCall, ReturnValue, Timeout,
     ExpirePending, sessionVars
<1>3. CASE SetActiveFind \/ SetActiveStore \/ StopBegin \/ StopServer \/ StopDrain
  BY <1>1, <1>3 DEF SetActiveFind, SetActiveStore, StopBegin, StopServer,
     StopDrain, sessionVars
<1>4. CASE StopNotify
  BY <1>4, Notified_Waker DEF StopNotify, sessionVars
<1>5. QED
  BY <1>1, <1>2, <1>3, <1>4, Waiting_Waker, Connection_Waker
     DEF Next, StopSteps, vars, sessionVars

(* A waiter that sleeps although a matching editor is registered has a     *)
(* signal coming (the order insert, callback, notify_all in handleHello).  *)
THEOREM ParkedWaitersAreWoken == Spec => []ParkedHasWaker
<1>1. Init => WakerInv
  BY DEF Init, WakerInv, WillBeWoken
<1>2. TypeOK /\ SessionInv /\ WakerInv /\ [Next]_vars => WakerInv'
  BY Next_Waker
<1>3. WakerInv => ParkedHasWaker
  BY DEF WakerInv, WillBeWoken, ParkedHasWaker
<1>4. QED
  BY <1>1, <1>2, <1>3, TypeCorrect, SessionInvariant, PTL DEF Spec

-----------------------------------------------------------------------------
(* What every step keeps.                                                  *)

(* A session that said hello keeps its name, and what was announced stays. *)
LEMMA Next_History ==
  ASSUME TypeOK, SessionInv, [Next]_vars
  PROVE  /\ \A s \in Sessions : name[s] # None => name'[s] = name[s]
         /\ announced \subseteq announced'
<1>1. CASE UNCHANGED <<name, announced>>
  BY <1>1
<1>2. ASSUME NEW c \in Calls, Dispatch(c) \/ CallSteps(c)
      PROVE  UNCHANGED <<name, announced>>
  BY <1>2 DEF Dispatch, CallSteps, ResolveExplicit, ResolveActive, ResolveOnly,
     LookupSocket, RegisterPending, SendCall, ReturnValue, Timeout,
     ExpirePending, sessionVars
<1>3. ASSUME NEW s \in Sessions,
             Open(s) \/ HandlerSteps(s) \/ EditorRun(s) \/ Drop(s)
      PROVE  UNCHANGED name /\ announced \subseteq announced'
  BY <1>3 DEF Open, HandlerSteps, HelloAnnounce, HelloNotify, HandleToolResult,
     CloseErase, CloseAnnounce, CloseFailPending, CloseNotify, EditorRun, Drop,
     sessionVars
<1>4. ASSUME NEW s \in Sessions, HelloRegister(s)
      PROVE  /\ \A t \in Sessions : name[t] # None => name'[t] = name[t]
             /\ announced \subseteq announced'
  BY <1>4 DEF HelloRegister, SessionInv, SessionsKept, TypeOK, SessionTypes
<1>5. ASSUME NEW w \in Waiters, WaitStart(w) \/ WaiterSteps(w) \/ WaitDeadline(w)
      PROVE  UNCHANGED <<name, announced>>
  BY <1>5 DEF WaitStart, WaiterSteps, WaitFastPath, WaitCheck, WaitPark,
     WaitDeadline, sessionVars
<1>6. CASE SetActiveFind \/ SetActiveStore \/ StopBegin \/ StopSteps
  BY <1>1, <1>6 DEF SetActiveFind, SetActiveStore, StopBegin, StopSteps,
     StopServer, StopDrain, StopNotify, sessionVars
<1>7. QED
  BY <1>1, <1>2, <1>3, <1>4, <1>5, <1>6 DEF Next, vars, sessionVars

(* Only the thread of a call changes its local state, only the editors run *)
(* tools, and only three handlers set promises.                            *)
LEMMA Others_Keep ==
  /\ \A s \in Sessions :
       Open(s) \/ HelloRegister(s) \/ HandlerSteps(s) \/ EditorRun(s) \/ Drop(s)
         => UNCHANGED call
  /\ \A w \in Waiters :
       WaitStart(w) \/ WaiterSteps(w) \/ WaitDeadline(w)
         => UNCHANGED <<rpcVars, wireVars>>
  /\ SetActiveFind \/ SetActiveStore \/ StopBegin \/ StopNotify
       => UNCHANGED <<rpcVars, wireVars>>
  /\ StopServer => UNCHANGED <<rpcVars, ran>>
  /\ StopDrain => UNCHANGED <<call, wireVars>>
<1>1. \A s \in Sessions :
       Open(s) \/ HelloRegister(s) \/ HandlerSteps(s) \/ EditorRun(s) \/ Drop(s)
         => UNCHANGED call
  BY DEF Open, HelloRegister, HandlerSteps, HelloAnnounce, HelloNotify,
     HandleToolResult, CloseErase, CloseAnnounce, CloseFailPending, CloseNotify,
     EditorRun, Drop, rpcVars
<1>2. \A w \in Waiters :
       WaitStart(w) \/ WaiterSteps(w) \/ WaitDeadline(w)
         => UNCHANGED <<rpcVars, wireVars>>
  BY DEF WaitStart, WaiterSteps, WaitFastPath, WaitCheck, WaitPark, WaitDeadline
<1>3. /\ SetActiveFind \/ SetActiveStore \/ StopBegin \/ StopNotify
           => UNCHANGED <<rpcVars, wireVars>>
      /\ StopServer => UNCHANGED <<rpcVars, ran>>
      /\ StopDrain => UNCHANGED <<call, wireVars>>
  BY DEF SetActiveFind, SetActiveStore, StopBegin, StopNotify, StopServer,
     StopDrain
<1>4. QED
  BY <1>1, <1>2, <1>3

LEMMA Next_Frame ==
  [Next]_vars =>
    \/ \E c \in Calls : Dispatch(c) \/ CallSteps(c)
    \/ UNCHANGED call
<1> SUFFICES ASSUME [Next]_vars, ~\E c \in Calls : Dispatch(c) \/ CallSteps(c)
             PROVE  UNCHANGED call
  OBVIOUS
<1>1. CASE UNCHANGED vars
  BY <1>1 DEF vars, rpcVars
<1>2. CASE \E s \in Sessions :
             Open(s) \/ HelloRegister(s) \/ HandlerSteps(s) \/ EditorRun(s) \/ Drop(s)
  BY <1>2, Others_Keep
<1>3. CASE \E w \in Waiters : WaitStart(w) \/ WaiterSteps(w) \/ WaitDeadline(w)
  BY <1>3, Others_Keep DEF rpcVars
<1>4. CASE SetActiveFind \/ SetActiveStore \/ StopBegin \/ StopSteps
  BY <1>4, Others_Keep DEF StopSteps, rpcVars
<1>5. QED
  BY <1>1, <1>2, <1>3, <1>4 DEF Next

(* A thread that has not registered its call has no tx id; from then on    *)
(* the target of the call and its tx id are final.                         *)
LEMMA Calling_Kept ==
  ASSUME TypeOK, NEW c \in Calls, Dispatch(c) \/ CallSteps(c)
  PROVE  /\ \A d \in Calls \ {c} : call'[d] = call[d]
         /\ \/ call[c].pc \in EarlyPcs
            \/ /\ call[c].pc \in FlightPcs
               /\ call'[c].pc \in {"wait", "expire", "done"}
               /\ call'[c].target = call[c].target /\ call'[c].tx = call[c].tx
               /\ call'[c].key = call[c].key
<1>1. call \in [Calls -> CallRecords] /\ call[c] \in CallRecords
  BY DEF TypeOK, RpcTypes, CallStates
<1>2. CASE Dispatch(c)
  <2>1. call[c].pc \in EarlyPcs
    BY <1>2 DEF Dispatch, EarlyPcs
  <2>2. \A d \in Calls \ {c} : call'[d] = call[d]
    BY <1>1, <1>2 DEF Dispatch
  <2>3. QED
    BY <2>1, <2>2
<1>3. CASE RegisterPending(c)
  BY <1>1, <1>3 DEF RegisterPending, EarlyPcs
<1>4. CASE ResolveExplicit(c) \/ ResolveActive(c) \/ ResolveOnly(c)
             \/ LookupSocket(c)
  BY <1>4, Moves DEF TypeOK, ResolveExplicit, ResolveActive, ResolveOnly,
     LookupSocket, EarlyPcs
<1>5. CASE SendCall(c) \/ ReturnValue(c) \/ Timeout(c) \/ ExpirePending(c)
  BY <1>5, Moves DEF TypeOK, SendCall, ReturnValue, Timeout, ExpirePending,
     FlightPcs
<1>6. QED
  BY <1>2, <1>3, <1>4, <1>5 DEF CallSteps

-----------------------------------------------------------------------------
(* Routing: a call goes to an editor that answers to its key.              *)

LEMMA Calling_Route ==
  ASSUME TypeOK, SessionInv, RouteInv, NEW c \in Calls,
         Dispatch(c) \/ CallSteps(c)
  PROVE  RouteInv'
<1> USE DEF RouteInv, RoutedByKey, Greeted
<1>0. /\ call \in [Calls -> CallRecords] /\ call[c] \in CallRecords
      /\ sessions \subseteq Sessions
      /\ \A s \in sessions : name[s] # None /\ s # None
  BY ConstantsAssumption DEF TypeOK, RpcTypes, CallStates, SessionTypes,
     SessionInv, SessionsKept
<1>1. UNCHANGED name
  BY DEF Dispatch, CallSteps, ResolveExplicit, ResolveActive, ResolveOnly,
     LookupSocket, RegisterPending, SendCall, ReturnValue, Timeout,
     ExpirePending, sessionVars
<1>2. \A d \in Calls \ {c} : RoutedByKey(d)'
  BY <1>1, Calling_Kept
<1>3. RoutedByKey(c)'
  <2>1. CASE Dispatch(c)
    <3>1. PICK k \in Keys :
            call' = IF running
              THEN [call EXCEPT ![c] = [@ EXCEPT !.pc = "resolve", !.key = k]]
              ELSE [call EXCEPT ![c] = [@ EXCEPT !.pc = "done", !.key = k,
                                          !.outcome = Error("not_running")]]
      BY <2>1 DEF Dispatch
    <3>2. call'[c] = IF running
            THEN [call[c] EXCEPT !.pc = "resolve", !.key = k]
            ELSE [call[c] EXCEPT !.pc = "done", !.key = k,
                                 !.outcome = Error("not_running")]
      BY <1>0, <3>1
    <3>3. call'[c].target = None /\ call'[c].pc \in {"resolve", "done"}
      BY <1>0, <2>1, <3>2 DEF CallRecords, Dispatch
    <3>4. QED
      BY <3>3
  <2>2. CASE ResolveExplicit(c)
    <3>1. CASE \E s \in FindByIdOrLabel(call[c].key) : Target(c, s)
      <4>1. PICK s \in FindByIdOrLabel(call[c].key) : Target(c, s)
        BY <3>1
      <4>2. s \in sessions /\ (call[c].key = s \/ call[c].key = name[s])
        BY <4>1 DEF FindByIdOrLabel
      <4>3. call'[c].pc = "lookup" /\ call'[c].target = s
              /\ call'[c].key = call[c].key
        BY <4>1, Moves DEF TypeOK
      <4>4. QED
        BY <1>0, <1>1, <4>2, <4>3
    <3>2. CASE Return(c, Error("no_match"))
      <4>1. call'[c].pc = "done" /\ call'[c].target = call[c].target
              /\ call'[c].key = call[c].key
        BY <3>2, Moves DEF TypeOK
      <4>2. QED
        BY <1>1, <2>2, <4>1 DEF ResolveExplicit
    <3>3. QED
      BY <2>2, <3>1, <3>2 DEF ResolveExplicit
  <2>3. CASE ResolveActive(c)
    <3>1. call[c].key = None /\ call[c].target = None
      BY <2>3 DEF ResolveActive
    <3>2. CASE active # None /\ Target(c, active)
      <4>1. name[active] # None
        BY <3>2 DEF SessionInv
      <4>2. call'[c].pc = "lookup" /\ call'[c].target = active
              /\ call'[c].key = None
        BY <3>1, <3>2, Moves DEF TypeOK
      <4>3. QED
        BY <1>1, <4>1, <4>2
    <3>3. CASE Goto(c, "only")
      <4>1. call'[c].pc = "only" /\ call'[c].target = None /\ call'[c].key = None
        BY <3>1, <3>3, Moves DEF TypeOK
      <4>2. QED
        BY <4>1
    <3>4. QED
      BY <2>3, <3>2, <3>3 DEF ResolveActive
  <2>4. CASE ResolveOnly(c)
    <3>1. call[c].key = None /\ call[c].target = None
      BY <2>4 DEF ResolveOnly
    <3>2. CASE \E s \in sessions : Target(c, s)
      <4>1. PICK s \in sessions : Target(c, s)
        BY <3>2
      <4>2. call'[c].pc = "lookup" /\ call'[c].target = s /\ call'[c].key = None
        BY <3>1, <4>1, Moves DEF TypeOK
      <4>3. QED
        BY <1>0, <1>1, <4>2
    <3>3. CASE \E v \in Outcomes : Return(c, v)
      <4>1. call'[c].pc = "done" /\ call'[c].target = None
        BY <3>1, <3>3, Moves DEF TypeOK
      <4>2. QED
        BY <4>1
    <3>4. QED
      BY <2>4, <3>2, <3>3, OutcomeTypes, FailureKinds DEF ResolveOnly
  <2>5. CASE LookupSocket(c)
    <3>1. /\ call'[c].pc \in {"register", "done"}
          /\ call'[c].target = call[c].target /\ call'[c].key = call[c].key
      BY <2>5, Moves DEF LookupSocket, TypeOK
    <3>2. QED
      BY <1>1, <2>5, <3>1 DEF LookupSocket
  <2>6. CASE RegisterPending(c)
    <3>1. call'[c] = [call[c] EXCEPT !.pc = "send", !.tx = txCounter]
      BY <1>0, <2>6 DEF RegisterPending
    <3>2. call'[c].pc = "send" /\ call'[c].target = call[c].target
            /\ call'[c].key = call[c].key
      BY <1>0, <3>1 DEF CallRecords
    <3>3. QED
      BY <1>1, <3>2, <2>6 DEF RegisterPending
  <2>7. CASE SendCall(c) \/ ReturnValue(c) \/ Timeout(c) \/ ExpirePending(c)
    <3>1. call[c].pc \notin EarlyPcs
      BY <2>7 DEF SendCall, ReturnValue, Timeout, ExpirePending, EarlyPcs
    <3>2. /\ call'[c].pc \in {"wait", "expire", "done"}
          /\ call'[c].target = call[c].target /\ call'[c].key = call[c].key
      BY <3>1, Calling_Kept
    <3>3. QED
      BY <1>1, <3>2
  <2>8. QED
    BY <2>1, <2>2, <2>3, <2>4, <2>5, <2>6, <2>7 DEF CallSteps
<1>4. QED
  BY <1>2, <1>3

LEMMA Next_Route == TypeOK /\ SessionInv /\ RouteInv /\ [Next]_vars => RouteInv'
<1> SUFFICES ASSUME TypeOK, SessionInv, RouteInv, [Next]_vars PROVE RouteInv'
  OBVIOUS
<1>1. \A s \in Sessions : name[s] # None => name'[s] = name[s]
  BY Next_History
<1>2. \A c \in Calls : call[c].target \in Sessions \cup {None}
  BY DEF TypeOK, RpcTypes, CallStates, CallRecords
<1>3. CASE UNCHANGED call
  BY <1>1, <1>2, <1>3 DEF RouteInv, RoutedByKey, Greeted
<1>4. CASE \E c \in Calls : Dispatch(c) \/ CallSteps(c)
  BY <1>4, Calling_Route
<1>5. CASE ~\E c \in Calls : Dispatch(c) \/ CallSteps(c)
  <2>1. UNCHANGED call
    BY <1>5, Next_Frame
  <2>2. QED
    BY <1>3, <2>1
<1>6. QED
  BY <1>4, <1>5

LEMMA RouteInvariant == Spec => []RouteInv
<1>1. Init => RouteInv
  BY DEF Init, RouteInv, RoutedByKey, Greeted
<1>2. TypeOK /\ SessionInv /\ RouteInv /\ [Next]_vars => RouteInv'
  BY Next_Route
<1>3. QED
  BY <1>1, <1>2, TypeCorrect, SessionInvariant, PTL DEF Spec

-----------------------------------------------------------------------------
(* The wire: every envelope and every answer belongs to one call.          *)

LEMMA SequenceFacts ==
  ASSUME NEW q \in Seq(Messages), NEW m \in Messages
  PROVE  /\ \A i \in 1..Len(q) : q[i] \in Messages
         /\ Append(q, m) \in Seq(Messages) /\ Len(Append(q, m)) = Len(q) + 1
         /\ \A i \in 1..Len(q) + 1 :
              Append(q, m)[i] = IF i = Len(q) + 1 THEN m ELSE q[i]
         /\ q # <<>> =>
              /\ Head(q) = q[1] /\ 1 \in 1..Len(q)
              /\ Tail(q) \in Seq(Messages) /\ Len(Tail(q)) = Len(q) - 1
              /\ \A i \in 1..Len(Tail(q)) :
                   Tail(q)[i] = q[i + 1] /\ i + 1 \in 1..Len(q)
  OBVIOUS

(* A call without a tx id, or about to send, has nothing on the wire.      *)
LEMMA Wire_Quiet ==
  ASSUME TypeOK, WireInv, NEW s \in Sessions
  PROVE  /\ \A i \in 1..Len(toEditor[s]) :
              /\ toEditor[s][i].call \in Calls
              /\ call[toEditor[s][i].call].tx # -1
              /\ call[toEditor[s][i].call].pc # "send"
         /\ \A i \in 1..Len(toServer[s]) :
              /\ toServer[s][i].call \in Calls
              /\ call[toServer[s][i].call].tx # -1
              /\ call[toServer[s][i].call].pc # "send"
              /\ ran[toServer[s][i].call] # <<>>
<1>1. toEditor[s] \in Seq(Messages) /\ toServer[s] \in Seq(Messages)
  BY DEF TypeOK, WireTypes
<1>2. ASSUME NEW i \in 1..Len(toEditor[s])
      PROVE  /\ toEditor[s][i].call \in Calls
             /\ call[toEditor[s][i].call].tx # -1
             /\ call[toEditor[s][i].call].pc # "send"
  <2>1. toEditor[s][i] \in Messages
    BY <1>1
  <2>2. Underway(s, toEditor[s][i])
    BY DEF WireInv, AllUnderway
  <2>3. QED
    BY <2>1, <2>2 DEF Underway, Messages
<1>3. ASSUME NEW i \in 1..Len(toServer[s])
      PROVE  /\ toServer[s][i].call \in Calls
             /\ call[toServer[s][i].call].tx # -1
             /\ call[toServer[s][i].call].pc # "send"
             /\ ran[toServer[s][i].call] # <<>>
  <2>1. toServer[s][i] \in Messages
    BY <1>1
  <2>2. Answered(toServer[s][i])
    BY DEF WireInv, AllAnswered
  <2>3. RanAtTarget(toServer[s][i].call)
    BY <2>1 DEF WireInv, Messages
  <2>4. ran[toServer[s][i].call] # <<>>
    BY <2>2 DEF Answered
  <2>5. QED
    BY <2>1, <2>2, <2>3, <2>4 DEF Answered, RanAtTarget, Messages
<1>4. QED
  BY <1>2, <1>3

(* What matters of a call on the wire is its target and its tx id.         *)
LEMMA Frame_Wire ==
  ASSUME TypeOK, WireInv, UNCHANGED wireVars,
         \A c \in Calls :
           \/ call[c].tx = -1 /\ (call'[c].tx = -1 \/ call'[c].pc = "send")
           \/ /\ call'[c].target = call[c].target /\ call'[c].tx = call[c].tx
              /\ call'[c].pc = "send" => call[c].pc = "send"
  PROVE  WireInv'
<1> USE DEF wireVars
<1>1. \A c \in Calls : RanAtTarget(c)'
  BY DEF WireInv, RanAtTarget
<1>2. AllUnderway'
  <2> SUFFICES ASSUME NEW s \in Sessions, NEW i \in 1..Len(toEditor[s])
               PROVE  Underway(s, toEditor[s][i])'
    BY DEF AllUnderway
  <2>1. /\ Underway(s, toEditor[s][i]) /\ toEditor[s][i].call \in Calls
        /\ call[toEditor[s][i].call].tx # -1
    BY Wire_Quiet DEF WireInv, AllUnderway
  <2>2. QED
    BY <2>1 DEF Underway
<1>4. AllAnswered'
  <2> SUFFICES ASSUME NEW s \in Sessions, NEW i \in 1..Len(toServer[s])
               PROVE  Answered(toServer[s][i])'
    BY DEF AllAnswered
  <2>1. /\ Answered(toServer[s][i]) /\ toServer[s][i].call \in Calls
        /\ call[toServer[s][i].call].tx # -1
    BY Wire_Quiet DEF WireInv, AllAnswered
  <2>2. QED
    BY <2>1 DEF Answered
<1>3. SentOnce'
  BY DEF WireInv, SentOnce
<1>5. QED
  BY <1>1, <1>2, <1>3, <1>4 DEF WireInv

LEMMA Send_Wire ==
  ASSUME TypeOK, WireInv, NEW c \in Calls, SendCall(c)
  PROVE  WireInv'
<1>1. PICK s \in Sessions, m \in Messages :
        /\ s = call[c].target /\ m = [tx |-> call[c].tx, call |-> c]
        /\ call[c].tx = m.tx /\ m.tx # -1
  BY DEF SendCall, TypeOK, RpcTypes, CallStates, FlightPcs, Messages
<1>2. /\ \A d \in Calls \ {c} : call'[d] = call[d]
      /\ call[c].pc = "send" /\ call'[c].pc = "wait"
      /\ call'[c].tx = m.tx /\ call'[c].target = s /\ m.call = c
  BY <1>1, Moves DEF SendCall, TypeOK
<1>3. UNCHANGED <<toServer, ran>>
  BY DEF SendCall
<1>4. \A d \in Calls : RanAtTarget(d)'
  BY <1>1, <1>2, <1>3 DEF WireInv, RanAtTarget
<1>5. AllAnswered'
  <2> SUFFICES ASSUME NEW t \in Sessions, NEW i \in 1..Len(toServer'[t])
               PROVE  Answered(toServer[t][i])'
    BY DEF AllAnswered
  <2>1. Answered(toServer[t][i]) /\ toServer[t][i].call \in Calls \ {c}
    BY <1>2, <1>3, Wire_Quiet DEF WireInv, AllAnswered
  <2>2. QED
    BY <1>2, <1>3, <2>1 DEF Answered
<1>6. ASSUME NEW t \in Sessions, NEW i \in 1..Len(toEditor[t])
      PROVE  /\ toEditor[t][i].call \in Calls \ {c}
             /\ Underway(t, toEditor[t][i])
  BY <1>2, Wire_Quiet DEF WireInv, AllUnderway
<1>7. CASE toEditor' = toEditor
  <2>1. AllUnderway'
    <3> SUFFICES ASSUME NEW t \in Sessions, NEW i \in 1..Len(toEditor'[t])
                 PROVE  Underway(t, toEditor[t][i])'
      BY DEF AllUnderway
    <3>1. QED
      BY <1>2, <1>3, <1>6, <1>7 DEF Underway
  <2>2. QED
    BY <1>4, <1>5, <1>7, <2>1 DEF WireInv, SentOnce
<1>8. CASE toEditor' = [toEditor EXCEPT ![s] = Append(@, m)]
  <2>1. /\ \A t \in Sessions \ {s} : toEditor'[t] = toEditor[t]
        /\ toEditor'[s] = Append(toEditor[s], m)
        /\ toEditor[s] \in Seq(Messages) /\ Len(toEditor[s]) \in Nat
    BY <1>8 DEF TypeOK, WireTypes
  <2>2. /\ Len(toEditor'[s]) = Len(toEditor[s]) + 1
        /\ toEditor'[s][Len(toEditor[s]) + 1] = m
        /\ \A i \in 1..Len(toEditor[s]) : toEditor'[s][i] = toEditor[s][i]
    BY <2>1
  <2>3. AllUnderway'
    <3> SUFFICES ASSUME NEW t \in Sessions, NEW i \in 1..Len(toEditor'[t])
                 PROVE  Underway(t, toEditor[t][i])'
      BY DEF AllUnderway
    <3>1. CASE t # s
      BY <1>2, <1>3, <1>6, <2>1, <3>1 DEF Underway
    <3>2. CASE t = s /\ i = Len(toEditor[s]) + 1
      <4>1. toEditor'[t][i] = m
        BY <2>2, <3>2
      <4>2. ran[c] = <<>>
        BY <1>2 DEF WireInv, RanAtTarget
      <4>3. QED
        BY <1>2, <1>3, <3>2, <4>1, <4>2 DEF Underway
    <3>3. CASE t = s /\ i \in 1..Len(toEditor[s])
      <4>1. toEditor'[t][i] = toEditor[t][i]
        BY <2>2, <3>3
      <4>2. QED
        BY <1>2, <1>3, <1>6, <3>3, <4>1 DEF Underway
    <3>4. QED
      BY <2>1, <2>2, <3>1, <3>2, <3>3
  <2>4. SentOnce'
    <3> SUFFICES ASSUME NEW t \in Sessions, NEW i \in 1..Len(toEditor'[t]),
                        NEW j \in 1..Len(toEditor'[t]),
                        toEditor'[t][i].call = toEditor'[t][j].call
                 PROVE  i = j
      BY DEF SentOnce
    <3>1. CASE t # s
      BY <2>1, <3>1 DEF WireInv, SentOnce
    <3>2. CASE t = s /\ i \in 1..Len(toEditor[s]) /\ j \in 1..Len(toEditor[s])
      <4>1. toEditor[s][i].call = toEditor[s][j].call
        BY <2>2, <3>2
      <4>2. QED
        BY <3>2, <4>1 DEF WireInv, SentOnce
    <3>3. CASE t = s /\ i = Len(toEditor[s]) + 1 /\ j \in 1..Len(toEditor[s])
      <4>1. toEditor[s][j].call = c
        BY <1>2, <2>2, <3>3
      <4>2. QED
        BY <1>6, <3>3, <4>1
    <3>4. CASE t = s /\ j = Len(toEditor[s]) + 1 /\ i \in 1..Len(toEditor[s])
      <4>1. toEditor[s][i].call = c
        BY <1>2, <2>2, <3>4
      <4>2. QED
        BY <1>6, <3>4, <4>1
    <3>5. QED
      BY <2>1, <2>2, <3>1, <3>2, <3>3, <3>4
  <2>5. QED
    BY <1>4, <1>5, <2>3, <2>4 DEF WireInv
<1>9. QED
  BY <1>1, <1>7, <1>8 DEF SendCall

LEMMA Run_Wire ==
  ASSUME TypeOK, WireInv, NEW s \in Sessions, EditorRun(s)
  PROVE  /\ WireInv'
         /\ LET m == Head(toEditor[s])
            IN /\ m.call \in Calls /\ ran[m.call] = <<>>
               /\ call[m.call].tx # -1
               /\ ran' = [ran EXCEPT ![m.call] = <<s>>]
<1>0. PICK m \in Messages : m = Head(toEditor[s])
  BY DEF EditorRun, TypeOK, WireTypes
<1>1. /\ toEditor[s] \in Seq(Messages) /\ toEditor[s] # <<>>
      /\ m = toEditor[s][1] /\ 1 \in 1..Len(toEditor[s])
      /\ \A t \in Sessions : toEditor[t] \in Seq(Messages)
      /\ \A t \in Sessions : toServer[t] \in Seq(Messages)
  BY <1>0 DEF EditorRun, TypeOK, WireTypes
<1>2. /\ m.call \in Calls /\ call[m.call].tx = m.tx /\ m.tx # -1
      /\ call[m.call].pc # "send" /\ call[m.call].target = s
      /\ ran[m.call] = <<>>
  <2>1. Underway(s, m)
    BY <1>1 DEF WireInv, AllUnderway
  <2>2. QED
    BY <1>1, <2>1 DEF Underway, Messages
<1>3. /\ ran' = [ran EXCEPT ![m.call] = <<s>>]
      /\ \A c \in Calls \ {m.call} : ran'[c] = ran[c]
      /\ ran'[m.call] = <<s>>
      /\ call' = call
  <2>1. Append(<<>>, s) = <<s>>
    OBVIOUS
  <2>2. ran' = [ran EXCEPT ![m.call] = Append(@, s)] /\ call' = call
    BY <1>0 DEF EditorRun, rpcVars
  <2>3. QED
    BY <1>2, <2>1, <2>2 DEF TypeOK, WireTypes
<1>4. /\ \A t \in Sessions \ {s} : toEditor'[t] = toEditor[t]
      /\ toEditor'[s] = Tail(toEditor[s])
  BY <1>1 DEF EditorRun, TypeOK, WireTypes
<1>5. \A c \in Calls : RanAtTarget(c)'
  BY <1>2, <1>3 DEF WireInv, RanAtTarget
<1>6. ASSUME NEW t \in Sessions, NEW i \in 1..Len(toEditor[t]),
             t # s \/ i # 1
      PROVE  toEditor[t][i].call \in Calls \ {m.call}
  <2>1. Underway(t, toEditor[t][i]) /\ toEditor[t][i].call \in Calls
    BY Wire_Quiet DEF WireInv, AllUnderway
  <2>2. CASE t # s
    BY <1>2, <2>1, <2>2 DEF Underway
  <2>3. CASE t = s /\ i # 1
    BY <1>1, <2>1, <2>3 DEF WireInv, SentOnce
  <2>4. QED
    BY <1>6, <2>2, <2>3
<1>7. ASSUME NEW t \in Sessions, NEW i \in 1..Len(toEditor'[t])
      PROVE  \E j \in 1..Len(toEditor[t]) :
               /\ toEditor'[t][i] = toEditor[t][j] /\ (t # s \/ j # 1)
               /\ j = IF t = s THEN i + 1 ELSE i
  <2>1. CASE t # s
    BY <1>4, <2>1
  <2>2. CASE t = s
    <3>1. /\ i \in 1..Len(Tail(toEditor[s])) /\ toEditor'[t][i] = Tail(toEditor[s])[i]
      BY <1>4, <2>2
    <3>2. i + 1 \in 1..Len(toEditor[s]) /\ toEditor'[t][i] = toEditor[s][i + 1]
      BY <1>1, <3>1, SequenceFacts
    <3>3. i \in Nat /\ i + 1 # 1
      BY <3>1
    <3>4. QED
      BY <2>2, <3>2, <3>3
  <2>3. QED
    BY <2>1, <2>2
<1>8. AllUnderway'
  <2> SUFFICES ASSUME NEW t \in Sessions, NEW i \in 1..Len(toEditor'[t])
               PROVE  Underway(t, toEditor[t][i])'
    BY DEF AllUnderway
  <2>1. PICK j \in 1..Len(toEditor[t]) :
          toEditor'[t][i] = toEditor[t][j] /\ (t # s \/ j # 1)
    BY <1>7
  <2>2. toEditor[t][j].call \in Calls \ {m.call} /\ Underway(t, toEditor[t][j])
    BY <1>6, <2>1 DEF WireInv, AllUnderway
  <2>3. QED
    BY <1>3, <2>1, <2>2 DEF Underway
<1>9. SentOnce'
  <2> SUFFICES ASSUME NEW t \in Sessions, NEW i \in 1..Len(toEditor'[t]),
                      NEW j \in 1..Len(toEditor'[t]),
                      toEditor'[t][i].call = toEditor'[t][j].call
               PROVE  i = j
    BY DEF SentOnce
  <2>1. PICK i2 \in 1..Len(toEditor[t]) :
          toEditor'[t][i] = toEditor[t][i2] /\ i2 = IF t = s THEN i + 1 ELSE i
    BY <1>7
  <2>2. PICK j2 \in 1..Len(toEditor[t]) :
          toEditor'[t][j] = toEditor[t][j2] /\ j2 = IF t = s THEN j + 1 ELSE j
    BY <1>7
  <2>3. i2 = j2
    BY <2>1, <2>2 DEF WireInv, SentOnce
  <2>4. QED
    BY <2>1, <2>2, <2>3
<1>10. ASSUME NEW t \in Sessions, NEW i \in 1..Len(toServer[t])
       PROVE  Answered(toServer[t][i]) /\ toServer[t][i].call \in Calls \ {m.call}
  BY <1>2, Wire_Quiet DEF WireInv, AllAnswered
<1>12. AllAnswered'
  <2> SUFFICES ASSUME NEW t \in Sessions, NEW i \in 1..Len(toServer'[t])
               PROVE  Answered(toServer[t][i])'
    BY DEF AllAnswered
  <2>1. CASE i \in 1..Len(toServer[t]) /\ toServer'[t][i] = toServer[t][i]
    <3>1. Answered(toServer[t][i]) /\ toServer[t][i].call \in Calls \ {m.call}
      BY <1>10, <2>1
    <3>2. QED
      BY <1>3, <2>1, <3>1 DEF Answered
  <2>2. CASE toServer'[t][i] = m
    BY <1>2, <1>3, <2>2 DEF Answered
  <2>3. \/ toServer'[t] = toServer[t]
        \/ toServer'[t] = Append(toServer[t], m)
    BY <1>0 DEF EditorRun, TypeOK, WireTypes
  <2>4. QED
    BY <1>1, <2>1, <2>2, <2>3
<1>13. QED
  BY <1>0, <1>2, <1>3, <1>5, <1>8, <1>9, <1>12 DEF WireInv

LEMMA LosePrefix ==
  ASSUME NEW S \in SUBSET Sessions, TypeOK, Lose(S)
  PROVE  \A s \in Sessions :
           /\ Len(toEditor'[s]) <= Len(toEditor[s])
           /\ \A i \in 1..Len(toEditor'[s]) :
                i \in 1..Len(toEditor[s]) /\ toEditor'[s][i] = toEditor[s][i]
           /\ toServer'[s] \in {<<>>, toServer[s]}
<1>1. PICK keep \in [S -> 0..Cardinality(Calls)] :
        /\ \A s \in S : keep[s] <= Len(toEditor[s])
        /\ toEditor' = [s \in Sessions |-> IF s \in S
                          THEN SubSeq(toEditor[s], 1, keep[s]) ELSE toEditor[s]]
  BY DEF Lose
<1>2. ASSUME NEW s \in S
      PROVE  /\ Len(toEditor'[s]) <= Len(toEditor[s])
             /\ \A i \in 1..Len(toEditor'[s]) :
                  i \in 1..Len(toEditor[s]) /\ toEditor'[s][i] = toEditor[s][i]
  <2>1. /\ toEditor[s] \in Seq(Messages) /\ Len(toEditor[s]) \in Nat
        /\ keep[s] \in 0..Cardinality(Calls)
    BY DEF TypeOK, WireTypes
  <2>2. keep[s] \in Int /\ keep[s] >= 0 /\ keep[s] <= Len(toEditor[s])
    BY <1>1, <2>1
  <2>3. toEditor'[s] = SubSeq(toEditor[s], 1, keep[s])
    BY <1>1
  <2>4. QED
    BY <2>1, <2>2, <2>3
<1>3. \A s \in Sessions \ S : toEditor'[s] = toEditor[s]
  BY <1>1
<1>4. \A s \in Sessions : Len(toEditor[s]) \in Nat
  BY DEF TypeOK, WireTypes
<1>5. \A s \in Sessions : toServer'[s] \in {<<>>, toServer[s]}
  BY DEF Lose
<1>6. QED
  BY <1>2, <1>3, <1>4, <1>5

(* Losing and consuming messages keeps what the others say.                *)
LEMMA Lose_Wire ==
  ASSUME TypeOK, WireInv, UNCHANGED <<call, ran>>,
         \A s \in Sessions : \A i \in 1..Len(toEditor'[s]) :
           i \in 1..Len(toEditor[s]) /\ toEditor'[s][i] = toEditor[s][i],
         \A s \in Sessions : \A i \in 1..Len(toServer'[s]) :
           \E j \in 1..Len(toServer[s]) : toServer'[s][i] = toServer[s][j]
  PROVE  WireInv'
<1>1. AllUnderway'
  <2> SUFFICES ASSUME NEW s \in Sessions, NEW i \in 1..Len(toEditor'[s])
               PROVE  Underway(s, toEditor[s][i])'
    BY DEF AllUnderway
  <2>1. Underway(s, toEditor[s][i]) /\ toEditor'[s][i] = toEditor[s][i]
    BY DEF WireInv, AllUnderway
  <2>2. QED
    BY <2>1 DEF Underway
<1>2. AllAnswered'
  <2> SUFFICES ASSUME NEW s \in Sessions, NEW i \in 1..Len(toServer'[s])
               PROVE  Answered(toServer[s][i])'
    BY DEF AllAnswered
  <2>1. PICK j \in 1..Len(toServer[s]) : toServer'[s][i] = toServer[s][j]
    OBVIOUS
  <2>2. Answered(toServer[s][j])
    BY DEF WireInv, AllAnswered
  <2>3. QED
    BY <2>1, <2>2 DEF Answered
<1>3. SentOnce'
  BY DEF WireInv, SentOnce
<1>4. \A c \in Calls : RanAtTarget(c)'
  BY DEF WireInv, RanAtTarget
<1>5. QED
  BY <1>1, <1>2, <1>3, <1>4 DEF WireInv

LEMMA Calling_Wire ==
  ASSUME TypeOK, PendingInv, WireInv, NEW c \in Calls,
         Dispatch(c) \/ CallSteps(c)
  PROVE  WireInv'
<1>1. CASE SendCall(c)
  BY <1>1, Send_Wire
<1>2. CASE ~SendCall(c)
  <2>1. UNCHANGED wireVars
    BY <1>2 DEF Dispatch, CallSteps, ResolveExplicit, ResolveActive, ResolveOnly,
       LookupSocket, RegisterPending, ReturnValue, Timeout, ExpirePending
  <2>2. \A d \in Calls \ {c} : call'[d] = call[d]
    BY Calling_Kept
  <2>3. CASE call[c].pc \notin EarlyPcs
    <3>1. /\ call'[c].target = call[c].target /\ call'[c].tx = call[c].tx
          /\ call'[c].pc # "send"
      BY <2>3, Calling_Kept
    <3>2. QED
      BY <2>1, <2>2, <3>1, Frame_Wire
  <2>4. CASE call[c].pc \in EarlyPcs
    <3>1. call[c].tx = -1
      BY <2>4 DEF PendingInv, TxDiscipline
    <3>2. TxDiscipline'
      BY Call_Pending DEF PendingInv
    <3>3. call'[c].pc = "send" \/ call'[c].pc \in EarlyPcs \/ call'[c].tx = -1
      <4>1. CASE Dispatch(c)
        <5>1. call \in [Calls -> CallRecords] /\ call[c] \in CallRecords
          BY DEF TypeOK, RpcTypes, CallStates
        <5>2. PICK k \in Keys :
                call' = IF running
                  THEN [call EXCEPT ![c] = [@ EXCEPT !.pc = "resolve", !.key = k]]
                  ELSE [call EXCEPT ![c] = [@ EXCEPT !.pc = "done", !.key = k,
                                              !.outcome = Error("not_running")]]
          BY <4>1 DEF Dispatch
        <5>3. call'[c] = IF running
                THEN [call[c] EXCEPT !.pc = "resolve", !.key = k]
                ELSE [call[c] EXCEPT !.pc = "done", !.key = k,
                                     !.outcome = Error("not_running")]
          BY <5>1, <5>2
        <5>4. call'[c].tx = call[c].tx
          BY <5>1, <5>3 DEF CallRecords
        <5>5. QED
          BY <3>1, <5>4
      <4>2. CASE RegisterPending(c)
        <5>1. call \in [Calls -> CallRecords] /\ call[c] \in CallRecords
          BY DEF TypeOK, RpcTypes, CallStates
        <5>2. call'[c] = [call[c] EXCEPT !.pc = "send", !.tx = txCounter]
          BY <4>2, <5>1 DEF RegisterPending
        <5>3. QED
          BY <5>1, <5>2 DEF CallRecords
      <4>3. CASE ResolveExplicit(c) \/ ResolveActive(c) \/ ResolveOnly(c)
                   \/ LookupSocket(c) \/ ReturnValue(c) \/ Timeout(c)
                   \/ ExpirePending(c)
        BY <3>1, <4>3, Moves DEF TypeOK, ResolveExplicit, ResolveActive,
           ResolveOnly, LookupSocket, ReturnValue, Timeout, ExpirePending
      <4>4. QED
        BY <1>2, <4>1, <4>2, <4>3 DEF CallSteps
    <3>4. call'[c].tx = -1 \/ call'[c].pc = "send"
      BY <3>2, <3>3 DEF TxDiscipline
    <3>5. QED
      BY <2>1, <2>2, <3>1, <3>4, Frame_Wire
  <2>5. QED
    BY <2>3, <2>4
<1>3. QED
  BY <1>1, <1>2

LEMMA Next_Wire ==
  TypeOK /\ PendingInv /\ WireInv /\ [Next]_vars => WireInv'
<1> SUFFICES ASSUME TypeOK, PendingInv, WireInv, [Next]_vars PROVE WireInv'
  OBVIOUS
<1>1. CASE UNCHANGED <<call, wireVars>>
  BY <1>1, Frame_Wire
<1>2. ASSUME NEW c \in Calls, Dispatch(c) \/ CallSteps(c)
      PROVE  WireInv'
  BY <1>2, Calling_Wire
<1>3. ASSUME NEW s \in Sessions,
             \/ Open(s) \/ HelloRegister(s) \/ HelloAnnounce(s) \/ HelloNotify(s)
             \/ CloseErase(s) \/ CloseAnnounce(s) \/ CloseFailPending(s)
             \/ CloseNotify(s)
      PROVE  UNCHANGED <<call, wireVars>>
  BY <1>3 DEF Open, HelloRegister, HelloAnnounce, HelloNotify, CloseErase,
     CloseAnnounce, CloseFailPending, CloseNotify, rpcVars
<1>4. ASSUME NEW s \in Sessions, HandleToolResult(s)
      PROVE  WireInv'
  <2>1. /\ UNCHANGED <<call, toEditor, ran>> /\ toServer[s] # <<>>
        /\ toServer' = [toServer EXCEPT ![s] = Tail(@)]
    BY <1>4 DEF HandleToolResult
  <2>2. /\ \A t \in Sessions \ {s} : toServer'[t] = toServer[t]
        /\ toServer'[s] = Tail(toServer[s]) /\ toServer[s] \in Seq(Messages)
    BY <2>1 DEF TypeOK, WireTypes
  <2>3. ASSUME NEW i \in 1..Len(toServer'[s])
        PROVE  \E j \in 1..Len(toServer[s]) : toServer'[s][i] = toServer[s][j]
    <3>1. Head(toServer[s]) \in Messages
      BY <2>1, <2>2
    <3>2. i \in 1..Len(Tail(toServer[s])) /\ toServer'[s][i] = Tail(toServer[s])[i]
      BY <2>2
    <3>3. i + 1 \in 1..Len(toServer[s]) /\ toServer'[s][i] = toServer[s][i + 1]
      BY <2>1, <2>2, <3>1, <3>2, SequenceFacts
    <3>4. QED
      BY <3>3
  <2>4. \A t \in Sessions : \A i \in 1..Len(toServer'[t]) :
          \E j \in 1..Len(toServer[t]) : toServer'[t][i] = toServer[t][j]
    BY <2>2, <2>3
  <2>5. QED
    BY <2>1, <2>4, Lose_Wire
<1>5. ASSUME NEW S \in SUBSET Sessions, Lose(S), UNCHANGED <<call, ran>>
      PROVE  WireInv'
  <2>1. \A s \in Sessions : \A i \in 1..Len(toServer'[s]) :
          \E j \in 1..Len(toServer[s]) : toServer'[s][i] = toServer[s][j]
    BY <1>5, LosePrefix
  <2>2. QED
    BY <1>5, <2>1, LosePrefix, Lose_Wire
<1>6. ASSUME NEW s \in Sessions, EditorRun(s) \/ Drop(s)
      PROVE  WireInv'
  BY <1>5, <1>6, Run_Wire DEF Drop, rpcVars
<1>7. CASE StopServer
  BY <1>5, <1>7 DEF StopServer, rpcVars
<1>8. ASSUME NEW w \in Waiters, WaitStart(w) \/ WaiterSteps(w) \/ WaitDeadline(w)
      PROVE  WireInv'
  BY <1>1, <1>8, Others_Keep DEF rpcVars
<1>9. CASE SetActiveFind \/ SetActiveStore \/ StopBegin \/ StopNotify \/ StopDrain
  BY <1>1, <1>9, Others_Keep DEF rpcVars
<1>10. CASE UNCHANGED vars
  BY <1>1, <1>10 DEF vars, rpcVars
<1>11. QED
  BY <1>1, <1>2, <1>3, <1>4, <1>6, <1>7, <1>8, <1>9, <1>10
     DEF Next, HandlerSteps, StopSteps

LEMMA WireInvariant == Spec => []WireInv
<1>1. Init => WireInv
  <2>1. Len(<<>>) = 0 /\ 1..0 = {}
    OBVIOUS
  <2>2. QED
    BY <2>1 DEF Init, WireInv, AllUnderway, SentOnce, AllAnswered, RanAtTarget
<1>2. TypeOK /\ PendingInv /\ WireInv /\ [Next]_vars => WireInv'
  BY Next_Wire
<1>3. QED
  BY <1>1, <1>2, TypeCorrect, PendingInvariant, PTL DEF Spec

-----------------------------------------------------------------------------
(* What a caller is told.                                                  *)

LEMMA OutcomeKinds ==
  /\ \A c : Result(c).kind = "result" /\ Result(c).of = c
  /\ \A k : Error(k).kind = k
  /\ \A c : Result(c) # Unset /\ Result(c) # Error("disconnected")
           /\ Result(c) # Error("stopped")
  /\ Unset.kind \notin Rejections /\ Unset.kind # "result"
  /\ {"result", "timeout", "disconnected", "stopped"} \cap Rejections = {}
  /\ Error("disconnected") \notin {Unset, Error("stopped")}
  /\ Error("stopped") # Unset /\ Rejections \cap {"none", "unset"} = {}
<1>1. \A k : Error(k).kind = k
  BY DEF Error
<1>2. \A c : Result(c).kind = "result" /\ Result(c).of = c
  BY DEF Result
<1>3. \A c : Result(c) # Unset /\ Result(c) # Error("disconnected")
           /\ Result(c) # Error("stopped")
  BY <1>1, <1>2 DEF Unset
<1>4. QED
  BY <1>1, <1>2, <1>3 DEF Unset, Rejections

(* The steps of a calling thread that end the call.                        *)
LEMMA Calling_Outcome ==
  ASSUME TypeOK, NEW c \in Calls, Dispatch(c) \/ CallSteps(c)
  PROVE  /\ UNCHANGED <<promise, ran, announced>>
         /\ \A d \in Calls \ {c} : call'[d] = call[d]
         /\ call[c].pc # "done"
         /\ \/ call'[c].pc # "done" /\ call'[c].outcome = call[c].outcome
            \/ /\ call[c].pc \in EarlyPcs /\ call'[c].pc = "done"
               /\ call'[c].tx = call[c].tx
               /\ \E k \in Rejections : call'[c].outcome = Error(k)
            \/ /\ call[c].pc = "wait" /\ promise[c] # Unset
               /\ call'[c].pc = "done" /\ call'[c].outcome = promise[c]
            \/ /\ call'[c].pc = "done" /\ call'[c].outcome = Error("timeout")
<1>1. call \in [Calls -> CallRecords] /\ call[c] \in CallRecords
  BY DEF TypeOK, RpcTypes, CallStates
<1>2. UNCHANGED <<promise, ran, announced>> /\ call[c].pc # "done"
  BY DEF Dispatch, CallSteps, ResolveExplicit, ResolveActive, ResolveOnly,
     LookupSocket, RegisterPending, SendCall, ReturnValue, Timeout,
     ExpirePending, wireVars, sessionVars
<1>3. \A d \in Calls \ {c} : call'[d] = call[d]
  BY Calling_Kept
<1>4. CASE Dispatch(c)
  <2>1. PICK k \in Keys :
          call' = IF running
            THEN [call EXCEPT ![c] = [@ EXCEPT !.pc = "resolve", !.key = k]]
            ELSE [call EXCEPT ![c] = [@ EXCEPT !.pc = "done", !.key = k,
                                        !.outcome = Error("not_running")]]
    BY <1>4 DEF Dispatch
  <2>2. call'[c] = IF running
          THEN [call[c] EXCEPT !.pc = "resolve", !.key = k]
          ELSE [call[c] EXCEPT !.pc = "done", !.key = k,
                               !.outcome = Error("not_running")]
    BY <1>1, <2>1
  <2>3. \/ call'[c].pc = "resolve" /\ call'[c].outcome = call[c].outcome
        \/ /\ call'[c].pc = "done" /\ call'[c].tx = call[c].tx
           /\ call'[c].outcome = Error("not_running")
    BY <1>1, <2>2 DEF CallRecords
  <2>4. call[c].pc \in EarlyPcs /\ "not_running" \in Rejections
    BY <1>4 DEF Dispatch, EarlyPcs, Rejections
  <2>5. QED
    BY <1>2, <1>3, <2>3, <2>4
<1>5. CASE RegisterPending(c)
  <2>1. call'[c] = [call[c] EXCEPT !.pc = "send", !.tx = txCounter]
    BY <1>1, <1>5 DEF RegisterPending
  <2>2. call'[c].pc # "done" /\ call'[c].outcome = call[c].outcome
    BY <1>1, <2>1 DEF CallRecords
  <2>3. QED
    BY <1>2, <1>3, <2>2
<1>6. CASE ResolveExplicit(c) \/ ResolveActive(c) \/ ResolveOnly(c)
             \/ LookupSocket(c)
  <2>1. \/ \E k \in Rejections : Return(c, Error(k))
        \/ \E s \in sessions \cup {active} : Target(c, s)
        \/ \E pc \in {"only", "register"} : Goto(c, pc)
    BY <1>6 DEF ResolveExplicit, ResolveActive, ResolveOnly, LookupSocket,
       Rejections, FindByIdOrLabel
  <2>2. call[c].pc \in EarlyPcs
    BY <1>6 DEF ResolveExplicit, ResolveActive, ResolveOnly, LookupSocket, EarlyPcs
  <2>3. \/ call'[c].pc # "done" /\ call'[c].outcome = call[c].outcome
        \/ /\ call'[c].pc = "done" /\ call'[c].tx = call[c].tx
           /\ \E k \in Rejections : call'[c].outcome = Error(k)
    BY <2>1, Moves DEF TypeOK
  <2>4. QED
    BY <1>2, <1>3, <2>2, <2>3
<1>7. CASE SendCall(c) \/ Timeout(c)
  BY <1>2, <1>3, <1>7, Moves DEF TypeOK, SendCall, Timeout
<1>8. CASE ReturnValue(c)
  BY <1>2, <1>3, <1>8, Moves DEF TypeOK, ReturnValue
<1>9. CASE ExpirePending(c)
  BY <1>2, <1>3, <1>9, Moves DEF TypeOK, ExpirePending
<1>10. QED
  BY <1>4, <1>5, <1>6, <1>7, <1>8, <1>9 DEF CallSteps

LEMMA Calling_Answer ==
  ASSUME TypeOK, PendingInv, AnswerInv, NEW c \in Calls,
         Dispatch(c) \/ CallSteps(c)
  PROVE  AnswerInv'
<1>1. /\ UNCHANGED <<promise, ran, announced>> /\ call[c].pc # "done"
      /\ \A d \in Calls \ {c} : call'[d] = call[d]
  BY Calling_Outcome
<1>2. \A d \in Calls \ {c} : PromiseKept(d)' /\ ToldTruly(d)'
  BY <1>1 DEF AnswerInv, PromiseKept, ToldTruly
<1>3. PromiseKept(c)'
  <2>1. CASE call[c].pc \in EarlyPcs
    <3>1. promise'[c] = Unset
      BY <1>1, <2>1 DEF PendingInv, TxDiscipline
    <3>2. QED
      BY <3>1, OutcomeKinds DEF PromiseKept
  <2>2. CASE call[c].pc \notin EarlyPcs
    <3>1. call'[c].target = call[c].target
      BY <2>2, Calling_Kept
    <3>2. QED
      BY <1>1, <3>1 DEF AnswerInv, PromiseKept
  <2>3. QED
    BY <2>1, <2>2
<1>4. ToldTruly(c)'
  <2>1. call[c].outcome = Unset
    BY <1>1 DEF AnswerInv, ToldTruly
  <2>2. CASE call'[c].pc # "done" /\ call'[c].outcome = call[c].outcome
    BY <2>1, <2>2, OutcomeKinds DEF ToldTruly
  <2>3. CASE /\ call[c].pc \in EarlyPcs /\ call'[c].pc = "done"
             /\ call'[c].tx = call[c].tx
             /\ \E k \in Rejections : call'[c].outcome = Error(k)
    <3>1. call'[c].tx = -1
      BY <2>3 DEF PendingInv, TxDiscipline
    <3>2. call'[c].outcome.kind # "result"
      BY <2>3, OutcomeKinds
    <3>3. QED
      BY <2>3, <3>1, <3>2 DEF ToldTruly
  <2>4. CASE /\ call[c].pc = "wait" /\ promise[c] # Unset
             /\ call'[c].pc = "done" /\ call'[c].outcome = promise[c]
    <3>1. call'[c].target = call[c].target
      BY <2>4, Calling_Kept DEF EarlyPcs
    <3>2. /\ promise[c] \in {Result(c), Error("disconnected"), Error("stopped")}
          /\ promise[c] = Result(c) => ran[c] = <<call[c].target>>
      BY <2>4 DEF AnswerInv, PromiseKept
    <3>3. QED
      BY <1>1, <2>4, <3>1, <3>2, OutcomeKinds DEF ToldTruly
  <2>5. CASE call'[c].pc = "done" /\ call'[c].outcome = Error("timeout")
    BY <2>5, OutcomeKinds DEF ToldTruly
  <2>6. QED
    BY <2>2, <2>3, <2>4, <2>5, Calling_Outcome
<1>5. QED
  BY <1>2, <1>3, <1>4 DEF AnswerInv

(* Promises are set to the call's own result, or after the announcement.   *)
LEMMA Resolve_Answer ==
  ASSUME TypeOK, AnswerInv, NEW P, NEW v, Resolve(P, v),
         UNCHANGED <<call, ran>>, announced \subseteq announced',
         \A c \in Calls : (\E p \in P : p.call = c) =>
           \/ v = Result(c) /\ ran[c] = <<call[c].target>>
           \/ v = Error("disconnected")
                /\ <<"disconnected", call[c].target>> \in announced
           \/ v = Error("stopped")
  PROVE  AnswerInv'
<1>1. \A c \in Calls : ToldTruly(c)'
  BY DEF AnswerInv, ToldTruly
<1>2. ASSUME NEW c \in Calls
      PROVE  PromiseKept(c)'
  <2>1. promise'[c] = IF promise[c] = Unset /\ \E p \in P : p.call = c
                        THEN v ELSE promise[c]
    BY DEF Resolve
  <2>2. CASE promise'[c] = promise[c]
    BY <2>2 DEF AnswerInv, PromiseKept
  <2>3. CASE promise'[c] = v /\ \E p \in P : p.call = c
    BY <2>3, OutcomeKinds DEF PromiseKept
  <2>4. QED
    BY <2>1, <2>2, <2>3
<1>3. QED
  BY <1>1, <1>2 DEF AnswerInv

LEMMA Result_Answer ==
  ASSUME TypeOK, PendingInv, WireInv, AnswerInv, NEW s \in Sessions,
         HandleToolResult(s)
  PROVE  AnswerInv'
<1>1. PICK m \in Messages : m = Head(toServer[s])
  BY DEF HandleToolResult, TypeOK, WireTypes
<1>2. Answered(m)
  <2>1. toServer[s] \in Seq(Messages) /\ toServer[s] # <<>>
    BY DEF HandleToolResult, TypeOK, WireTypes
  <2>2. m = toServer[s][1] /\ 1 \in 1..Len(toServer[s])
    BY <1>1, <2>1
  <2>3. QED
    BY <2>2 DEF WireInv, AllAnswered
<1>3. /\ Resolve({p \in pending : p.tx = m.tx}, Result(m.call))
      /\ UNCHANGED <<call, ran, announced>>
  BY <1>1 DEF HandleToolResult, sessionVars
<1>4. ASSUME NEW p \in pending, p.tx = m.tx
      PROVE  p.call = m.call
  <2>1. p.call \in Calls /\ call[p.call].tx = p.tx
    BY DEF PendingInv, NoLeakedPending, TypeOK, RpcTypes, Entries
  <2>2. m.call \in Calls /\ m.tx \in Nat /\ call[m.call].tx = m.tx
    BY <1>2 DEF Messages, Answered
  <2>3. QED
    BY <1>4, <2>1, <2>2 DEF PendingInv, TxDiscipline
<1>5. QED
  BY <1>2, <1>3, <1>4, Resolve_Answer DEF Answered

LEMMA Next_Answer ==
  ASSUME TypeOK, SessionInv, PendingInv, RouteInv, WireInv, AnswerInv,
         [Next]_vars
  PROVE  AnswerInv'
<1>0. announced \subseteq announced'
  BY Next_History
<1>1. CASE UNCHANGED <<promise, call, ran>>
  BY <1>0, <1>1 DEF AnswerInv, PromiseKept, ToldTruly
<1>2. ASSUME NEW c \in Calls, Dispatch(c) \/ CallSteps(c)
      PROVE  AnswerInv'
  BY <1>2, Calling_Answer
<1>3. ASSUME NEW s \in Sessions,
             \/ Open(s) \/ HelloRegister(s) \/ HelloAnnounce(s) \/ HelloNotify(s)
             \/ CloseErase(s) \/ CloseAnnounce(s) \/ CloseNotify(s) \/ Drop(s)
      PROVE  UNCHANGED <<promise, call, ran>>
  BY <1>3 DEF Open, HelloRegister, HelloAnnounce, HelloNotify, CloseErase,
     CloseAnnounce, CloseNotify, Drop, rpcVars, wireVars
<1>4. ASSUME NEW s \in Sessions, HandleToolResult(s)
      PROVE  AnswerInv'
  BY <1>4, Result_Answer
<1>5. ASSUME NEW s \in Sessions, CloseFailPending(s)
      PROVE  AnswerInv'
  <2>1. /\ Resolve({p \in pending : p.session = s}, Error("disconnected"))
        /\ UNCHANGED <<call, ran>> /\ handler[s] = "failing"
    BY <1>5 DEF CloseFailPending, wireVars
  <2>2. ASSUME NEW p \in pending, p.session = s
        PROVE  call[p.call].target = s /\ name[s] # None
    <3>1. p.call \in Calls /\ call[p.call].target = s
      BY <2>2 DEF PendingInv, NoLeakedPending, TypeOK, RpcTypes, Entries
    <3>2. QED
      BY <3>1, ConstantsAssumption DEF RouteInv, RoutedByKey, Greeted
  <2>3. name[s] # None => <<"disconnected", s>> \in announced
    BY <2>1 DEF SessionInv, AnnouncedInTime
  <2>4. QED
    BY <1>0, <2>1, <2>2, <2>3, Resolve_Answer
<1>6. CASE StopDrain
  BY <1>0, <1>6, Resolve_Answer DEF StopDrain, wireVars
<1>7. ASSUME NEW s \in Sessions, EditorRun(s)
      PROVE  AnswerInv'
  <2>1. UNCHANGED <<promise, call>>
    BY <1>7 DEF EditorRun, rpcVars
  <2>2. PICK d \in Calls : ran[d] = <<>> /\ ran' = [ran EXCEPT ![d] = <<s>>]
    BY <1>7, Run_Wire
  <2>3. \A c \in Calls \ {d} : ran'[c] = ran[c]
    BY <2>2 DEF TypeOK, WireTypes
  <2>4. \A c \in Calls \ {d} : (PromiseKept(c) /\ ToldTruly(c))'
    BY <1>0, <2>1, <2>3 DEF AnswerInv, PromiseKept, ToldTruly
  <2>5. ran[d] # <<call[d].target>>
    BY <2>2
  <2>6. (PromiseKept(d) /\ ToldTruly(d))'
    BY <1>0, <2>1, <2>5 DEF AnswerInv, PromiseKept, ToldTruly
  <2>7. QED
    BY <2>4, <2>6 DEF AnswerInv
<1>8. ASSUME NEW w \in Waiters, WaitStart(w) \/ WaiterSteps(w) \/ WaitDeadline(w)
      PROVE  AnswerInv'
  BY <1>1, <1>8, Others_Keep DEF rpcVars, wireVars
<1>9. CASE SetActiveFind \/ SetActiveStore \/ StopBegin \/ StopNotify \/ StopServer
  BY <1>1, <1>9, Others_Keep DEF rpcVars, wireVars
<1>10. CASE UNCHANGED vars
  BY <1>1, <1>10 DEF vars, rpcVars, wireVars
<1>11. QED
  BY <1>1, <1>2, <1>3, <1>4, <1>5, <1>6, <1>7, <1>8, <1>9, <1>10
     DEF Next, HandlerSteps, StopSteps

(* Everything that is known of a call, from its key to its outcome.        *)
CallInv == SessionInv /\ PendingInv /\ RouteInv /\ WireInv /\ AnswerInv

LEMMA CallInvariant == Spec => [](TypeOK /\ CallInv)
<1>1. Init => AnswerInv
  BY OutcomeKinds DEF Init, AnswerInv, PromiseKept, ToldTruly
<1>2. TypeOK /\ SessionInv /\ PendingInv /\ RouteInv /\ WireInv /\ AnswerInv
        /\ [Next]_vars => AnswerInv'
  BY Next_Answer
<1>3. TypeOK /\ SessionInv /\ PendingInv /\ RouteInv /\ WireInv /\ AnswerInv
        => TypeOK /\ CallInv
  BY DEF CallInv
<1>4. QED
  BY <1>1, <1>2, <1>3, TypeCorrect, SessionInvariant, PendingInvariant,
     RouteInvariant, WireInvariant, PTL DEF Spec

LEMMA Singletons ==
  \A x : /\ Len(<<x>>) = 1 /\ <<x>>[1] = x /\ <<x>> # <<>>
        /\ Len(<<>>) = 0
  OBVIOUS

LEMMA DoneCalls ==
  ASSUME TypeOK, CallInv, NEW c \in Calls
  PROVE  /\ call[c].outcome.kind = "result" =>
              /\ call[c].outcome = Result(c)
              /\ ran[c] = <<call[c].target>> /\ call[c].target \in Sessions
         /\ call[c].outcome.kind \in Rejections => ran[c] = <<>>
<1>1. ToldTruly(c) /\ RanAtTarget(c)
  BY DEF CallInv, AnswerInv, WireInv
<1>2. ASSUME ran[c] = <<call[c].target>>
      PROVE  call[c].target \in Sessions
  <2>1. ran[c] \in Seq(Sessions)
    BY DEF TypeOK, WireTypes
  <2>2. Len(ran[c]) = 1 /\ ran[c][1] = call[c].target
    BY <1>2, Singletons
  <2>3. QED
    BY <2>1, <2>2
<1>3. QED
  BY <1>1, <1>2 DEF ToldTruly, RanAtTarget

(* A caller that is told a result is told its own, from the editor it was  *)
(* routed to, although handleToolResult compares tx ids alone.             *)
THEOREM ResultsAreOwn == Spec => []OwnResult
<1>1. TypeOK /\ CallInv => OwnResult
  <2> SUFFICES ASSUME TypeOK, CallInv, NEW c \in Calls,
                      call[c].outcome.kind = "result"
               PROVE  /\ call[c].outcome = Result(c)
                      /\ ran[c] = <<call[c].target>>
                      /\ call[c].key \in {None, call[c].target, name[call[c].target]}
    BY DEF OwnResult
  <2>1. /\ call[c].outcome = Result(c) /\ ran[c] = <<call[c].target>>
        /\ call[c].target # None
    BY DoneCalls, ConstantsAssumption
  <2>2. QED
    BY <2>1 DEF CallInv, RouteInv, RoutedByKey
<1>2. QED
  BY <1>1, CallInvariant, PTL

(* No tool runs twice for one call, and none for a call turned away before *)
(* it was sent (dispatchTool never resends).                               *)
THEOREM ToolsRunAtMostOnce == Spec => []RunsAtMostOnce
<1>1. TypeOK /\ CallInv => RunsAtMostOnce
  <2> SUFFICES ASSUME TypeOK, CallInv, NEW c \in Calls
               PROVE  /\ Len(ran[c]) <= 1
                      /\ call[c].outcome.kind \in Rejections => ran[c] = <<>>
    BY DEF RunsAtMostOnce
  <2>1. ran[c] \in {<<>>, <<call[c].target>>}
    BY DEF CallInv, WireInv, RanAtTarget
  <2>2. Len(ran[c]) <= 1
    <3>1. CASE ran[c] = <<>>
      BY <3>1
    <3>2. CASE ran[c] = <<call[c].target>>
      <4>1. Len(ran[c]) = 1
        BY <3>2, Singletons
      <4>2. QED
        BY <4>1
    <3>3. QED
      BY <2>1, <3>1, <3>2
  <2>3. QED
    BY <2>2, DoneCalls
<1>2. QED
  BY <1>1, CallInvariant, PTL

(* A call is failed for a lost editor only after its loss was published    *)
(* (the order of the Close branch of onClientMessage).                     *)
THEOREM LossAnnouncedFirst == Spec => []DisconnectAnnouncedFirst
<1>1. TypeOK /\ CallInv => DisconnectAnnouncedFirst
  BY DEF CallInv, AnswerInv, PromiseKept, DisconnectAnnouncedFirst
<1>2. QED
  BY <1>1, CallInvariant, PTL

-----------------------------------------------------------------------------
(* The bridge implements ToolCall.                                         *)

LEMMA Init_Contract == Init => Contract!Init
<1> SUFFICES ASSUME Init PROVE Contract!Init
  OBVIOUS
<1>1. ToldCaller = [c \in Calls |-> "none"]
  BY DEF Init, ToldCaller
<1>2. QED
  BY <1>1 DEF Init, Contract!Init

(* A call thread reports once: its own result, a rejection before anything *)
(* ran, or a failure.                                                      *)
LEMMA Calling_Contract ==
  ASSUME TypeOK, CallInv, NEW c \in Calls, Dispatch(c) \/ CallSteps(c)
  PROVE  Contract!Next \/ UNCHANGED <<ToldCaller, ran>>
<1>1. /\ UNCHANGED <<promise, ran>> /\ call[c].pc # "done"
      /\ \A d \in Calls \ {c} : call'[d] = call[d]
  BY Calling_Outcome
<1>2. ToldCaller[c] = "none"
  BY <1>1 DEF ToldCaller
<1>3. CASE call'[c].pc # "done"
  <2>1. ToldCaller' = ToldCaller
    BY <1>1, <1>3 DEF ToldCaller
  <2>2. QED
    BY <1>1, <2>1
<1>4. CASE call'[c].pc = "done"
  <2>1. ToldCaller' = [ToldCaller EXCEPT ![c] = call'[c].outcome.kind]
    BY <1>1, <1>4 DEF ToldCaller
  <2>2. CASE /\ call[c].pc \in EarlyPcs
             /\ \E k \in Rejections : call'[c].outcome = Error(k)
    <3>1. call'[c].outcome.kind \in Rejections
      BY <2>2, OutcomeKinds
    <3>2. ran[c] = <<>>
      BY <2>2 DEF CallInv, PendingInv, TxDiscipline, WireInv, RanAtTarget
    <3>3. Contract!TurnAway(c)
      BY <1>1, <1>2, <2>1, <3>1, <3>2 DEF Contract!TurnAway
    <3>4. QED
      BY <3>3 DEF Contract!Next
  <2>3. CASE promise[c] # Unset /\ call'[c].outcome = promise[c]
    <3>1. CASE promise[c] = Result(c)
      <4>1. ran[c] # <<>>
        BY <3>1, Singletons DEF CallInv, AnswerInv, PromiseKept
      <4>2. call'[c].outcome.kind = "result"
        BY <2>3, <3>1, OutcomeKinds
      <4>3. Contract!Answer(c)
        BY <1>1, <1>2, <2>1, <4>1, <4>2 DEF Contract!Answer
      <4>4. QED
        BY <4>3 DEF Contract!Next
    <3>2. CASE promise[c] \in {Error("disconnected"), Error("stopped")}
      <4>1. call'[c].outcome.kind \in Failures \ Rejections
        BY <2>3, <3>2, OutcomeKinds, FailureKinds
      <4>2. Contract!GiveUp(c)
        BY <1>1, <1>2, <2>1, <4>1 DEF Contract!GiveUp
      <4>3. QED
        BY <4>2 DEF Contract!Next
    <3>3. QED
      BY <2>3, <3>1, <3>2 DEF CallInv, AnswerInv, PromiseKept
  <2>4. CASE call'[c].outcome = Error("timeout")
    <3>1. call'[c].outcome.kind \in Failures \ Rejections
      BY <2>4, OutcomeKinds, FailureKinds
    <3>2. Contract!GiveUp(c)
      BY <1>1, <1>2, <2>1, <3>1 DEF Contract!GiveUp
    <3>3. QED
      BY <3>2 DEF Contract!Next
  <2>5. QED
    BY <1>4, <2>2, <2>3, <2>4, Calling_Outcome
<1>5. QED
  BY <1>3, <1>4

LEMMA Run_Contract ==
  ASSUME TypeOK, CallInv, NEW s \in Sessions, EditorRun(s)
  PROVE  Contract!Next
<1>1. PICK c \in Calls : /\ ran[c] = <<>> /\ call[c].tx # -1
                         /\ ran' = [ran EXCEPT ![c] = <<s>>]
  BY Run_Wire DEF CallInv
<1>2. ToldCaller' = ToldCaller
  BY DEF EditorRun, rpcVars, ToldCaller
<1>3. ToldCaller[c] \notin Rejections
  <2>1. call[c].outcome.kind \notin Rejections
    BY <1>1 DEF CallInv, AnswerInv, ToldTruly
  <2>2. QED
    BY <2>1, OutcomeKinds DEF ToldCaller
<1>4. Contract!Run(c, s)
  BY <1>1, <1>2, <1>3 DEF Contract!Run
<1>5. QED
  BY <1>4 DEF Contract!Next

LEMMA Next_Contract ==
  TypeOK /\ CallInv /\ [Next]_vars => [Contract!Next]_(Contract!vars)
<1> SUFFICES ASSUME TypeOK, CallInv, [Next]_vars
             PROVE  Contract!Next \/ UNCHANGED <<ToldCaller, ran>>
  BY DEF Contract!vars
<1>1. CASE UNCHANGED <<call, ran>>
  BY <1>1 DEF ToldCaller
<1>2. ASSUME NEW c \in Calls, Dispatch(c) \/ CallSteps(c)
      PROVE  Contract!Next \/ UNCHANGED <<ToldCaller, ran>>
  BY <1>2, Calling_Contract
<1>3. ASSUME NEW s \in Sessions,
             Open(s) \/ HelloRegister(s) \/ HandlerSteps(s) \/ Drop(s)
      PROVE  UNCHANGED <<call, ran>>
  <2>1. UNCHANGED ran
    BY <1>3 DEF Open, HelloRegister, HandlerSteps, HelloAnnounce, HelloNotify,
       HandleToolResult, CloseErase, CloseAnnounce, CloseFailPending,
       CloseNotify, Drop, wireVars
  <2>2. QED
    BY <1>3, <2>1, Others_Keep
<1>4. ASSUME NEW s \in Sessions, EditorRun(s)
      PROVE  Contract!Next
  BY <1>4, Run_Contract
<1>5. ASSUME NEW w \in Waiters, WaitStart(w) \/ WaiterSteps(w) \/ WaitDeadline(w)
      PROVE  UNCHANGED <<call, ran>>
  BY <1>5, Others_Keep DEF rpcVars, wireVars
<1>6. CASE SetActiveFind \/ SetActiveStore \/ StopBegin \/ StopSteps
  <2>1. UNCHANGED <<call, ran>>
    BY <1>6, Others_Keep DEF StopSteps, rpcVars, wireVars
  <2>2. QED
    BY <1>1, <2>1
<1>7. CASE UNCHANGED vars
  BY <1>1, <1>7 DEF vars, rpcVars, wireVars
<1>8. QED
  BY <1>1, <1>2, <1>3, <1>4, <1>5, <1>6, <1>7 DEF Next

(* Seen from its callers, the bridge is the remote tool call of ToolCall:  *)
(* dispatchTool end to end, over lost connections, timeouts and stop().    *)
THEOREM BridgeImplementsToolCall == Spec => ImplementsToolCall
<1>1. Init => Contract!Init
  BY Init_Contract
<1>2. TypeOK /\ CallInv /\ [Next]_vars => [Contract!Next]_(Contract!vars)
  BY Next_Contract
<1>3. QED
  BY <1>1, <1>2, CallInvariant, PTL DEF Spec, ImplementsToolCall, Contract!Spec

=============================================================================
