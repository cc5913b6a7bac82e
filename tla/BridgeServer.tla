---------------------------- MODULE BridgeServer ----------------------------
(***************************************************************************)
(* server/src/bridge/bridge_server.cpp: the WebSocket bridge between the   *)
(* MCP server and the editor plugins.                                      *)
(*                                                                         *)
(* Four kinds of threads meet here:                                        *)
(*   - callers of dispatchTool (MCP request threads and job threads), one  *)
(*     element of Calls per invocation;                                    *)
(*   - ixwebsocket connection threads, one per element of Sessions, that   *)
(*     run onClientMessage (Open, Hello, ToolResult, Close);               *)
(*   - callers of wait_for_editor, one element of Waiters per invocation;  *)
(*   - the thread that runs stop().                                        *)
(* Every action is one critical section, or one step between two critical  *)
(* sections, of one of those threads: a mutex is modelled by atomicity,    *)
(* except sessionsMu_ inside waitForSession (see MuFree).                  *)
(***************************************************************************)
EXTENDS Integers, Sequences, FiniteSets

CONSTANTS
  Calls,      \* invocations of dispatchTool
  Sessions,   \* connections (ConnectionState ids); a reconnect is a new one
  Names,      \* what a key may match: label, instance id, project, slot_id
  Waiters,    \* invocations of wait_for_editor
  Keys,       \* what callers pass as _editor, None when they omit it
  Stopping,   \* whether stop() is ever called (a bound on the model)
  None        \* the empty string / nullopt / nullptr

ASSUME ConstantsAssumption ==
  /\ Sessions \cap Names = {}
  /\ None \notin Calls \cup Sessions \cup Names
  /\ Keys \subseteq Names \cup Sessions \cup {None}
  /\ Stopping \in BOOLEAN

VARIABLES
  running,    \* running_
  stopPc,     \* where the thread in stop() is
  conn,       \* the TCP connection of each session
  handler,    \* where the connection thread of each session is
  name,       \* the identity each session announced in its hello
  sessions,   \* keys of sessions_
  active,     \* activeSessionId_
  setting,    \* the session set_active_editor resolved and is about to store
  pending,    \* pending_: records of tx id, session id and the promise's owner
  txCounter,  \* txCounter_
  promise,    \* the shared state behind each call's promise and future
  call,       \* the local state of each dispatchTool
  toEditor,   \* tool_call envelopes on the wire, per session
  toServer,   \* tool_result envelopes on the wire, per session
  ran,        \* history: the sessions whose editor ran each call's tool
  waiter,     \* the local state of each wait_for_editor
  announced,  \* history: lifecycle notifications published so far
  crashed     \* the process died on a use of a destroyed socket

sessionVars == <<conn, handler, name, sessions, announced>>
rpcVars     == <<pending, txCounter, promise, call>>
wireVars    == <<toEditor, toServer, ran>>
stopVars    == <<running, stopPc, crashed>>
activeVars  == <<active, setting>>
vars == <<sessionVars, rpcVars, wireVars, stopVars, activeVars, waiter>>

-----------------------------------------------------------------------------
(* What a dispatchTool can return. *)
Rejections == {"not_running", "no_match", "no_editor", "ambiguous", "gone"}
Failures   == Rejections \cup {"timeout", "disconnected", "stopped"}
Result(c)  == [kind |-> "result", of |-> c]
Error(k)   == [kind |-> k, of |-> None]
Unset      == Error("unset")
Outcomes   == {Result(c) : c \in Calls} \cup {Error(k) : k \in Failures}

Pcs        == {"idle", "resolve", "only", "lookup", "register", "send",
               "wait", "expire", "done"}
FlightPcs  == {"send", "wait", "expire"}
WaitPcs    == {"idle", "fast", "check", "parking", "parked", "expire", "done"}
HandlerPcs == {"none", "fresh", "announce", "notify", "ready",
               "goodbye", "failing", "leaving", "closed"}
StopPcs    == {"up", "stopping", "joining", "waking", "stopped"}
Messages   == [tx : Nat, call : Calls]
Entries    == [tx : Nat, session : Sessions, call : Calls]
CallRecords == [pc : Pcs, key : Keys \cup {None},
                target : Sessions \cup {None},
                tx : Nat \cup {-1}, outcome : Outcomes \cup {Unset}]
CallStates ==
  {r \in CallRecords :
     /\ r.pc \in {"lookup", "register"} \cup FlightPcs => r.target \in Sessions
     /\ r.pc \in FlightPcs => r.tx \in Nat}
WaitStates == [pc : WaitPcs, slot : Names \cup {None},
               found : Sessions \cup {None}]

SessionTypes ==
  /\ conn \in [Sessions -> {"new", "open", "dropped"}]
  /\ handler \in [Sessions -> HandlerPcs]
  /\ name \in [Sessions -> Names \cup {None}]
  /\ sessions \in SUBSET Sessions
  /\ announced \in SUBSET ({"connected", "disconnected"} \X Sessions)

RpcTypes ==
  /\ pending \in SUBSET Entries
  /\ txCounter \in Nat
  /\ promise \in [Calls -> Outcomes \cup {Unset}]
  /\ call \in [Calls -> CallStates]

WireTypes ==
  /\ toEditor \in [Sessions -> Seq(Messages)]
  /\ toServer \in [Sessions -> Seq(Messages)]
  /\ ran \in [Calls -> Seq(Sessions)]

StopTypes == running \in BOOLEAN /\ stopPc \in StopPcs /\ crashed \in BOOLEAN

ActiveTypes == active \in Sessions \cup {None} /\ setting \in Sessions \cup {None}

WaiterTypes == waiter \in [Waiters -> WaitStates]

TypeOK ==
  SessionTypes /\ RpcTypes /\ WireTypes /\ StopTypes /\ ActiveTypes /\ WaiterTypes

Init ==
  /\ running = TRUE /\ stopPc = "up" /\ crashed = FALSE
  /\ conn = [s \in Sessions |-> "new"]
  /\ handler = [s \in Sessions |-> "none"]
  /\ name = [s \in Sessions |-> None]
  /\ sessions = {} /\ announced = {}
  /\ active = None /\ setting = None
  /\ pending = {} /\ txCounter = 0
  /\ promise = [c \in Calls |-> Unset]
  /\ call = [c \in Calls |-> [pc |-> "idle", key |-> None, target |-> None,
                              tx |-> -1, outcome |-> Unset]]
  /\ toEditor = [s \in Sessions |-> <<>>]
  /\ toServer = [s \in Sessions |-> <<>>]
  /\ ran = [c \in Calls |-> <<>>]
  /\ waiter = [w \in Waiters |-> [pc |-> "idle", slot |-> None, found |-> None]]

-----------------------------------------------------------------------------
(* sessionsMu_ is free unless a waiter has evaluated its predicate and has *)
(* not yet blocked on the condition variable.                              *)
MuFree == \A w \in Waiters : waiter[w].pc # "parking"

(* findByIdOrLabel: the session id itself, else any session of that name   *)
(* (unordered_map iteration order picks among several).                    *)
FindByIdOrLabel(k) ==
  IF k \in sessions THEN {k} ELSE {s \in sessions : name[s] = k}

(* promise.set_value on the entries P of pending_. A second set_value      *)
(* throws future_error, which every caller swallows: the first value stays.*)
Resolve(P, v) ==
  promise' = [c \in Calls |-> IF promise[c] = Unset /\ \E p \in P : p.call = c
                                THEN v ELSE promise[c]]

(* sessionsCv_.notify_all() *)
Notified == [w \in Waiters |-> IF waiter[w].pc = "parked"
                                 THEN [waiter[w] EXCEPT !.pc = "check"]
                                 ELSE waiter[w]]

-----------------------------------------------------------------------------
(* dispatchTool, one thread per call. *)

Return(c, v) ==
  call' = [call EXCEPT ![c] = [@ EXCEPT !.pc = "done", !.outcome = v]]
Goto(c, pc)  == call' = [call EXCEPT ![c].pc = pc]
Target(c, s) ==
  call' = [call EXCEPT ![c] = [@ EXCEPT !.pc = "lookup", !.target = s]]

Dispatch(c) ==
  /\ call[c].pc = "idle"
  /\ \E k \in Keys :
       IF running
         THEN call' = [call EXCEPT ![c] = [@ EXCEPT !.pc = "resolve", !.key = k]]
         ELSE call' = [call EXCEPT ![c] = [@ EXCEPT !.pc = "done", !.key = k,
                                !.outcome = Error("not_running")]]
  /\ UNCHANGED <<sessionVars, pending, txCounter, promise, wireVars, stopVars,
                 activeVars, waiter>>

ResolveExplicit(c) ==
  /\ call[c].pc = "resolve" /\ call[c].key # None
  /\ MuFree
  /\ \/ \E s \in FindByIdOrLabel(call[c].key) : Target(c, s)
     \/ FindByIdOrLabel(call[c].key) = {} /\ Return(c, Error("no_match"))
  /\ UNCHANGED <<sessionVars, pending, txCounter, promise, wireVars, stopVars,
                 activeVars, waiter>>

ResolveActive(c) ==
  /\ call[c].pc = "resolve" /\ call[c].key = None
  /\ IF active # None THEN Target(c, active) ELSE Goto(c, "only")
  /\ UNCHANGED <<sessionVars, pending, txCounter, promise, wireVars, stopVars,
                 activeVars, waiter>>

ResolveOnly(c) ==
  /\ call[c].pc = "only"
  /\ MuFree
  /\ \/ sessions = {} /\ Return(c, Error("no_editor"))
     \/ \E s \in sessions : sessions = {s} /\ Target(c, s)
     \/ (\E s, t \in sessions : s # t) /\ Return(c, Error("ambiguous"))
  /\ UNCHANGED <<sessionVars, pending, txCounter, promise, wireVars, stopVars,
                 activeVars, waiter>>

(* Copies the raw socket pointer out of the session, under sessionsMu_. *)
LookupSocket(c) ==
  /\ call[c].pc = "lookup"
  /\ MuFree
  /\ IF call[c].target \in sessions THEN Goto(c, "register")
                                    ELSE Return(c, Error("gone"))
  /\ UNCHANGED <<sessionVars, pending, txCounter, promise, wireVars, stopVars,
                 activeVars, waiter>>

(* Mutant: the transaction counter is read but not advanced. *)
RegisterPending_SameTx(c) ==
  /\ call[c].pc = "register"
  /\ pending' = pending \cup
       {[tx |-> txCounter, session |-> call[c].target, call |-> c]}
  /\ call' = [call EXCEPT ![c] = [@ EXCEPT !.pc = "send", !.tx = txCounter]]
  /\ UNCHANGED <<sessionVars, txCounter, promise, wireVars, stopVars,
                 activeVars, waiter>>

(* nextTxId and the insertion into pending_, under pendingMu_. *)
RegisterPending(c) ==
  /\ call[c].pc = "register"
  /\ txCounter' = txCounter + 1
  /\ pending' = pending \cup
       {[tx |-> txCounter, session |-> call[c].target, call |-> c]}
  /\ call' = [call EXCEPT ![c] = [@ EXCEPT !.pc = "send", !.tx = txCounter]]
  /\ UNCHANGED <<sessionVars, promise, wireVars, stopVars, activeVars, waiter>>

(* The connection thread destroys the socket when its Close callback has   *)
(* returned. A send through the pointer after that is undefined: the       *)
(* message goes nowhere or the process dies.                               *)
SocketDestroyed(s) == handler[s] = "closed"

SendCall(c) ==
  LET s == call[c].target IN
  /\ call[c].pc = "send"
  /\ Goto(c, "wait")
  /\ toEditor' = IF conn[s] = "open"
                   THEN [toEditor EXCEPT ![s] =
                           Append(@, [tx |-> call[c].tx, call |-> c])]
                   ELSE toEditor
  /\ crashed' \in IF SocketDestroyed(s) THEN BOOLEAN ELSE {FALSE}
  /\ UNCHANGED <<sessionVars, pending, txCounter, promise, toServer, ran,
                 running, stopPc, activeVars, waiter>>

(* future.wait_for finds the value. *)
ReturnValue(c) ==
  /\ call[c].pc = "wait" /\ promise[c] # Unset
  /\ Return(c, promise[c])
  /\ UNCHANGED <<sessionVars, pending, txCounter, promise, wireVars, stopVars,
                 activeVars, waiter>>

(* Mutant: a call that times out is dispatched again. *)
Timeout_Retries(c) ==
  /\ call[c].pc = "wait" /\ promise[c] = Unset
  /\ Goto(c, "register")
  /\ UNCHANGED <<sessionVars, pending, txCounter, promise, wireVars, stopVars,
                 activeVars, waiter>>

(* future.wait_for gives up; pendingMu_ is not held yet. *)
Timeout(c) ==
  /\ call[c].pc = "wait" /\ promise[c] = Unset
  /\ Goto(c, "expire")
  /\ UNCHANGED <<sessionVars, pending, txCounter, promise, wireVars, stopVars,
                 activeVars, waiter>>

(* Mutant: a timed-out call leaves its entry behind. *)
ExpirePending_Leaks(c) ==
  /\ call[c].pc = "expire"
  /\ Return(c, Error("timeout"))
  /\ UNCHANGED <<sessionVars, pending, txCounter, promise, wireVars, stopVars,
                 activeVars, waiter>>

(* Mutant: the timed-out caller insists on finding its entry. *)
ExpirePending_Insists(c) ==
  /\ call[c].pc = "expire" /\ \E p \in pending : p.tx = call[c].tx
  /\ pending' = {p \in pending : p.tx # call[c].tx}
  /\ Return(c, Error("timeout"))
  /\ UNCHANGED <<sessionVars, txCounter, promise, wireVars, stopVars,
                 activeVars, waiter>>

(* pending_.erase(txId): whatever arrived in between is dropped. *)
ExpirePending(c) ==
  /\ call[c].pc = "expire"
  /\ pending' = {p \in pending : p.tx # call[c].tx}
  /\ Return(c, Error("timeout"))
  /\ UNCHANGED <<sessionVars, txCounter, promise, wireVars, stopVars,
                 activeVars, waiter>>

-----------------------------------------------------------------------------
(* onClientMessage, one connection thread per session. *)

Open(s) ==
  /\ conn[s] = "new" /\ stopPc \in {"up", "stopping"}
  /\ conn' = [conn EXCEPT ![s] = "open"]
  /\ handler' = [handler EXCEPT ![s] = "fresh"]
  /\ UNCHANGED <<name, sessions, announced, rpcVars, wireVars, stopVars,
                 activeVars, waiter>>

(* handleHello: sessions_[session_id] = s. *)
HelloRegister(s) ==
  /\ handler[s] = "fresh" /\ conn[s] = "open"
  /\ MuFree
  /\ \E n \in Names : name' = [name EXCEPT ![s] = n]
  /\ sessions' = sessions \cup {s}
  /\ handler' = [handler EXCEPT ![s] = "announce"]
  /\ UNCHANGED <<conn, announced, rpcVars, wireVars, stopVars, activeVars,
                 waiter>>

(* Mutant: the connection thread forgets to signal the waiters. *)
HelloAnnounce_NoSignal(s) ==
  /\ handler[s] = "announce"
  /\ announced' = announced \cup {<<"connected", s>>}
  /\ handler' = [handler EXCEPT ![s] = "ready"]
  /\ UNCHANGED <<conn, name, sessions, rpcVars, wireVars, stopVars,
                 activeVars, waiter>>

(* Mutant: the callback is skipped, the waiters are signalled. *)
HelloAnnounce_Skips(s) ==
  /\ handler[s] = "announce"
  /\ handler' = [handler EXCEPT ![s] = "notify"]
  /\ UNCHANGED <<conn, name, sessions, announced, rpcVars, wireVars, stopVars,
                 activeVars, waiter>>

(* cb("connected", s): main.cpp publishes an MCP notification. *)
HelloAnnounce(s) ==
  /\ handler[s] = "announce"
  /\ announced' = announced \cup {<<"connected", s>>}
  /\ handler' = [handler EXCEPT ![s] = "notify"]
  /\ UNCHANGED <<conn, name, sessions, rpcVars, wireVars, stopVars,
                 activeVars, waiter>>

(* Mutant: only the welcome is sent. *)
HelloNotify_Silent(s) ==
  /\ handler[s] = "notify"
  /\ handler' = [handler EXCEPT ![s] = "ready"]
  /\ UNCHANGED <<conn, name, sessions, announced, rpcVars, wireVars, stopVars,
                 activeVars, waiter>>

HelloNotify(s) ==
  /\ handler[s] = "notify"
  /\ waiter' = Notified
  /\ handler' = [handler EXCEPT ![s] = "ready"]
  /\ UNCHANGED <<conn, name, sessions, announced, rpcVars, wireVars, stopVars,
                 activeVars>>

(* handleToolResult looks at the tx id alone, never at the session. *)
HandleToolResult(s) ==
  /\ handler[s] = "ready" /\ conn[s] = "open" /\ toServer[s] # <<>>
  /\ LET m     == Head(toServer[s])
         match == {p \in pending : p.tx = m.tx}
     IN /\ toServer' = [toServer EXCEPT ![s] = Tail(@)]
        /\ Resolve(match, Result(m.call))
        /\ pending' = pending \ match
  /\ UNCHANGED <<sessionVars, txCounter, call, toEditor, ran, stopVars,
                 activeVars, waiter>>

(* Mutant: the session is erased before its snapshot is taken. *)
CloseErase_NoSnapshot(s) ==
  /\ handler[s] \in {"fresh", "ready"} /\ conn[s] = "dropped"
  /\ MuFree
  /\ sessions' = sessions \ {s}
  /\ handler' = [handler EXCEPT ![s] = "failing"]
  /\ UNCHANGED <<conn, name, announced, rpcVars, wireVars, stopVars,
                 activeVars, waiter>>

(* Close, first critical section: snapshot and erase. activeSessionId_     *)
(* keeps its value.                                                        *)
CloseErase(s) ==
  /\ handler[s] \in {"fresh", "ready"} /\ conn[s] = "dropped"
  /\ MuFree
  /\ sessions' = sessions \ {s}
  /\ handler' = [handler EXCEPT ![s] = IF s \in sessions THEN "goodbye"
                                                         ELSE "failing"]
  /\ UNCHANGED <<conn, name, announced, rpcVars, wireVars, stopVars,
                 activeVars, waiter>>

CloseAnnounce(s) ==
  /\ handler[s] = "goodbye"
  /\ announced' = announced \cup {<<"disconnected", s>>}
  /\ handler' = [handler EXCEPT ![s] = "failing"]
  /\ UNCHANGED <<conn, name, sessions, rpcVars, wireVars, stopVars,
                 activeVars, waiter>>

(* Mutant: entries are erased and their promises left unset. *)
CloseFailPending_Silent(s) ==
  /\ handler[s] = "failing"
  /\ pending' = {p \in pending : p.session # s}
  /\ handler' = [handler EXCEPT ![s] = "leaving"]
  /\ UNCHANGED <<conn, name, sessions, announced, promise, txCounter, call,
                 wireVars, stopVars, activeVars, waiter>>

(* Close, second critical section: fail every pending RPC of this session. *)
CloseFailPending(s) ==
  LET mine == {p \in pending : p.session = s} IN
  /\ handler[s] = "failing"
  /\ Resolve(mine, Error("disconnected"))
  /\ pending' = pending \ mine
  /\ handler' = [handler EXCEPT ![s] = "leaving"]
  /\ UNCHANGED <<conn, name, sessions, announced, txCounter, call, wireVars,
                 stopVars, activeVars, waiter>>

CloseNotify(s) ==
  /\ handler[s] = "leaving"
  /\ waiter' = Notified
  /\ handler' = [handler EXCEPT ![s] = "closed"]
  /\ UNCHANGED <<conn, name, sessions, announced, rpcVars, wireVars, stopVars,
                 activeVars>>

-----------------------------------------------------------------------------
(* The editor at the other end of a connection, and the network. *)

(* SageToolDispatch runs the tool on the game thread and answers with the  *)
(* same tx id, on whatever socket the plugin has when the tool returns:    *)
(* that of the call, none, or that of a reconnect made in the meantime.    *)
EditorRun(s) ==
  /\ toEditor[s] # <<>>
  /\ LET m == Head(toEditor[s])
         sockets == IF conn[s] = "open" THEN {s}
                    ELSE {t \in Sessions : conn[t] = "open"}
     IN /\ ran' = [ran EXCEPT ![m.call] = Append(@, s)]
        /\ \/ conn[s] # "open" /\ UNCHANGED toServer
           \/ \E t \in sockets :
                toServer' = [toServer EXCEPT ![t] = Append(@, m)]
  /\ toEditor' = [toEditor EXCEPT ![s] = Tail(@)]
  /\ UNCHANGED <<sessionVars, rpcVars, stopVars, activeVars, waiter>>

(* The connections S end. Each editor has received a prefix of what was    *)
(* sent (at most one envelope per call) and still runs it; its answers are *)
(* lost.                                                                   *)
Lose(S) ==
  /\ conn' = [s \in Sessions |-> IF s \in S THEN "dropped" ELSE conn[s]]
  /\ toServer' = [s \in Sessions |-> IF s \in S THEN <<>> ELSE toServer[s]]
  /\ \E keep \in [S -> 0..Cardinality(Calls)] :
       /\ \A s \in S : keep[s] <= Len(toEditor[s])
       /\ toEditor' = [s \in Sessions |-> IF s \in S
                         THEN SubSeq(toEditor[s], 1, keep[s])
                         ELSE toEditor[s]]

Drop(s) ==
  /\ conn[s] = "open"
  /\ Lose({s})
  /\ UNCHANGED <<handler, name, sessions, announced, rpcVars, ran, stopVars,
                 activeVars, waiter>>

-----------------------------------------------------------------------------
(* set_active_editor: findByIdOrLabel, then setActiveSession. *)

SetActiveFind ==
  /\ setting = None
  /\ MuFree
  /\ setting' \in sessions
  /\ UNCHANGED <<sessionVars, rpcVars, wireVars, stopVars, active, waiter>>

SetActiveStore ==
  /\ setting # None
  /\ active' = setting /\ setting' = None
  /\ UNCHANGED <<sessionVars, rpcVars, wireVars, stopVars, waiter>>

-----------------------------------------------------------------------------
(* wait_for_editor and waitForSession. *)

Matching(w) == {s \in sessions : waiter[w].slot \in {None, name[s]}}

Found(w, s) ==
  waiter' = [waiter EXCEPT ![w] = [@ EXCEPT !.pc = "done", !.found = s]]
WGoto(w, pc) == waiter' = [waiter EXCEPT ![w].pc = pc]

WaitStart(w) ==
  /\ waiter[w].pc = "idle"
  /\ \E n \in Names \cup {None} :
       waiter' = [waiter EXCEPT ![w] = [@ EXCEPT !.pc = "fast", !.slot = n]]
  /\ UNCHANGED <<sessionVars, rpcVars, wireVars, stopVars, activeVars>>

(* snapshotSessions before any blocking. *)
WaitFastPath(w) ==
  /\ waiter[w].pc = "fast"
  /\ MuFree
  /\ \/ \E s \in Matching(w) : Found(w, s)
     \/ Matching(w) = {} /\ WGoto(w, "check")
  /\ UNCHANGED <<sessionVars, rpcVars, wireVars, stopVars, activeVars>>

(* wait_for with a predicate: evaluated under sessionsMu_ before blocking, *)
(* after each notification and once more when the deadline has passed.     *)
(* Blocking does not happen in the same step as the evaluation, and keeps  *)
(* the mutex until it does.                                                *)
WaitCheck(w) ==
  /\ waiter[w].pc \in {"check", "expire"}
  /\ MuFree
  /\ \/ ~running /\ Found(w, None)
     \/ running /\ \E s \in Matching(w) : Found(w, s)
     \/ /\ running /\ Matching(w) = {}
        /\ IF waiter[w].pc = "expire" THEN Found(w, None)
                                      ELSE WGoto(w, "parking")
  /\ UNCHANGED <<sessionVars, rpcVars, wireVars, stopVars, activeVars>>

WaitPark(w) ==
  /\ waiter[w].pc = "parking"
  /\ WGoto(w, "parked")
  /\ UNCHANGED <<sessionVars, rpcVars, wireVars, stopVars, activeVars>>

WaitDeadline(w) ==
  /\ waiter[w].pc = "parked"
  /\ WGoto(w, "expire")
  /\ UNCHANGED <<sessionVars, rpcVars, wireVars, stopVars, activeVars>>

-----------------------------------------------------------------------------
(* stop(). *)

StopBegin ==
  /\ Stopping /\ running
  /\ running' = FALSE /\ stopPc' = "stopping"
  /\ UNCHANGED <<sessionVars, rpcVars, wireVars, crashed, activeVars, waiter>>

(* server_->stop() closes every connection ... *)
StopServer ==
  /\ stopPc = "stopping"
  /\ stopPc' = "joining"
  /\ Lose({s \in Sessions : conn[s] = "open"})
  /\ UNCHANGED <<handler, name, sessions, announced, rpcVars, ran, running,
                 crashed, activeVars, waiter>>

(* Mutant: pending_ is cleared and the callers are left waiting. *)
StopDrain_Silent ==
  /\ stopPc = "joining"
  /\ \A s \in Sessions : handler[s] \in {"none", "closed"}
  /\ pending' = {} /\ stopPc' = "waking"
  /\ UNCHANGED <<sessionVars, promise, txCounter, call, wireVars, running,
                 crashed, activeVars, waiter>>

(* Mutant: the callers are told and their entries stay. *)
StopDrain_Keeps ==
  /\ stopPc = "joining"
  /\ \A s \in Sessions : handler[s] \in {"none", "closed"}
  /\ Resolve(pending, Error("stopped")) /\ stopPc' = "waking"
  /\ UNCHANGED <<sessionVars, pending, txCounter, call, wireVars, running,
                 crashed, activeVars, waiter>>

(* ... and joins the connection threads; then pending_ is drained. *)
StopDrain ==
  /\ stopPc = "joining"
  /\ \A s \in Sessions : handler[s] \in {"none", "closed"}
  /\ Resolve(pending, Error("stopped"))
  /\ pending' = {}
  /\ stopPc' = "waking"
  /\ UNCHANGED <<sessionVars, txCounter, call, wireVars, running, crashed,
                 activeVars, waiter>>

(* notify_all, with neither running_ nor the notification under            *)
(* sessionsMu_.                                                            *)
StopNotify ==
  /\ stopPc = "waking"
  /\ waiter' = Notified
  /\ stopPc' = "stopped"
  /\ UNCHANGED <<sessionVars, rpcVars, wireVars, running, crashed, activeVars>>

-----------------------------------------------------------------------------
CallSteps(c) ==
  \/ ResolveExplicit(c) \/ ResolveActive(c) \/ ResolveOnly(c)
  \/ LookupSocket(c) \/ RegisterPending(c) \/ SendCall(c)
  \/ ReturnValue(c) \/ Timeout(c) \/ ExpirePending(c)

HandlerSteps(s) ==
  \/ HelloAnnounce(s) \/ HelloNotify(s) \/ HandleToolResult(s)
  \/ CloseErase(s) \/ CloseAnnounce(s) \/ CloseFailPending(s) \/ CloseNotify(s)

WaiterSteps(w) == WaitFastPath(w) \/ WaitCheck(w) \/ WaitPark(w)

StopSteps == StopServer \/ StopDrain \/ StopNotify

Next ==
  /\ ~crashed
  /\ \/ \E c \in Calls : Dispatch(c) \/ CallSteps(c)
     \/ \E s \in Sessions :
          \/ Open(s) \/ HelloRegister(s) \/ HandlerSteps(s)
          \/ EditorRun(s) \/ Drop(s)
     \/ \E w \in Waiters : WaitStart(w) \/ WaiterSteps(w) \/ WaitDeadline(w)
     \/ SetActiveFind \/ SetActiveStore
     \/ StopBegin \/ StopSteps

Spec == Init /\ [][Next]_vars

(* The scheduler runs every started thread, and wait_for's deadline is     *)
(* finite. Nothing obliges an agent to call, an editor to connect or to    *)
(* answer, a connection to break, the server to stop, or the deadline of a *)
(* wait_for_editor (minutes) to pass.                                      *)
Fairness ==
  /\ \A c \in Calls : WF_vars(~crashed /\ CallSteps(c))
  /\ \A s \in Sessions : WF_vars(~crashed /\ HandlerSteps(s))
  /\ \A w \in Waiters : WF_vars(~crashed /\ WaiterSteps(w))
  /\ WF_vars(~crashed /\ StopSteps)

FairSpec == Spec /\ Fairness
-----------------------------------------------------------------------------
(* Safety. *)

InFlight(c) == call[c].pc \in FlightPcs

(* A dispatched call is never orphaned: until its promise has a value, its *)
(* entry stays in pending_, so a result, a Close or stop() can still reach *)
(* it (dispatchTool, handleToolResult, the Close branch and stop()).       *)
NoOrphanedCall ==
  \A c \in Calls : InFlight(c) /\ promise[c] = Unset =>
    \E p \in pending : p.call = c /\ p.tx = call[c].tx

(* pending_ does not leak: every entry belongs to a call that still waits, *)
(* under the tx id and session that call uses (the erase after a timeout,  *)
(* a result, a Close or stop()).                                           *)
NoLeakedPending ==
  \A p \in pending :
    /\ InFlight(p.call) /\ promise[p.call] = Unset
    /\ p.tx = call[p.call].tx /\ p.session = call[p.call].target

(* Transaction ids are issued once, in order, and a call has none before   *)
(* it registers (nextTxId).                                                *)
EarlyPcs == {"idle", "resolve", "only", "lookup", "register"}
TxDiscipline ==
  /\ \A c \in Calls : call[c].tx < txCounter
  /\ \A c \in Calls : call[c].pc \in EarlyPcs =>
       call[c].tx = -1 /\ promise[c] = Unset
  /\ \A c, d \in Calls : call[c].tx = call[d].tx /\ call[c].tx # -1 => c = d

(* A call that returns a result returns the result of its own tool call,   *)
(* run by the editor it was routed to, which answers to the key the caller *)
(* gave: although handleToolResult matches on the tx id alone.             *)
OwnResult ==
  \A c \in Calls : call[c].outcome.kind = "result" =>
    LET s == call[c].target IN
    /\ call[c].outcome = Result(c)
    /\ ran[c] = <<s>>
    /\ call[c].key \in {None, s, name[s]}

(* A tool runs at most once per call, and never for a call that was turned *)
(* away before it was sent; after "timeout", "disconnected" or "stopped"   *)
(* it may have run or may still run (dispatchTool never resends).          *)
RunsAtMostOnce ==
  \A c \in Calls :
    /\ Len(ran[c]) <= 1
    /\ call[c].outcome.kind \in Rejections => ran[c] = <<>>

(* "disconnected" is published before any RPC of that session is failed    *)
(* (the order the Close branch promises its clients).                      *)
DisconnectAnnouncedFirst ==
  \A c \in Calls : promise[c] = Error("disconnected") =>
    <<"disconnected", call[c].target>> \in announced

(* A waiter blocked although a matching editor is registered has a wake-up *)
(* coming: the connection thread that registered the editor has not yet    *)
(* signalled (handleHello signals after the callback).                     *)
ParkedHasWaker ==
  \A w \in Waiters : waiter[w].pc = "parked" =>
    \A s \in Matching(w) : handler[s] \in {"announce", "notify"}

(* wait_for_editor names only editors whose connected notification is out  *)
(* or on its way: it may answer while the connection thread is about to    *)
(* publish it, and never for an editor nobody will hear of (handleHello    *)
(* inserts the session before it runs the callback).                       *)
FoundIsAnnounced ==
  \A w \in Waiters : waiter[w].found # None =>
    \/ <<"connected", waiter[w].found>> \in announced
    \/ handler[waiter[w].found] = "announce"

-----------------------------------------------------------------------------
(* The bridge implements the contract of a remote tool call: a caller that *)
(* has not returned has been told nothing (dispatchTool end to end).       *)
ToldCaller ==
  [c \in Calls |-> IF call[c].pc = "done" THEN call[c].outcome.kind ELSE "none"]

Contract == INSTANCE ToolCall WITH
  Editors <- Sessions, outcome <- ToldCaller

(* Every behaviour of the bridge is one of ToolCall.                       *)
ImplementsToolCall == Contract!Spec

-----------------------------------------------------------------------------
(* Liveness. *)

(* Every dispatchTool returns, whatever the editor, the connection and     *)
(* stop() do (future.wait_for has a deadline).                             *)
EveryCallReturns ==
  \A c \in Calls :
    call[c].pc # "idle" ~> call[c].pc = "done" \/ crashed

(* An editor announced as connected is announced as disconnected once its  *)
(* connection has gone (the Close branch).                                 *)
LossIsAnnounced ==
  \A s \in Sessions :
    conn[s] = "dropped" /\ s \in sessions
      ~> <<"disconnected", s>> \in announced \/ crashed

(* wait_for_editor returns without its deadline when a matching editor     *)
(* registers, or that editor leaves again.                                 *)
WaiterWoken ==
  \A w \in Waiters :
    waiter[w].pc = "parked" /\ Matching(w) # {}
      ~> waiter[w].pc # "parked" \/ crashed

-----------------------------------------------------------------------------
(* What comments and documents claim and the code does not keep. *)

(* "Fail-fast every pending RPC targeted at this session": no call waits   *)
(* on a session whose Close branch has finished (bridge_server.cpp).       *)
DisconnectFailsFast ==
  \A c \in Calls :
    call[c].pc = "wait" /\ handler[call[c].target] = "closed" =>
      promise[c] # Unset

(* The raw socket pointer is used only while the socket exists: "Cleared   *)
(* via close-callback erase before the underlying object is destroyed."    *)
PointerIsLive ==
  \A c \in Calls : call[c].pc = "send" => ~SocketDestroyed(call[c].target)
=============================================================================
