# Sage: TLA+ models of the bridge between MCP clients and Unreal editors

Sage is an MCP server (`server/`, C++) that lets an agent drive one or more
Unreal editors. Each editor runs a plugin (`plugin/`, C++) that connects to the
server over a WebSocket and executes the tool calls it receives. This directory
holds TLA+ models of that system: the server and the connection, where threads,
processes and timers meet, and the plugin's tools, where several hundred
handlers each have to keep one transaction policy. TLC checks them on small
instances, TLAPS proves theorems about them for every value of the constants.

Paths below are relative to the repository's root.

## 1. Inventory

| Component | State it keeps | Operations | Who it meets |
|---|---|---|---|
| Bridge server, `server/src/bridge/bridge_server.cpp` | `sessions_`, `pending_`, `activeSessionId_`, `running_`, `txCounter_`, two mutexes, one condition variable | `dispatchTool`, `onClientMessage` (open, hello, heartbeat, tool_result, event, close), `waitForSession`, `setActiveSession`, `stop` | MCP request threads and job threads call it; one ixwebsocket thread per connection calls back into it |
| Editor tools, `server/src/main.cpp` (`wait_for_editor`, `set_active_editor`, `get_active_editor`, `list_editors`) | none of their own | look up, then store or wait | the bridge server |
| Job manager, `server/src/main.cpp` (`class JobManager`) | `jobs_`, `order_`, a mutex, a condition variable | `startRemote`, `runRemote` (detached thread), `cancel`, `wait`, `list`, `logs` | calls `dispatchTool`; agents poll it |
| restart_editor, `server/src/tools/restart_orchestrator.cpp` | none between calls; editor processes, the plugin's files | save, build, kill, deploy, rebuild, relaunch, wait | bridge server, operating system, build tools |
| MCP server and transports, `server/src/mcp`, `server/src/transport` | tool registry filled at start-up | route a JSON-RPC request | agents |
| Plugin WebSocket client, `plugin/.../Connection/SageWebSocketClient.cpp`, with its owner in `SageBridgeSubsystem.cpp` | socket, ticker, reconnect and heartbeat timers, backoff | `Connect`, `Disconnect`, `Tick`, three socket callbacks | the server, over the network |
| Plugin tool dispatch, `plugin/.../SageToolDispatch.cpp` | handler table filled at start-up | `HandleEnvelope`, `InvokeHandler` | the WebSocket client, `bulk_modify`, the tools |
| Plugin transactions and bulk edits, `SageTransactionTools.cpp`, `SageMaterialGraphTools.cpp`, `SageBulkTools.cpp` | tables of open transactions | begin, commit, rollback, the same for a material, `bulk_modify` | the editor's one undo stack |
| Plugin domain tools, `plugin/.../Private/Tools` (about 70k lines) | the engine's: assets, actors, levels | one handler per tool | the engine, its undo buffer and its save state |
| npm installer, `npm/lib` | files on disk | download, copy, back up, rename | the file system |

### What is hard in each of them

* **Bridge server.** `dispatchTool` is seven critical sections with gaps: the
  connection may break, answer, or be joined by `stop()` in every gap. A call
  that is in `pending_` must be resolved by exactly one of a result, the Close
  branch, `stop()` or its own timeout; a call that is not must not be waited
  for. Results are matched by transaction id alone. The notifications promise
  an order. `wait_for_editor` is a condition variable whose signal is sent
  without the mutex.
* **Editor tools.** The active editor is an id stored by one tool and used by
  another, and nothing clears it when the editor goes.
* **Job manager.** The table is trimmed while jobs run, are cancelled and are
  waited for. Workers are detached: nobody joins them.
* **WebSocket client.** Three timers on an uneven tick; a lost way back to the
  server would strand an editor silently.
* **restart_editor.** Steps with side effects outside the process, minutes
  apart and without a lock: what one step looked up is stale for the next, and
  each can fail after the previous one succeeded.
* **Transactions.** Three tools open levels of one stack that only knows "the
  innermost one".
* **Domain tools.** Undo, failure, PIE, dry runs and saving are a policy
  (ADR-006) that each of some 400 handlers implements by hand, by the order in
  which it checks, opens a scope, calls `Modify`, changes, cancels and marks.

The hazards, each at its line with the properties that cover it, are the
`hazards` of `PROJECT.json`.

## 2. Modules

| Module | Models | Instance for TLC | Proofs |
|---|---|---|---|
| `BridgeServer` | the bridge server, the editor tools, the editor's `HandleEnvelope` and the connections between them | `MCBridgeServer` | `BridgeServer_proofs`, `BridgeCalls_proofs` |
| `ToolCall` | the contract of one remote tool call: abstract, implemented by `BridgeServer` | through `BridgeServer` | `BridgeCalls_proofs` |
| `JobManager` | starting, running, trimming, cancelling and waiting for jobs | `MCJobManager` | `JobManager_proofs` |
| `RestartEditor` | the restart orchestrator among editors, connections and users | `MCRestartEditor` | `RestartEditor_proofs` |
| `WebSocketClient` | the plugin's client and its owner | `MCWebSocketClient` | `WebSocketClient_proofs` |
| `EditorTransactions` | transactions that outlive or enclose a tool call | `MCEditorTransactions` | `EditorTransactions_proofs` |
| `ToolSteps` | the vocabulary of the tool programs | | |
| `AITools`, `ActorTools`, `AssetTools`, `AssetAdvancedTools`, `LevelTools`, `WidgetTools`, `MaterialTools`, `BlueprintTools`, `NiagaraTools`, `AnimationAssetTools`, `AnimationGraphTools`, `RetargetTools` | every mutating handler of the plugin as a set of programs | | |
| `EditorToolset` | the union of them, by registering function | `MCEditorTools` | |
| `EditorTools` | the machine that runs a program, alone or inside `bulk_modify`, with PIE, undo, saving and level changes around it | `MCEditorTools` | `EditorTools_proofs` |

### BridgeServer

One action is one critical section, or the code between two of them. So
`dispatchTool` is the chain `Dispatch` (the `running_` check), `ResolveExplicit`,
`ResolveActive` or `ResolveOnly`, `LookupSocket` (the raw pointer is copied
under `sessionsMu_`), `RegisterPending` (`nextTxId` and the insertion),
`SendCall`, then `ReturnValue`, or `Timeout` followed by `ExpirePending` under
`pendingMu_`. The Close branch is four steps: `CloseErase`, `CloseAnnounce`,
`CloseFailPending`, `CloseNotify`. `handleHello` is three: `HelloRegister`,
`HelloAnnounce`, `HelloNotify`. `stop()` is `StopBegin`, `StopServer` (ends the
connections), `StopDrain` (after every connection thread has ended),
`StopNotify`.

* `pending` holds records of transaction id, session and owner; `promise[c]` is
  the shared state of the call's promise and future. Setting a promise twice
  throws in the code and every caller swallows it, so the first value stays.
* A mutex is atomicity, with one exception. A waiter that has evaluated its
  predicate holds `sessionsMu_` until it blocks; `MuFree` keeps every other
  section that takes this mutex out of that gap. `stop()` does not take it.
* The network keeps messages of one connection in order. A connection can end
  at any time: the editor keeps a prefix of what was sent and runs it, its
  answers are lost. A new connection of the same editor is a new element of
  `Sessions`. A late answer goes out on whatever connection the plugin has by
  then, so it may arrive over another session.
* Sending through the pointer of a destroyed socket is undefined behaviour:
  the message is lost or the process dies (`crashed`, after which nothing
  happens).
* `Names` stands for everything a key can match besides a session id: label,
  instance id, project. When several sessions match, iteration order of the
  `unordered_map` decides, so the model lets any of them be chosen.

Not in the model because they change no state the properties look at: plugin
events, malformed messages, heartbeats (they write `last_heartbeat`, which
nothing reads), a second hello on one connection.

### ToolCall

Two variables: what the caller was told and which editors ran the tool. A call
gets one outcome; its tool runs at most once; a result is reported only after
it ran; a rejected call never runs; a call that failed otherwise may have run
or may still run. `BridgeServer!ImplementsToolCall` maps a call that has not
returned to `"none"` and checks that every step is a step of this contract or
leaves it unchanged.

### JobManager

`jobs_` and `order_` are guarded by one mutex, so an action is one critical
section. `Start` is `createQueuedRecord`, its `trimLocked` and the thread's
creation; `ReadJob`, three `SetState` steps and `Finish` are the worker;
`WaitEnter`, `WaitRecheck`, `WaitDeadline` and `WaitLate` are `wait()`.
`Trimmed` and `Popped` say what the loop of `trimLocked` leaves of the deque
without writing the loop. What a worker does while it waits for the editor is
`BridgeServer`; here it returns with any verdict (`Finish`).

### RestartEditor

One action per step of the tool (`Begin`, `Save`, `Build`, `Kill`, `Deploy`,
`DeployRest`, `Rebuild`, `Relaunch`, `Wait`), beside editors that connect, lose
their connection, are edited and crash (`Connect`, `Disconnect`, `Edit`,
`Crash`) and `set_active_editor` (`SetActive`). A request that leaves a step out
is a step that does nothing. `Begin` resolves its target as the code does: by
slot any session of it, else the active one if it is connected, else the only
one; `Save` goes where `dispatchTool` without a target goes (`Routed`), which is
not the same. The deployment is two actions, because descriptor, binaries and
sources are replaced one after the other: in between the plugin is `mixed`. The
operating system does not tell a process from another one that got its pid; the
model does not reuse pids. `Begin` reads the bridge under several locks; the
model reads it at once. `Concurrent` says whether calls may overlap: over HTTP
they may, over stdio the server answers one line before it reads the next.

### WebSocketClient

Everything is on the game thread, so an action is one callback, one tick or one
call of the subsystem. `untilReconnect`, `untilHeartbeat` and `delay` are the
timers in whole seconds; `Tick` subtracts any number of seconds up to
`MaxDelta`. A socket is `connecting` (somebody listens), `refused` (nobody
does), `open`, or `closed` (it has reported its end). `silence` is a history
variable, the seconds since the last hello or heartbeat. The subsystem's
`Reconnect` and `Deinitialize` drop the old client; the callbacks of its socket
are bound weakly, so they cannot arrive any more. `auto_reconnect` is always
true: nothing in the plugin sets it.

### EditorTransactions

`levels` is the transactor's stack with the opener of each level; `index` is
`GetActiveTransactions`, `mats` is `MatTransactions`, `bulk` the scope of a
running `bulk_modify`. Handlers run one at a time on the game thread, so an
action is a whole handler; the operations of a `bulk_modify` are handlers again,
so `BulkBegin` and `BulkEnd` are separate steps. `mat.begin_transaction` first
sweeps the entries of deleted materials, whose scopes end a level each, whichever
is innermost. `mixed` and `undone` are history: whether transactions of
different kinds were open at the same time, and whether levels were cancelled.

### ToolSteps and the tool modules

What the policy's properties need to know of a handler is the order of a few
kinds of steps, so a handler is written as the sequence of them that its source
goes through, one sequence for each branch that differs:

| Step | In the source |
|---|---|
| `Pie` | `RejectIfPie` |
| `Reject`, `Already`, `Dry`, `Confirm` | a check that returns an error; a success without work; a dry run; an error unless confirmed |
| `Open`, `Close` | `FScopedTransaction` and the end of its block |
| `Record`, `RecordPart` | `Modify()` on the objects that the handler means to change; on another one that it reaches from them |
| `Edit`, `EditPart` | a change to those objects; to that other one |
| `Create`, `Destroy` | a new asset or actor; one less |
| `Abort`, `Withdraw` | `Tx.Cancel()` with an error, with a success, or not taken |
| `Dirty` | `MarkPackageDirty`, `MarkBlueprintAsModified` and the like |
| `Save`, `SaveNow` | saving on request, unasked |

The conventions (one step for a stretch of like steps, a loop as one or two
rounds, a refusal and a change that fails without an effect as `Reject, Edit`)
are in `ToolSteps`. A handler that calls another function which changes
something contains that function's programs (`\o x \o`).

`Modify` takes a snapshot of one object and of none of its parts, so it matters
which object a step is about. `move_widget` passes the blueprint, the tree, the
old and the new parent to `Modify`; `add_widget` passes the first two and then
calls `AddChild` on a panel (`EditPart` without `RecordPart`). The same shape is
in the behavior tree and EQS tools (the tree, then a node or an option), the
Niagara collection tools (the collection, then the store of its default
instance), the keyframe tools (the sequence, then its data model or a channel)
and a few more. What an engine function records by itself is not visible in this
repository. Of the libraries whose purpose is to be called by an editor
(Blueprint, Kismet, graph and pin, material editing, control rig and animation
modifier interfaces, a data controller that may transact) it is assumed that they
record what they change; of any other function it is not.

### EditorTools

`CheckPie` ... `Finish` run the current program from one step to the next; every
check may fail or pass. `done` is the set of its changes that are in effect.
`Call(p)` is `InvokeHandler`, by an agent or as an operation of `bulk_modify`
(`BeginBulk`, `AbortBulk`, `CommitBulk`). Between calls: PIE starts and ends, the
user undoes, `save_assets`, `save_level`, `discard_changes` and `level.load`
happen. `dirty` is the package's flag and `unsaved` whether memory and disk
differ: the tools set the first, and the saves go by it. What the engine's
transactor does is stated once, in `Opened`, `Recorded`, `Reverted` and
`UndoneBy`: a scope inside another joins it; undo and cancel put back the
recorded objects, each edit by the `Modify` of its own object (`RecordOf`), and
neither delete what was created nor restore what was destroyed. That
`FScopedTransaction::Cancel` puts anything back is what ADR-006 and
`docs/engineering/transactions.md` rely on; the model makes it the constant
`CancelReverts`, and the runs and `BulkIsAtomic` take it to be true.

## 3. Runs

| Run | Instance | Question |
|---|---|---|
| `bridge_dispatch` | 2 calls, 2 sessions, 1 name, no stop | can any interleaving of two calls and two connections lose, leak, cross or repeat a call, or fail it before the disconnect is announced? |
| `bridge_stop` | 2 calls, 1 session, stop, fairness | does `stop()` lose or leak a call, does the whole implement `ToolCall`, do calls return and losses get announced? |
| `bridge_wait` | 1 waiter, 2 sessions, 2 names, stop, fairness | can a waiter sleep beside the editor it waits for, or be given one that nobody announces? |
| `jobs` | 3 starts, table of 1, 1 waiter, fairness | do table, order and threads agree, is a verdict final, and is a waiter released by the end of the job and only by it? |
| `client` | delays 1 and 5, heartbeat 4, ticks of up to 3, fairness | is there always a way back, within the settings? |
| `restart` | 2 calls in turn, 2 projects, 3 processes, 2 connections | does a restart ever deploy under a running editor, launch over half a plugin, leave two editors of one project, or return the editor it killed? |
| `transactions` | 3 tx ids, 2 materials, 5 levels | do the tables of the three tools and the transactor's levels stay in step? |
| `tools` | every mutating tool of the plugin | do the tools keep the transaction policy, alone and inside `bulk_modify`, but for those named? |

Why the bounds suffice. Two calls are the least that can be confused with each
other, and the only shared resources of calls are `txCounter_` and `pending_`,
whose entries are independent; two sessions are a connection and its
successor, or two editors, and the code never relates three. The job table is
trimmed at two jobs instead of 200, so three starts exercise popping a finished
job, rotating a running one, and both together. In the client the values keep
the ratios that matter: the delay passes 1, 2, 4 and the cap of 5, the
heartbeat interval is longer and shorter than a run of ticks. A restart needs
the editor it kills, the one it launches and a bystander; two connections are
the old and the new one, or the target's and the bystander's. Three levels of
`tx.begin` are an outer, a middle and an inner one. The tools run on one
package and one call at a time, which is all the policy speaks about; the
programs are all of them, not a sample. What the bounds leave open, the proofs
of section 5 settle for the properties they cover.

`CHECK_DEADLOCK FALSE` is set in the bridge, job, restart and transaction runs:
the calls, connections, jobs, processes and ids of an instance are finite, so it
comes to rest when all are used up. `SYMMETRY` is used in runs without liveness
only. `Stopping` (is `stop()` ever called), `MaxStarts`, `MaxProcs`,
`MaxSessions` and `MaxLevels` are bounds; everything else is finite by
construction.

### What the properties say

Bridge. `NoOrphanedCall`: a dispatched call whose promise has no value has its
entry in `pending_`. `NoLeakedPending`: every entry belongs to a call that
still waits, under its own id and session. Together they are why exactly one
of result, Close, stop and timeout ends a call. `OwnResult`: a call that
returns a result returns its own, from the editor it was routed to, though the
answer may arrive over another session. `FoundIsAnnounced`: the editor that
`wait_for_editor` names is announced, or its announcement is the next thing its
connection thread does. `RunsAtMostOnce`, `DisconnectAnnouncedFirst`,
`ParkedHasWaker`, and the liveness properties `EveryCallReturns`,
`LossIsAnnounced`, `WaiterWoken` are explained where they are
defined.

Jobs. `OrderMatchesJobs`, `RunningIsKept`, `TerminalIffEnded`, `VerdictIsFinal`,
`WaitReportsEnded`, `WaiterReleased`.

Client. `NeverStranded`: a client that wants a connection has a socket that will
report back, or a running ticker and a reconnect timer. `BackoffBounded`,
`HeartbeatTimely`, `RetryFromInitial`, `Reconnects`.

Restart. `TargetDownForDeploy` and `ReturnsAnotherEditor` hold also for calls that
overlap: the run has calls in turn only, the theorems of section 5 have both.
`RelaunchedOverWholePlugin` and `OneEditorPerSlot` are about calls that do not:
two restarts of one project at the same time break both, and nothing in the
server keeps them apart. `OneEditorPerSlot` excludes a call whose target was
already dead when it came to the kill: the code counts that as killed, and by
then somebody else may have started a new editor. `ReturnsAnotherEditor`
excludes an old editor that has connected again in the meantime: the wait only
excludes the old session id. `SaveReachesTarget`, which fails, is about the
whole path from the save step to the kill: what was unsaved in the target when the
save reported success does not die with it.

Transactions. `EveryLevelHasCloser`, `IndexIsOwnLevel`, `OuterLevelsStay` and
`CommitsOwnLevelUnmixed` hold while the kinds are not mixed (`EveryLevelHasCloser`
also when they are, until something is rolled back). When they are mixed, the
LIFO guard of `tx.commit` does not see the level of a material or of
`bulk_modify` above its own, and closes that one.

Tools. `FailureLeavesNothing`, `UndoTakesCallBack`, `NothingDuringPie`,
`DryRunChangesNothing`, `DestroysOnlyConfirmed`, `NoSilentLoss` and `BulkAtomic`
are the rules of ADR-006, each with the tools that do not keep it named in
`MCEditorTools`: `MCPartialOnError`, `MCUnrecorded`, `MCSeveralSteps`,
`MCPieUnchecked`, `MCUnconfirmed`, `MCUnmarked`, `MCUnmodified`. The
names were compared, tool by tool, with the disciplines of section 5 evaluated on
the programs: a set names a tool when one of its programs breaks the discipline
of that rule, and no other tool. That is as exact as the programs are: a tool
whose edit goes through one of the engine's libraries named in `ToolSteps` is not
listed, because the library is taken to call `Modify`, and one that calls a plain
function of an object is, even should that function call `Modify` itself. The
sets are the list a maintainer would work through, and a new tool that breaks a
rule without being listed fails the run.

### Fairness

* Threads that can take a step take one: weak fairness for each call, each
  connection thread, each waiter, `stop()`, each job worker. This is the
  operating system's scheduler. Mutexes are held for a bounded time.
* `future.wait_for` has a deadline (`EveryCallReturns` needs it), so `Timeout`
  belongs to the fair steps of a call. The deadlines of `wait_for_editor` and
  `jobs.wait` are minutes; they are not fair, so that `WaiterWoken` and
  `WaiterReleased` hold because of the signal and not because of the clock.
* The game thread ticks, and a socket reports the end of an attempt or of a
  connection. Nothing obliges a server to start or to stay.
* No fairness for agents, for editors (connecting, answering) or for
  connections breaking. The restart, transaction and tool models have no
  liveness properties: a step of them may take as long as a build does.

## 4. Disagreements between the code and its comments

Each of these is a run that TLC ends with a counterexample.

| Run | Claim | What happens |
|---|---|---|
| `bridge_failfast` | "Fail-fast every pending RPC targeted at this session" | a call registers after the Close branch has walked `pending_`; it sits out its timeout |
| `bridge_pointer` | "Cleared via close-callback erase before the underlying object is destroyed" | `dispatchTool` has copied the pointer before the erase and uses it after |
| `restart_save` | "Save dirty assets -> ... -> terminate editor" | the save has no target; with another editor active it saves that one and reports success, and the kill then destroys the work that was unsaved in the target |
| `tools_failure` | "Any exception or validation failure during transaction execution triggers `Cancel()`" | `niagara.upsert_user_parameter` adds the parameter, refuses the value, and answers with an error without cancelling; the other tools of `MCPartialOnError` do the like |

Seen while modelling and not kept as runs: `stop()` writes `running_` and
notifies without `sessionsMu_`, so a waiter between its check and its wait
misses the wake-up; `activeSessionId_` survives its session, so a call without
`_editor` fails although the schema says the only connected editor is used; the
fast path of `wait_for_editor` can answer before the connected notification is
out; `jobs.wait` throws `std::out_of_range` when the job was trimmed while it
was blocked; a call can register after `stop()` has drained `pending_`;
`setState` overwrites `cancel_requested`; `trimLocked` moves an unfinished job
to the back of `order_`, where `list` reads the newest; a full job log is
renumbered under the cursor of a client that has caught up; `tx.commit` closes
another kind's level when kinds are mixed; `runShell` waits for a build without
a limit; `save_level` and `save_assets` without paths skip, and report as saved,
a package that a tool has changed without marking it.

## 5. Proofs

Type correctness is proved rather than run, as the first theorem of each
component's proofs. Every safety invariant, action property and refinement that
a passing run checks is also a theorem here.

`BridgeServer_proofs`, for any sets of calls, sessions, names and waiters:

* `TypeCorrect`: `Spec => []TypeOK`. It says more than a list of types: a call
  between lookup and return has a target, and one in flight a transaction id.
* `CallsStayReachable`, `PendingDoesNotLeak`: the two invariants above.

Neither invariant is inductive. The step that erases an entry does it by
transaction id, so both need that ids are not shared: `TxDiscipline` says that
every id given out is below `txCounter`, that two calls never share one, and
that a call which has not registered has neither an id nor a value. The
inductive invariant is `TypeOK`, `TxDiscipline` and the two invariants. The
proof has one lemma per group of actions: those that touch neither calls nor
`pending`, the steps of `dispatchTool`, the steps of the connection threads and
of `stop()`. The only assumption is `ConstantsAssumption` (session ids, names
and `None` are distinct).

`BridgeCalls_proofs` extends it with what a caller, a waiter and a listener are
told, under the same assumption:

* `FoundEditorsAreAnnounced`, `ParkedWaitersAreWoken`: whoever remembers a
  session (the active pointer, a waiter, a call) remembers one that said hello,
  and its announcement came before any connection thread could offer it
  (`SessionInv`); a waiter that is parked while an editor matches has a
  notification still to come, because the registration it missed has not yet
  reached `notify_all` (`WakerInv`).
* `ResultsAreOwn`, `ToolsRunAtMostOnce`, `LossAnnouncedFirst`: a result is
  matched to its call by `tx_id` alone, and nothing in `handleMessage` asks which
  session it came from. That this is enough needs the whole path of an envelope:
  a call is routed to a session that its key names (`RouteInv`); its envelope is
  on its way at most once, to the call's own session, under the call's own id,
  and a tool that has run has run there (`WireInv`); the promise holds that
  tool's result or the error of a loss that is announced, and the caller is told
  what the promise held (`AnswerInv`). `CallInv` is
  the conjunction of these with the invariant of `BridgeServer_proofs`.
* `BridgeImplementsToolCall`: the refinement of `ToolCall`. Under `CallInv` each
  step of the bridge is, through the mapping of `BridgeServer!Contract`, a step of
  the contract or a stutter: one lemma per group of actions.

`JobManager_proofs`, for any size of the table, any number of jobs and any
waiters: `JobTypes`, `OrderListsEachJobOnce`, `JobsOutlastTheirThreads`,
`JobsEndWithTheirThreads`, `VerdictsAreFinal`, `WaitsReportTheEnd`. The heart is what `trimLocked` leaves
of the deque: lemmas about `Popped` and `Trimmed` show that it keeps every
unfinished job, repeats none and drops only terminal ones. The inductive
invariant is these properties together, and that a job is kept, and has a
thread, no sooner than it is born. The only assumption is `BoundsAssumption`.

`WebSocketClient_proofs`, for any positive settings and any bound on the time
between ticks: `ClientTypes`, `ClientNeverStranded`, `ClientBackoffBounded`,
`ClientHeartbeatTimely`, `ClientRetriesFromInitial`. The invariant adds what the
callbacks rely on: while the socket is open the delay is the initial one and
heartbeat timer and silence add up to the interval; while no connection is
wanted there is neither socket nor ticker; the delay never exceeds the larger
of the two settings. That a maximum below the initial delay is harmless is part
of the theorem. The only assumption is `SettingsAssumption`. A heartbeat
interval of 0 disables heartbeats in the code and is excluded.

`EditorTools_proofs`, for any set of programs: `ToolTypes`, and for each rule of
the policy the discipline of a single program that is enough for it, whatever
calls, bulk edits, undos, saves and PIE sessions surround it. `FailuresAreClean`:
every plain refusal comes before the first change, and every cancellation after
a change is in a scope with a snapshot of it. `OneUndoIsEnough`: every edit is
recorded, by a `Modify` of the very object it changes, and all are in one scope.
`BulkIsAtomic`: every edit comes after a `Modify` of the very object it changes,
and `CancelReverts` holds.
`PieIsLeftAlone`, `DestructionIsConfirmed`: a change comes after the check.
`DryRunsAreDry`: the dry-run reply comes before the first change. The disciplines
are the theorems' assumptions; they can be read off a handler, and TLC has
evaluated them to true for all programs of the plugin with the exceptions named
in `MCEditorTools`. So the rule for a tool that is written tomorrow needs no
state space: check its own order of steps. (To evaluate them again: a scratch
module that extends `EditorTools_proofs` and `MCEditorTools` and assumes the
disciplines, under the constants of `Tools.cfg`.)

`NothingIsLostSilently` is the rule about the dirty flag. A tool may mark the
package after its edit, or before it when nothing saves in between, as long as
no exit leaves an edit unmarked (`MarksItsEdits`); the tools of `Unmarked`, which
never mark, must at least not edit after their own save (`SavesLast`), and are
exempt until the next one. The invariant follows a package through both kinds:
what is changed and clean is owed a mark by the program that is running, or was
changed by an exempt tool and not saved since.

`RestartEditor_proofs`, for any editors, projects and users: `TypeCorrect`,
`DeploysOverDeadTarget`, `ReturnedEditorIsNew`, for calls that overlap in any
way; `RelaunchesWholePlugin` and `OneEditorOfASlot` for calls that are served one
after the other (`~Concurrent`, the stdio loop and `Restart.cfg`). The invariant
ties each stage of `runRestart` to the process it resolved at the start: from
deploy on that process is dead; before the kill the call has found no other
editor; until a new session of the slot appears, the only session it can see is
the one it resolved. The two theorems about single calls add that between kill
and relaunch no editor of the project runs and that the plugin on disk is the one
this call deployed (`SoloInv`). Two overlapping restarts of one project can break
both, which is why the hypothesis is there. The only assumption is
`RestartAssumption`.

`EditorTransactions_proofs`, for any sets of transactions, tools and materials:
`TypeCorrect`, `LevelsHaveClosers`, `IndexesAreOwn`, `CommitsCloseOwnLevel`,
`OuterLevelsSurvive`. `EveryLevelHasCloser` compares the number of open levels
with those who will close one, so its proof is an argument about cardinalities:
each action opens a level with a holder or closes one with its holder. The other
three are about histories that do not mix the kinds (`~mixed`: no material's
level beside another one, no operation of a bulk edit that opens or closes a
transaction), as the runs check them; they need the shape of the stack
(`Stacked`): each registered transaction sits at the index it was given, an
active bulk edit is on top, every level belongs to somebody, and a material
editor's level is alone. The only assumption is `TransactionsAssumption`.

Only model-checked: liveness (`EveryCallReturns`, `LossIsAnnounced`,
`WaiterWoken`, `WaiterReleased`, `Reconnects`), which the prover
does not support; and that the programs of the tool modules have the
disciplines, which is a fact about finite tables and evaluated by TLC.

## 6. Not modelled, and the plan

Not modelled:

* transports and request routing (no state between requests), the tool registry,
  schemas and local tools (tables and file searches), the crash handler, the
  installer's file operations;
* process teardown, and a signal handler that interrupts a lock holder;
* the server's claim to prune silent editors (`docs/engineering/api-spec.md:68`;
  the code records `last_heartbeat` and never reads it);
* the job log and its cursors, the newest-first listing;
* of the plugin: what a tool changes and what it reads, tools that only read,
  tools that drive the editor and not an asset (console, Python, PIE control,
  viewport, dialogs, compiling), tools that write project files (config, plugin
  list, C++ sources), the actor that `bp.run_construction_script` spawns and
  destroys again, several packages in one call, and what `level.load` does
  beyond the check of the dirty flag (`asset.reload_package` has the effect of
  `DiscardChanges`);
* a build or a save that never returns.

Left of the plan: the composition of `WebSocketClient` and `BridgeServer` (two
timers and two views of one connection).
