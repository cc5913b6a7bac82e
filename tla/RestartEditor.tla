---------------------------- MODULE RestartEditor ----------------------------
(***************************************************************************)
(* server/src/tools/restart_orchestrator.cpp: the restart_editor tool.     *)
(*                                                                         *)
(* One invocation saves, builds the plugin, kills the editor, deploys the  *)
(* plugin, rebuilds the project, relaunches the editor and waits for its   *)
(* handshake. Nothing is locked in between, and minutes may pass: editors  *)
(* connect, drop, reconnect, crash and are edited at any time. A request   *)
(* that leaves a step out (build_plugin:false, ...) skips it, chosen when  *)
(* the step comes.                                                         *)
(***************************************************************************)
EXTENDS Integers, FiniteSets

CONSTANTS
  Invocations,  \* calls of restart_editor
  Concurrent,   \* whether they may overlap: HTTP requests do, the stdio loop
                \* serves one line at a time
  Slots,        \* slot_id: one per project and engine version
  MaxProcs,     \* editor processes in a behaviour (a bound on the model)
  MaxSessions   \* connections in a behaviour (a bound on the model)

ASSUME RestartAssumption ==
  /\ Concurrent \in BOOLEAN
  /\ MaxProcs \in Nat /\ MaxSessions \in Nat

Procs    == 1..MaxProcs
Sessions == 1..MaxSessions

VARIABLES
  procs,     \* the editor processes: unborn, running or dead, and their work
  sessions,  \* sessions_ of the bridge: which process each session id is of
  opened,    \* number of connections so far; each one gets a fresh id
  active,    \* activeSessionId_, 0 when empty
  plugin,    \* the SageBridge files in each project: whole, or half replaced
  call,      \* the local state of each invocation
  trace      \* history, read by properties only: whether the save reported
             \* success and left work of the target unsaved, whether that work
             \* died with the target, what killEditor found, and whether the
             \* target connected again meanwhile

vars == <<procs, sessions, opened, active, plugin, call, trace>>

Pcs     == {"idle", "save", "build", "kill", "deploy", "deploying", "rebuild",
            "relaunch", "wait", "done"}
Replies == {"none", "not_connected", "refused", "build_failed", "kill_failed",
            "deploy_failed", "rebuild_failed", "relaunch_failed",
            "no_handshake", "restarted"}

TypeOK ==
  /\ procs \in [Procs -> [slot : Slots, state : {"unborn", "running", "dead"},
                          unsaved : BOOLEAN]]
  /\ sessions \in [Sessions -> 0..MaxProcs]
  /\ opened \in 0..MaxSessions
  /\ active \in 0..MaxSessions
  /\ plugin \in [Slots -> {"whole", "mixed"}]
  /\ call \in [Invocations ->
       [pc : Pcs, old : 0..MaxSessions, pid : 0..MaxProcs,
        builds : BOOLEAN, save : {"skipped", "saved", "warned"},
        new : 0..MaxProcs, reply : Replies]]
  /\ trace \in [Invocations -> [missed : BOOLEAN, lost : BOOLEAN,
                                 found : {"none", "running", "dead"},
                                 rejoined : BOOLEAN]]

(* Editors of some of the slots run; none has connected yet.               *)
Init ==
  /\ \E first \in [1..2 \cap Procs -> Slots] :
       procs = [p \in Procs |->
         IF p \in 1..2 THEN [slot |-> first[p], state |-> "running", unsaved |-> FALSE]
         ELSE [slot |-> CHOOSE s \in Slots : TRUE, state |-> "unborn",
               unsaved |-> FALSE]]
  /\ \A p, q \in 1..2 \cap Procs : procs[p].slot = procs[q].slot => p = q
  /\ sessions = [s \in Sessions |-> 0]
  /\ opened = 0
  /\ active = 0
  /\ plugin = [s \in Slots |-> "whole"]
  /\ call = [c \in Invocations |->
       [pc |-> "idle", old |-> 0, pid |-> 0, builds |-> FALSE,
        save |-> "skipped", new |-> 0, reply |-> "none"]]
  /\ trace = [c \in Invocations |->
       [missed |-> FALSE, lost |-> FALSE, found |-> "none", rejoined |-> FALSE]]

-----------------------------------------------------------------------------
(* Environment: the editors and their connections.                         *)
Known       == {s \in Sessions : sessions[s] # 0}
SlotOf(s)   == procs[sessions[s]].slot
Running(p)  == procs[p].state = "running"

(* A running editor without a connection opens one and says hello.         *)
Connect(p) ==
  /\ Running(p)
  /\ \A s \in Known : sessions[s] # p
  /\ opened < MaxSessions
  /\ opened' = opened + 1
  /\ sessions' = [sessions EXCEPT ![opened + 1] = p]
  /\ trace' = [c \in Invocations |->
       [trace[c] EXCEPT !.rejoined = @ \/ (call[c].pid = p /\ call[c].pc # "done")]]
  /\ UNCHANGED <<procs, active, plugin, call>>

(* The Close of a connection is handled, some time after its editor died,  *)
(* or because the network dropped it.                                      *)
Disconnect(s) ==
  /\ s \in Known
  /\ sessions' = [sessions EXCEPT ![s] = 0]
  /\ UNCHANGED <<procs, opened, active, plugin, call, trace>>

(* The user or an agent edits assets.                                      *)
Edit(p) ==
  /\ Running(p) /\ ~procs[p].unsaved
  /\ procs' = [procs EXCEPT ![p].unsaved = TRUE]
  /\ UNCHANGED <<sessions, opened, active, plugin, call, trace>>

(* An editor dies, on its own here; what it had not saved is lost.         *)
Dead(p) == [procs[p] EXCEPT !.state = "dead", !.unsaved = FALSE]

Crash(p) ==
  /\ Running(p)
  /\ procs' = [procs EXCEPT ![p] = Dead(p)]
  /\ UNCHANGED <<sessions, opened, active, plugin, call, trace>>

(* set_active_editor.                                                      *)
SetActive(s) ==
  /\ s \in Known
  /\ active' = s
  /\ UNCHANGED <<procs, sessions, opened, plugin, call, trace>>

-----------------------------------------------------------------------------
Goto(c, pc)     == call' = [call EXCEPT ![c].pc = pc]
Finish(c, reply) ==
  call' = [call EXCEPT ![c].pc = "done", ![c].reply = reply, ![c].old = 0,
                       ![c].builds = FALSE, ![c].save = "skipped"]

OnlyOne == IF Cardinality(Known) = 1 THEN Known ELSE {}

(* The target when slot_id is omitted: the active session while it is      *)
(* connected, else the only one.                                           *)
Default == IF active \in Known THEN {active} ELSE OnlyOne

(* Where dispatchTool sends a call without target: an active session that  *)
(* is gone is an error there, not a reason to look further.                *)
Routed == IF active # 0 THEN {active} \cap Known ELSE OnlyOne

(* Resolve target session: by slot_id the first session of the snapshot    *)
(* that has it, else the default. A session without pid or project path,   *)
(* and a missing UBT, refuse the call.                                     *)
Begin(c) ==
  /\ call[c].pc = "idle"
  /\ Concurrent \/ \A d \in Invocations : call[d].pc \in {"idle", "done"}
  /\ \/ \E slot \in Slots :
          LET named == {s \in Known : SlotOf(s) = slot} IN
          IF named = {} THEN Finish(c, "not_connected")
          ELSE \E s \in named :
                 call' = [call EXCEPT ![c].pc = "save", ![c].old = s,
                                      ![c].pid = sessions[s]]
     \/ Default = {} /\ Finish(c, "not_connected")
     \/ \E s \in Default :
          call' = [call EXCEPT ![c].pc = "save", ![c].old = s,
                               ![c].pid = sessions[s]]
     \/ Known # {} /\ Finish(c, "refused")
  /\ UNCHANGED <<procs, sessions, opened, active, plugin, trace>>

(* Step 1: save_assets through dispatchTool, which is given no target. Its *)
(* failure is only a warning.                                              *)
Save(c) ==
  /\ call[c].pc = "save"
  /\ \/ Goto(c, "build") /\ UNCHANGED procs
     \/ /\ call' = [call EXCEPT ![c].pc = "build", ![c].save = "warned"]
        /\ UNCHANGED procs
     \/ \E s \in Routed :
          /\ Running(sessions[s])
          /\ procs' = [procs EXCEPT ![sessions[s]].unsaved = FALSE]
          /\ call' = [call EXCEPT ![c].pc = "build", ![c].save = "saved"]
  /\ trace' = [trace EXCEPT ![c].missed =
       call'[c].save = "saved" /\ procs'[call[c].pid].unsaved]
  /\ UNCHANGED <<sessions, opened, active, plugin>>

(* Step 2: build the plugin, before killing, and give up when that fails.  *)
Build(c) ==
  /\ call[c].pc = "build"
  /\ \/ \E builds \in BOOLEAN :
          call' = [call EXCEPT ![c].pc = "kill", ![c].builds = builds]
     \/ Finish(c, "build_failed")
  /\ UNCHANGED <<procs, sessions, opened, active, plugin, trace>>

(* What the kill step finds, and what of the missed work it destroys.      *)
WatchKill(c) ==
  LET pid == call[c].pid IN
  trace' = [trace EXCEPT
    ![c].found = procs[pid].state,
    ![c].lost = trace[c].missed /\ procs[pid].unsaved /\ ~procs'[pid].unsaved]

(* Mutant: an editor that survives is left running and the restart goes on.*)
Kill_Unchecked(c) ==
  /\ call[c].pc = "kill"
  /\ \/ /\ procs' = [procs EXCEPT ![call[c].pid] = Dead(call[c].pid)]
        /\ Goto(c, "deploy")
     \/ UNCHANGED procs /\ Goto(c, "deploy")
  /\ WatchKill(c)
  /\ UNCHANGED <<sessions, opened, active, plugin>>

(* Step 3: killEditor. A dead process counts as killed; one that survives  *)
(* SIGKILL fails the call.                                                 *)
Kill(c) ==
  /\ call[c].pc = "kill"
  /\ \/ /\ procs' = [procs EXCEPT ![call[c].pid] = Dead(call[c].pid)]
        /\ Goto(c, "deploy")
     \/ /\ Running(call[c].pid)
        /\ UNCHANGED procs
        /\ Finish(c, "kill_failed")
  /\ WatchKill(c)
  /\ UNCHANGED <<sessions, opened, active, plugin>>

(* Step 4: deployPackagedPlugin replaces the descriptor and the binaries   *)
(* file by file, then the sources. Any of them can fail half way.          *)
Deploy(c) ==
  /\ call[c].pc = "deploy"
  /\ \/ ~call[c].builds /\ Goto(c, "rebuild") /\ UNCHANGED plugin
     \/ call[c].builds /\ Finish(c, "deploy_failed") /\ UNCHANGED plugin
     \/ /\ call[c].builds
        /\ plugin' = [plugin EXCEPT ![procs[call[c].pid].slot] = "mixed"]
        /\ Goto(c, "deploying")
  /\ UNCHANGED <<procs, sessions, opened, active, trace>>

(* Mutant: a deployment that failed does not stop the restart. *)
DeployRest_Ignored(c) ==
  /\ call[c].pc = "deploying"
  /\ \/ plugin' = [plugin EXCEPT ![procs[call[c].pid].slot] = "whole"]
     \/ UNCHANGED plugin
  /\ Goto(c, "rebuild")
  /\ UNCHANGED <<procs, sessions, opened, active, trace>>

DeployRest(c) ==
  /\ call[c].pc = "deploying"
  /\ \/ /\ plugin' = [plugin EXCEPT ![procs[call[c].pid].slot] = "whole"]
        /\ Goto(c, "rebuild")
     \/ UNCHANGED plugin /\ Finish(c, "deploy_failed")
  /\ UNCHANGED <<procs, sessions, opened, active, trace>>

(* Step 4b: rebuild the project modules.                                   *)
Rebuild(c) ==
  /\ call[c].pc = "rebuild"
  /\ Goto(c, "relaunch") \/ Finish(c, "rebuild_failed")
  /\ UNCHANGED <<procs, sessions, opened, active, plugin, trace>>

(* Step 5: relaunchEditor starts a process and does not wait for it.       *)
Relaunch(c) ==
  /\ call[c].pc = "relaunch"
  /\ \/ \E p \in Procs :
          /\ procs[p].state = "unborn"
          /\ \A q \in Procs : procs[q].state = "unborn" => p <= q
          /\ procs' = [procs EXCEPT ![p] =
               [slot |-> procs[call[c].pid].slot, state |-> "running",
                unsaved |-> FALSE]]
          /\ Goto(c, "wait")
     \/ UNCHANGED procs /\ Finish(c, "relaunch_failed")
  /\ UNCHANGED <<sessions, opened, active, plugin, trace>>

(* Mutant: any session of the slot will do. *)
Arrived_Any(c) == {s \in Known : SlotOf(s) = procs[call[c].pid].slot}

Arrived(c) ==
  {s \in Known : SlotOf(s) = procs[call[c].pid].slot /\ s # call[c].old}

(* Step 6: waitForNewSession polls the snapshot; wait_handshake_sec:0      *)
(* skips it and reports success.                                           *)
Wait(c) ==
  /\ call[c].pc = "wait"
  /\ \/ \E s \in Arrived(c) :
          call' = [call EXCEPT ![c].pc = "done", ![c].new = sessions[s],
                               ![c].reply = "restarted", ![c].old = 0,
                               ![c].builds = FALSE, ![c].save = "skipped"]
     \/ Finish(c, "restarted")
     \/ Arrived(c) = {} /\ Finish(c, "no_handshake")
  /\ UNCHANGED <<procs, sessions, opened, active, plugin, trace>>

Step(c) == \/ Begin(c) \/ Save(c) \/ Build(c) \/ Kill(c) \/ Deploy(c)
           \/ DeployRest(c) \/ Rebuild(c) \/ Relaunch(c) \/ Wait(c)

Next ==
  \/ \E p \in Procs : Connect(p) \/ Edit(p) \/ Crash(p)
  \/ \E s \in Sessions : Disconnect(s) \/ SetActive(s)
  \/ \E c \in Invocations : Step(c)

Spec == Init /\ [][Next]_vars

-----------------------------------------------------------------------------
(* restart_editor gives up before the kill when the plugin does not build, *)
(* and a call that failed to kill deploys nothing: once the steps that     *)
(* need a dead editor begin, the editor the call resolved is dead, however *)
(* long ago that was.                                                      *)
TargetDownForDeploy ==
  \A c \in Invocations :
    /\ call[c].pc \in {"deploy", "deploying", "rebuild", "relaunch", "wait"}
         => ~Running(call[c].pid) /\ call[c].reply = "none"
    /\ call[c].reply = "build_failed" => trace[c].found = "none"

(* An editor is relaunched over a plugin that is whole, whenever this call *)
(* replaced it and calls do not overlap: a deployment that fails half way  *)
(* ends the call with an error and without an editor.                      *)
RelaunchedOverWholePlugin ==
  \A c \in Invocations :
    call[c].builds /\ call[c].pc \in {"rebuild", "relaunch", "wait"}
      => plugin[procs[call[c].pid].slot] = "whole"

(* Calls that do not overlap never leave two editors of one project,       *)
(* unless one of them resolved a session whose process was already dead.   *)
OneEditorPerSlot ==
  (\A c \in Invocations : trace[c].found # "dead")
    => \A p, q \in Procs :
         Running(p) /\ Running(q) /\ procs[p].slot = procs[q].slot => p = q

(* The session a successful restart returns is not one of the editor it    *)
(* killed, as long as that editor had not connected again in between.      *)
ReturnsAnotherEditor ==
  \A c \in Invocations :
    call[c].new # 0 /\ ~trace[c].rejoined => call[c].new # call[c].pid

(* "Save dirty assets -> ... -> terminate editor": what was unsaved in the *)
(* target when the save step reported success is not lost in the kill.     *)
SaveReachesTarget == \A c \in Invocations : ~trace[c].lost
=============================================================================
