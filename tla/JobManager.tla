----------------------------- MODULE JobManager -----------------------------
(***************************************************************************)
(* class JobManager of server/src/main.cpp: detached jobs started with     *)
(* async:true, and the jobs.* tools that watch them.                       *)
(*                                                                         *)
(* jobs_, order_ and the records are guarded by mu_, so every action is    *)
(* one critical section of a worker thread (runRemote), of a thread that   *)
(* starts or cancels a job, or of a thread in wait(). A job is numbered    *)
(* by the order of its insertion; the text of its id is not modelled.      *)
(***************************************************************************)
EXTENDS Integers, Sequences, FiniteSets

CONSTANTS
  MaxStarts,  \* jobs started in a behaviour (a bound on the model)
  MaxJobs,    \* maxJobs in trimLocked, 200 in the code
  Waiters     \* invocations of jobs.wait

ASSUME BoundsAssumption == MaxStarts \in Nat /\ MaxJobs \in Nat \ {0}

VARIABLES
  born,    \* number of jobs inserted so far
  jobs,    \* the record of each job ever inserted, and whether jobs_ has it
  order,   \* order_
  worker,  \* where each job's detached thread is
  waiter   \* the local state of each jobs.wait

vars == <<born, jobs, order, worker, waiter>>

Ids      == 1..MaxStarts
Terminal == {"completed", "failed", "editor_crashed"}
States   == {"queued", "dispatched", "running", "waiting_editor",
             "cancel_requested"} \cup Terminal
WorkerPcs == {"none", "start", "dispatched", "running", "waiting_editor",
              "dispatch", "done"}
WaitPcs  == {"idle", "parked", "woken", "late", "done"}
Replies  == {"none", "unknown", "terminal", "timed_out", "exception"}

TypeOK ==
  /\ born \in 0..MaxStarts
  /\ jobs \in [Ids -> [state : States, cancelled : BOOLEAN, kept : BOOLEAN]]
  /\ order \in Seq(Ids)
  /\ worker \in [Ids -> WorkerPcs]
  /\ waiter \in [Waiters -> [pc : WaitPcs, job : Ids \cup {0}, reply : Replies]]

Init ==
  /\ born = 0
  /\ jobs = [j \in Ids |-> [state |-> "queued", cancelled |-> FALSE,
                            kept |-> FALSE]]
  /\ order = <<>>
  /\ worker = [j \in Ids |-> "none"]
  /\ waiter = [w \in Waiters |-> [pc |-> "idle", job |-> 0, reply |-> "none"]]

-----------------------------------------------------------------------------
Known        == {j \in Ids : jobs[j].kept}
IsTerminal(j) == jobs[j].kept /\ jobs[j].state \in Terminal

(* cv_.notify_all(). It follows the unlock of mu_, but a notified thread   *)
(* stays "woken" until it runs, which covers that delay; a thread that     *)
(* blocks in between has seen the new state.                               *)
Notified == [w \in Waiters |-> IF waiter[w].pc = "parked"
                                 THEN [waiter[w] EXCEPT !.pc = "woken"]
                                 ELSE waiter[w]]

(* Mutant: the oldest jobs go, whatever their state. *)
Popped_Any(q) == IF Len(q) > MaxJobs THEN Len(q) - MaxJobs ELSE 0

(* trimLocked on the deque q: terminal jobs are popped from the front      *)
(* until at most MaxJobs remain; the first job that is not terminal is     *)
(* moved to the back and ends the loop.                                    *)
Popped(q) ==
  CHOOSE k \in 0..Len(q) :
    /\ \A i \in 1..k : IsTerminal(q[i])
    /\ k > 0 => Len(q) - k >= MaxJobs
    /\ Len(q) - k > MaxJobs => ~IsTerminal(q[k + 1])

(* Mutant: the job that ends the loop is not pushed back. *)
Trimmed_Drops(q) ==
  LET k == Popped(q) IN
  IF Len(q) - k <= MaxJobs THEN SubSeq(q, k + 1, Len(q))
                           ELSE SubSeq(q, k + 2, Len(q))

Trimmed(q) ==
  LET k == Popped(q) IN
  IF Len(q) - k <= MaxJobs THEN SubSeq(q, k + 1, Len(q))
  ELSE SubSeq(q, k + 2, Len(q)) \o <<q[k + 1]>>

-----------------------------------------------------------------------------
(* startRemote: createQueuedRecord, then the detached thread.              *)
Start ==
  LET j == born + 1
      q == Append(order, j)
  IN /\ born < MaxStarts
     /\ born' = j
     /\ order' = Trimmed(q)
     /\ jobs' = [i \in Ids |->
          IF i = j THEN [state |-> "queued", cancelled |-> FALSE, kept |-> TRUE]
          ELSE IF \E n \in 1..Popped(q) : q[n] = i
            THEN [jobs[i] EXCEPT !.kept = FALSE]
            ELSE jobs[i]]
     /\ worker' = [worker EXCEPT ![j] = "start"]
     /\ waiter' = Notified

(* Mutant: cancel does not ask whether the job is terminal. *)
Cancel_Unguarded(j) ==
  /\ j \in Known
  /\ jobs' = [jobs EXCEPT ![j].cancelled = TRUE, ![j].state = "cancel_requested"]
  /\ waiter' = Notified
  /\ UNCHANGED <<born, order, worker>>

(* Mutant: a cancelled job is declared failed at once. *)
Cancel_Fails(j) ==
  /\ j \in Known
  /\ jobs' = [jobs EXCEPT ![j].cancelled = TRUE,
                          ![j].state = IF @ \in Terminal THEN @ ELSE "failed"]
  /\ waiter' = Notified
  /\ UNCHANGED <<born, order, worker>>

(* cancel: only a flag and a state, the tool call goes on.                 *)
Cancel(j) ==
  /\ j \in Known
  /\ jobs' = [jobs EXCEPT ![j].cancelled = TRUE,
                          ![j].state = IF @ \in Terminal THEN @
                                       ELSE "cancel_requested"]
  /\ waiter' = Notified
  /\ UNCHANGED <<born, order, worker>>

-----------------------------------------------------------------------------
(* runRemote. A job that jobs_ no longer has ends its thread, or is        *)
(* skipped by setState.                                                    *)

ReadJob(j) ==
  /\ worker[j] = "start"
  /\ worker' = [worker EXCEPT ![j] = IF j \in Known THEN "dispatched" ELSE "done"]
  /\ UNCHANGED <<born, jobs, order, waiter>>

After == [dispatched |-> "running", running |-> "waiting_editor",
          waiting_editor |-> "dispatch"]

SetState(j) ==
  /\ worker[j] \in DOMAIN After
  /\ jobs' = IF j \in Known THEN [jobs EXCEPT ![j].state = worker[j]] ELSE jobs
  /\ waiter' = IF j \in Known THEN Notified ELSE waiter
  /\ worker' = [worker EXCEPT ![j] = After[worker[j]]]
  /\ UNCHANGED <<born, order>>

(* Mutant: the verdict is not signalled. *)
Finish_Silent(j) ==
  /\ worker[j] = "dispatch"
  /\ worker' = [worker EXCEPT ![j] = "done"]
  /\ \E v \in Terminal : jobs' = [jobs EXCEPT ![j].state = v]
  /\ UNCHANGED <<born, order, waiter>>

(* dispatchTool has returned: what became of the job. Only the error of a  *)
(* Close branch says "disconnected"; the other EditorNotConnected errors   *)
(* are plain failures.                                                     *)
Finish(j) ==
  /\ worker[j] = "dispatch"
  /\ worker' = [worker EXCEPT ![j] = "done"]
  /\ IF j \in Known
       THEN /\ \E v \in Terminal : jobs' = [jobs EXCEPT ![j].state = v]
            /\ waiter' = Notified
       ELSE UNCHANGED <<jobs, waiter>>
  /\ UNCHANGED <<born, order>>

-----------------------------------------------------------------------------
(* wait(). mu_ is released only while the thread is blocked.               *)

Reply(w, r) == waiter' = [waiter EXCEPT ![w].pc = "done", ![w].reply = r]

WaitEnter(w) ==
  /\ waiter[w].pc = "idle"
  /\ \E j \in 1..born :
       waiter' = [waiter EXCEPT ![w] =
         IF j \notin Known THEN [pc |-> "done", job |-> j, reply |-> "unknown"]
         ELSE IF IsTerminal(j)
           THEN [pc |-> "done", job |-> j, reply |-> "terminal"]
           ELSE [pc |-> "parked", job |-> j, reply |-> "none"]]
  /\ UNCHANGED <<born, jobs, order, worker>>

(* Mutant: any wake-up is taken for the end of the job. *)
WaitRecheck_AnySignal(w) ==
  /\ waiter[w].pc = "woken"
  /\ Reply(w, IF waiter[w].job \in Known THEN "terminal" ELSE "exception")
  /\ UNCHANGED <<born, jobs, order, worker>>

(* A notification: exists() && !terminal blocks again, and when the loop   *)
(* ends jobs_.at(jobId) throws for a job that has been trimmed.            *)
WaitRecheck(w) ==
  /\ waiter[w].pc = "woken"
  /\ LET j == waiter[w].job IN
       \/ j \notin Known /\ Reply(w, "exception")
       \/ IsTerminal(j) /\ Reply(w, "terminal")
       \/ /\ j \in Known /\ ~IsTerminal(j)
          /\ waiter' = [waiter EXCEPT ![w].pc = "parked"]
  /\ UNCHANGED <<born, jobs, order, worker>>

WaitDeadline(w) ==
  /\ waiter[w].pc = "parked"
  /\ waiter' = [waiter EXCEPT ![w].pc = "late"]
  /\ UNCHANGED <<born, jobs, order, worker>>

WaitLate(w) ==
  /\ waiter[w].pc = "late"
  /\ LET j == waiter[w].job IN
       \/ j \notin Known /\ Reply(w, "exception")
       \/ IsTerminal(j) /\ Reply(w, "terminal")
       \/ j \in Known /\ ~IsTerminal(j) /\ Reply(w, "timed_out")
  /\ UNCHANGED <<born, jobs, order, worker>>

-----------------------------------------------------------------------------
WorkerSteps(j) == ReadJob(j) \/ SetState(j) \/ Finish(j)
WaiterSteps(w) == WaitRecheck(w) \/ WaitLate(w)

Next ==
  \/ Start
  \/ \E j \in Ids : Cancel(j) \/ WorkerSteps(j)
  \/ \E w \in Waiters : WaitEnter(w) \/ WaiterSteps(w) \/ WaitDeadline(w)

Spec == Init /\ [][Next]_vars

(* Threads that can run do run, and dispatchTool returns (EveryCallReturns *)
(* of BridgeServer). Deadlines, up to ten minutes, need not pass.          *)
Fairness ==
  /\ \A j \in Ids : WF_vars(WorkerSteps(j))
  /\ \A w \in Waiters : WF_vars(WaiterSteps(w))

FairSpec == Spec /\ Fairness

-----------------------------------------------------------------------------
(* order_ lists exactly the jobs of jobs_, each once: a job that is in one *)
(* and not in the other could never be listed, or never be trimmed         *)
(* (createQueuedRecord and trimLocked).                                    *)
OrderMatchesJobs ==
  /\ \A j \in Ids : j \in Known <=> \E n \in 1..Len(order) : order[n] = j
  /\ \A m, n \in 1..Len(order) : order[m] = order[n] => m = n

(* A job whose thread still runs is never forgotten, however many jobs are *)
(* started after it (trimLocked).                                          *)
RunningIsKept ==
  \A j \in Ids : worker[j] \notin {"none", "done"} => j \in Known

(* A finished job keeps its verdict: no late cancel or state update of any *)
(* thread replaces it (cancel, setState, runRemote).                       *)
VerdictIsFinal ==
  [][\A j \in Ids : IsTerminal(j) => jobs'[j].state = jobs[j].state]_vars

(* A job that jobs_ keeps is terminal exactly when its thread has ended, so *)
(* jobs.wait never reports a job as finished that still occupies an editor, *)
(* nor waits for one that nobody works on.                                 *)
TerminalIffEnded ==
  \A j \in Known : jobs[j].state \in Terminal <=> worker[j] = "done"

(* jobs.wait answers "terminal", or fails because its job was trimmed      *)
(* while it was blocked, only when that job's thread has ended: neither a  *)
(* cancel nor the trimming of the table makes a running job look finished  *)
(* (wait reads the record again after it has been blocked).                *)
WaitReportsEnded ==
  \A w \in Waiters :
    waiter[w].reply \in {"terminal", "exception"} => worker[waiter[w].job] = "done"

(* jobs.wait returns once its job has ended, without its deadline.         *)
WaiterReleased ==
  \A w \in Waiters :
    waiter[w].pc = "parked" /\ (\E j \in Ids : waiter[w].job = j /\ worker[j] = "done")
      ~> waiter[w].pc = "done"
=============================================================================
