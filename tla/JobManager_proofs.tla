------------------------- MODULE JobManager_proofs -------------------------
(***************************************************************************)
(* The safety properties of JobManager for any bound on the jobs and any   *)
(* number of waiters.  The inductive invariant adds to the checked ones    *)
(* only that a job is kept, and has a thread, no sooner than it is born.   *)
(***************************************************************************)
EXTENDS JobManager, TLAPS, WellFoundedInduction, SequenceTheorems

Births ==
  \A j \in Ids : /\ j <= born <=> worker[j] # "none"
                 /\ jobs[j].kept => j <= born

IInv == TypeOK /\ Births /\ OrderMatchesJobs /\ RunningIsKept /\ TerminalIffEnded

-----------------------------------------------------------------------------
(* trimLocked.                                                             *)

PoppedSpec(q, k) ==
  /\ k \in 0..Len(q)
  /\ \A i \in 1..k : IsTerminal(q[i])
  /\ k > 0 => Len(q) - k >= MaxJobs
  /\ Len(q) - k > MaxJobs => ~IsTerminal(q[k + 1])

\* The loop ends: at the first job that is not terminal, or at MaxJobs.
LEMMA Popped_Exists ==
  ASSUME NEW q \in Seq(Ids)
  PROVE  PoppedSpec(q, Popped(q))
<1> DEFINE Ends(k) == Len(q) - k <= MaxJobs \/ ~IsTerminal(q[k + 1])
           T == {k \in Nat : Ends(k)}
<1>0. Len(q) \in Nat /\ MaxJobs \in Nat /\ MaxJobs > 0
  BY BoundsAssumption
<1>1. Len(q) \in T
  BY <1>0
<1>2. PICK k \in T : \A m \in T : ~(m < k)
  <2>1. IsWellFoundedOn(OpToRel(<, Nat), Nat)
    BY NatLessThanWellFounded
  <2>2. PICK k \in T : \A m \in T : ~(<<m, k>> \in OpToRel(<, Nat))
    BY <2>1, <1>1, WFMin, T \subseteq Nat, T # {}
  <2>3. QED
    BY <2>2 DEF OpToRel
<1>3. k \in Nat /\ k <= Len(q) /\ Ends(k)
  BY <1>0, <1>1, <1>2
<1>4. ASSUME NEW m \in Nat, m < k PROVE Len(q) - m > MaxJobs /\ IsTerminal(q[m + 1])
  <2>1. m \notin T
    BY <1>2, <1>4
  <2>2. ~Ends(m)
    BY <2>1
  <2>3. QED
    BY <2>2, <1>0
<1>5. \A i \in 1..k : IsTerminal(q[i])
  <2> TAKE i \in 1..k
  <2>1. i - 1 \in Nat /\ i - 1 < k /\ (i - 1) + 1 = i
    BY <1>3
  <2>2. QED
    BY <2>1, <1>4
<1>6. k > 0 => Len(q) - k >= MaxJobs
  <2> HAVE k > 0
  <2>1. k - 1 \in Nat /\ k - 1 < k
    BY <1>3
  <2>2. Len(q) - (k - 1) > MaxJobs
    BY <2>1, <1>4
  <2>3. QED
    BY <2>2, <1>0, <1>3
<1>7. PoppedSpec(q, k)
  BY <1>0, <1>3, <1>5, <1>6 DEF PoppedSpec
<1>8. QED
  BY <1>7 DEF PoppedSpec, Popped

\* What is left in order_ after trimLocked: all but the first Popped(q).
LEMMA Trimmed_Keeps ==
  ASSUME NEW q \in Seq(Ids), \A m, n \in 1..Len(q) : q[m] = q[n] => m = n
  PROVE  /\ Trimmed(q) \in Seq(Ids)
         /\ \A m, n \in 1..Len(Trimmed(q)) : Trimmed(q)[m] = Trimmed(q)[n] => m = n
         /\ \A i \in Popped(q) + 1..Len(q) :
              \E n \in 1..Len(Trimmed(q)) : Trimmed(q)[n] = q[i]
         /\ \A n \in 1..Len(Trimmed(q)) :
              \E i \in Popped(q) + 1..Len(q) : Trimmed(q)[n] = q[i]
<1> DEFINE k == Popped(q)
           t == Trimmed(q)
<1>0. /\ k \in 0..Len(q) /\ Len(q) \in Nat /\ MaxJobs \in Nat /\ MaxJobs > 0
  BY Popped_Exists, BoundsAssumption DEF PoppedSpec
<1> HIDE DEF k
<1>1. CASE Len(q) - k <= MaxJobs
  <2>1. t = SubSeq(q, k + 1, Len(q))
    BY <1>1 DEF Trimmed, k
  <2>2. /\ t \in Seq(Ids) /\ Len(t) = Len(q) - k
        /\ \A i \in 1..Len(q) - k : t[i] = q[k + i]
    BY <2>1, <1>0, SubSeqProperties
  <2> HIDE DEF t
  <2>3. ASSUME NEW i \in k + 1..Len(q) PROVE \E n \in 1..Len(t) : t[n] = q[i]
    <3>1. i - k \in 1..Len(t) /\ k + (i - k) = i
      BY <1>0, <2>2
    <3>2. QED
      BY <3>1, <2>2
  <2>4. ASSUME NEW n \in 1..Len(t) PROVE k + n \in k + 1..Len(q) /\ t[n] = q[k + n]
    BY <1>0, <2>2
  <2>5. ASSUME NEW m \in 1..Len(t), NEW n \in 1..Len(t), t[m] = t[n] PROVE m = n
    <3>1. k + m \in 1..Len(q) /\ k + n \in 1..Len(q) /\ q[k + m] = q[k + n]
      BY <1>0, <2>2, <2>5
    <3>2. k + m = k + n
      BY <3>1
    <3>3. QED
      BY <3>2, <1>0
  <2>6. QED
    BY <2>2, <2>3, <2>4, <2>5 DEF k, t
<1>2. CASE Len(q) - k > MaxJobs
  <2> DEFINE s == SubSeq(q, k + 2, Len(q))
  <2>0. ~(Len(q) - k <= MaxJobs)
    BY <1>0, <1>2
  <2>1. t = s \o <<q[k + 1]>>
    BY <2>0 DEF Trimmed, k
  <2>2. k + 1 \in 1..Len(q) /\ q[k + 1] \in Ids
    BY <1>0, <1>2
  <2>3. /\ s \in Seq(Ids) /\ Len(s) = Len(q) - k - 1
        /\ \A i \in 1..Len(q) - k - 1 : s[i] = q[k + 1 + i]
    BY <1>0, <1>2, SubSeqProperties
  <2> HIDE DEF s
  <2>4. /\ t \in Seq(Ids) /\ Len(t) = Len(q) - k
        /\ \A i \in 1..Len(q) - k - 1 : t[i] = q[k + 1 + i]
        /\ t[Len(q) - k] = q[k + 1]
    <3> DEFINE u == <<q[k + 1]>>
    <3>1. u \in Seq(Ids) /\ Len(u) = 1 /\ u[1] = q[k + 1]
      BY <2>2
    <3> HIDE DEF u
    <3>2. t = s \o u
      BY <2>1 DEF u
    <3> HIDE DEF t
    <3>3. /\ t \in Seq(Ids) /\ Len(t) = Len(s) + Len(u)
          /\ \A i \in 1..Len(s) + Len(u) :
               t[i] = IF i <= Len(s) THEN s[i] ELSE u[i - Len(s)]
      <4>1. /\ s \o u \in Seq(Ids) /\ Len(s \o u) = Len(s) + Len(u)
            /\ \A i \in 1..Len(s) + Len(u) :
                 (s \o u)[i] = IF i <= Len(s) THEN s[i] ELSE u[i - Len(s)]
        <5>1. s \in Seq(Ids) /\ u \in Seq(Ids)
          BY <2>3, <3>1
        <5>2. QED
          BY <5>1, ConcatProperties, ZenonT(60)
      <4>2. QED
        BY <4>1, <3>2, Zenon
    <3>4. Len(t) = Len(q) - k
      BY <3>1, <3>3, <2>3, <1>0
    <3>5. ASSUME NEW i \in 1..Len(q) - k - 1 PROVE t[i] = q[k + 1 + i]
      <4>1. i \in 1..Len(s) + Len(u) /\ i <= Len(s)
        BY <2>3, <3>1, <1>0
      <4>2. t[i] = s[i]
        BY <4>1, <3>3
      <4>3. QED
        BY <4>2, <2>3
    <3>6. t[Len(q) - k] = u[1]
      <4>1. /\ Len(q) - k \in 1..Len(s) + Len(u)
            /\ ~(Len(q) - k <= Len(s)) /\ Len(q) - k - Len(s) = 1
        BY <3>1, <2>3, <1>0, <1>2
      <4>2. t[Len(q) - k] = u[Len(q) - k - Len(s)]
        BY <4>1, <3>3
      <4>3. QED
        BY <4>1, <4>2
    <3>7. QED
      BY <3>1, <3>3, <3>4, <3>5, <3>6
  <2> HIDE DEF t
  <2>5. ASSUME NEW i \in k + 1..Len(q) PROVE \E n \in 1..Len(t) : t[n] = q[i]
    <3>1. CASE i = k + 1
      BY <3>1, <2>4, <1>0, <1>2
    <3>2. CASE i # k + 1
      <4>1. PICK n \in 1..Len(q) - k - 1 : k + 1 + n = i
        <5>1. i - k - 1 \in 1..Len(q) - k - 1 /\ k + 1 + (i - k - 1) = i
          BY <3>2, <1>0
        <5>2. QED
          BY <5>1
      <4>2. t[n] = q[k + 1 + n]
        BY <2>4
      <4>3. n \in 1..Len(t)
        BY <4>1, <2>4, <1>0
      <4>4. QED
        BY <4>1, <4>2, <4>3
    <3>3. QED
      BY <3>1, <3>2
  <2>6. ASSUME NEW n \in 1..Len(t)
        PROVE  IF n = Len(q) - k THEN t[n] = q[k + 1]
               ELSE t[n] = q[k + 1 + n] /\ k + 1 + n \in k + 2..Len(q)
    <3>1. CASE n = Len(q) - k
      BY <3>1, <2>4
    <3>2. CASE n # Len(q) - k
      <4>1. n \in 1..Len(q) - k - 1
        BY <3>2, <1>0, <2>4
      <4>2. k + 1 + n \in k + 2..Len(q)
        BY <4>1, <1>0
      <4>3. QED
        BY <3>2, <4>1, <4>2, <2>4
    <3>3. QED
      BY <3>1, <3>2
  <2>7. ASSUME NEW n \in 1..Len(t) PROVE \E i \in k + 1..Len(q) : t[n] = q[i]
    <3>1. CASE n = Len(q) - k
      BY <3>1, <2>6, <1>0, <1>2
    <3>2. CASE n # Len(q) - k
      <4>1. t[n] = q[k + 1 + n] /\ k + 1 + n \in k + 1..Len(q)
        BY <3>2, <2>6, <1>0
      <4>2. QED
        BY <4>1
    <3>3. QED
      BY <3>1, <3>2
  <2>8. ASSUME NEW m \in 1..Len(t), NEW n \in 1..Len(t), t[m] = t[n] PROVE m = n
    <3> DEFINE at(i) == IF i = Len(q) - k THEN k + 1 ELSE k + 1 + i
    <3>1. t[m] = q[at(m)] /\ t[n] = q[at(n)] /\ at(m) \in 1..Len(q) /\ at(n) \in 1..Len(q)
      <4>1. ASSUME NEW i \in 1..Len(t) PROVE t[i] = q[at(i)] /\ at(i) \in 1..Len(q)
        <5>1. CASE i = Len(q) - k
          BY <5>1, <2>6, <2>2, <1>0
        <5>2. CASE i # Len(q) - k
          BY <5>2, <2>6, <1>0
        <5>3. QED
          BY <5>1, <5>2
      <4>2. QED
        BY <4>1
    <3>2. at(m) = at(n)
      BY <3>1, <2>8
    <3>3. QED
      BY <3>2, <1>0, <2>4
  <2>9. QED
    BY <2>4, <2>5, <2>7, <2>8 DEF k, t
<1>3. QED
  BY <1>0, <1>1, <1>2

-----------------------------------------------------------------------------
(* Types, one variable at a time.                                          *)

JobRec    == [state : States, cancelled : BOOLEAN, kept : BOOLEAN]
WaiterRec == [pc : WaitPcs, job : Ids \cup {0}, reply : Replies]

LEMMA Notified_Type ==
  ASSUME waiter \in [Waiters -> WaiterRec] PROVE Notified \in [Waiters -> WaiterRec]
BY DEF Notified, WaiterRec, WaitPcs

LEMMA Start_Facts ==
  ASSUME IInv, Start
  PROVE  LET j == born + 1
             q == Append(order, j)
         IN /\ j \in Ids /\ j \notin Known /\ worker[j] = "none" /\ j \in Nat
            /\ q \in Seq(Ids) /\ Len(q) = Len(order) + 1 /\ q[Len(q)] = j
            /\ \A n \in 1..Len(order) : q[n] = order[n] /\ q[n] # j
            /\ \A m, n \in 1..Len(q) : q[m] = q[n] => m = n
            /\ PoppedSpec(q, Popped(q))
            /\ Popped(q) < Len(q)
<1> DEFINE j == born + 1
           q == Append(order, j)
<1>0. born \in 0..MaxStarts /\ order \in Seq(Ids) /\ MaxStarts \in Nat /\ Len(order) \in Nat
  BY BoundsAssumption DEF IInv, TypeOK
<1>1. j \in Ids /\ j \in Nat /\ ~(j <= born)
  BY <1>0 DEF Start, Ids
<1>2. j \notin Known /\ worker[j] = "none"
  BY <1>1, <1>0 DEF IInv, Births, Known
<1>3. /\ q \in Seq(Ids) /\ Len(q) = Len(order) + 1 /\ q[Len(q)] = j
      /\ \A n \in 1..Len(order) : q[n] = order[n]
  BY <1>0, <1>1
<1>4. ASSUME NEW n \in 1..Len(order) PROVE q[n] # j
  <2>1. order[n] \in Ids
    BY <1>0
  <2>2. order[n] \in Known
    BY <2>1 DEF IInv, OrderMatchesJobs
  <2>3. QED
    BY <2>2, <1>2, <1>3
<1>5. ASSUME NEW m \in 1..Len(q), NEW n \in 1..Len(q), q[m] = q[n] PROVE m = n
  <2>1. CASE m \in 1..Len(order) /\ n \in 1..Len(order)
    <3>1. order[m] = order[n]
      BY <2>1, <1>3, <1>5
    <3>2. QED
      BY <3>1, <2>1 DEF IInv, OrderMatchesJobs
  <2>2. CASE m = Len(q) \/ n = Len(q)
    BY <2>2, <1>0, <1>3, <1>4, <1>5
  <2>3. QED
    BY <2>1, <2>2, <1>0, <1>3
<1>6. PoppedSpec(q, Popped(q))
  BY <1>3, Popped_Exists
<1>7. Popped(q) < Len(q)
  <2>1. ~IsTerminal(q[Len(q)])
    BY <1>2, <1>3, <1>1 DEF IsTerminal, Known
  <2>2. Len(q) \notin 1..Popped(q)
    BY <2>1, <1>6 DEF PoppedSpec
  <2>3. QED
    BY <2>2, <1>0, <1>3, <1>6 DEF PoppedSpec
<1>8. QED
  BY <1>1, <1>2, <1>3, <1>4, <1>5, <1>6, <1>7

\* What Start does to the records: the new job, and the jobs it pops.
LEMMA Start_Jobs ==
  ASSUME IInv, Start, NEW i \in Ids
  PROVE  LET j == born + 1
             q == Append(order, j)
             popped == \E n \in 1..Popped(q) : q[n] = i
         IN /\ i = j => jobs'[i] = [state |-> "queued", cancelled |-> FALSE, kept |-> TRUE]
            /\ i # j /\ popped => jobs'[i] = [jobs[i] EXCEPT !.kept = FALSE]
            /\ i # j /\ ~popped => jobs'[i] = jobs[i]
            /\ worker'[i] = IF i = j THEN "start" ELSE worker[i]
            /\ popped => i # j /\ IsTerminal(i) /\ worker[i] = "done"
<1> DEFINE j == born + 1
           q == Append(order, j)
           popped == \E n \in 1..Popped(q) : q[n] = i
<1>0. worker \in [Ids -> WorkerPcs] /\ j \in Ids
  BY Start_Facts DEF IInv, TypeOK
<1>1. jobs'[i] = IF i = j THEN [state |-> "queued", cancelled |-> FALSE, kept |-> TRUE]
                 ELSE IF popped THEN [jobs[i] EXCEPT !.kept = FALSE] ELSE jobs[i]
  BY DEF Start
<1>2. worker'[i] = IF i = j THEN "start" ELSE worker[i]
  BY <1>0 DEF Start
<1>3. ASSUME popped PROVE i # j /\ IsTerminal(i) /\ worker[i] = "done"
  <2>1. PICK n \in 1..Popped(q) : q[n] = i
    BY <1>3
  <2>2. IsTerminal(i)
    BY <2>1, Start_Facts DEF PoppedSpec
  <2>3. i \in Known /\ jobs[i].state \in Terminal
    BY <2>2 DEF IsTerminal, Known
  <2>4. worker[i] = "done"
    BY <2>3 DEF IInv, TerminalIffEnded
  <2>5. i # j
    BY <2>3, Start_Facts
  <2>6. QED
    BY <2>2, <2>4, <2>5
<1>4. QED
  BY <1>1, <1>2, <1>3

LEMMA Start_New ==
  ASSUME IInv, Start
  PROVE  jobs'[born + 1].kept /\ jobs'[born + 1].state = "queued"
<1>1. jobs'[born + 1] = [state |-> "queued", cancelled |-> FALSE, kept |-> TRUE]
  BY Start_Facts DEF Start
<1>2. jobs'[born + 1].kept = TRUE
  BY <1>1, [state |-> "queued", cancelled |-> FALSE, kept |-> TRUE].kept = TRUE
<1>3. QED
  BY <1>1, <1>2

LEMMA Start_Inv == ASSUME IInv, Start PROVE IInv'
<1> DEFINE j == born + 1
           q == Append(order, j)
<1>0. /\ born \in 0..MaxStarts /\ MaxStarts \in Nat /\ born' = j /\ order' = Trimmed(q)
      /\ jobs \in [Ids -> JobRec] /\ worker \in [Ids -> WorkerPcs]
      /\ waiter \in [Waiters -> WaiterRec] /\ waiter' = Notified
  BY BoundsAssumption DEF IInv, TypeOK, Start, JobRec, WaiterRec
<1>1. TypeOK'
  <2>1. born' \in 0..MaxStarts
    BY <1>0 DEF Start
  <2>2. jobs' \in [Ids -> JobRec]
    <3>1. ASSUME NEW i \in Ids PROVE jobs'[i] \in JobRec
      <4>1. jobs[i] \in JobRec
        BY <1>0
      <4>2. [jobs[i] EXCEPT !.kept = FALSE] \in JobRec
        BY <4>1 DEF JobRec
      <4>3. [state |-> "queued", cancelled |-> FALSE, kept |-> TRUE] \in JobRec
        BY DEF JobRec, States
      <4>4. QED
        BY <4>1, <4>2, <4>3, Start_Jobs
    <3>2. jobs' = [i \in Ids |-> jobs'[i]]
      BY DEF Start
    <3>3. QED
      BY <3>1, <3>2
  <2>3. order' \in Seq(Ids)
    BY <1>0, Start_Facts, Trimmed_Keeps
  <2>4. worker' \in [Ids -> WorkerPcs]
    BY <1>0 DEF Start, WorkerPcs
  <2>5. waiter' \in [Waiters -> WaiterRec]
    BY <1>0, Notified_Type
  <2>6. QED
    BY <2>1, <2>2, <2>3, <2>4, <2>5 DEF TypeOK, JobRec, WaiterRec
<1>2. Births'
  <2> SUFFICES ASSUME NEW i \in Ids
               PROVE  /\ i <= born' <=> worker'[i] # "none"
                      /\ jobs'[i].kept => i <= born'
    BY DEF Births
  <2>1. (i <= born <=> worker[i] # "none") /\ (jobs[i].kept => i <= born) /\ jobs[i] \in JobRec
    BY <1>0 DEF IInv, Births
  <2>2. i <= born' <=> i <= born \/ i = j
    BY <1>0 DEF Ids
  <2>3. CASE i = j
    BY <2>2, <2>3, Start_Jobs
  <2>4. CASE i # j
    <3>1. worker'[i] = worker[i] /\ (jobs'[i].kept => jobs[i].kept)
      BY <2>1, <2>4, Start_Jobs DEF JobRec
    <3>2. QED
      BY <3>1, <2>1, <2>2, <2>4
  <2>5. QED
    BY <2>3, <2>4
<1>3. OrderMatchesJobs'
  <2> DEFINE t == Trimmed(q)
  <2>1. /\ \A m, n \in 1..Len(t) : t[m] = t[n] => m = n
        /\ \A i \in Popped(q) + 1..Len(q) : \E n \in 1..Len(t) : t[n] = q[i]
        /\ \A n \in 1..Len(t) : \E i \in Popped(q) + 1..Len(q) : t[n] = q[i]
        /\ t = order'
    BY <1>0, Start_Facts, Trimmed_Keeps
  <2>2. /\ \A m, n \in 1..Len(q) : q[m] = q[n] => m = n
        /\ Popped(q) \in 0..Len(q) /\ Len(q) \in Nat /\ Len(q) = Len(order) + 1
        /\ q[Len(q)] = j /\ Popped(q) < Len(q) /\ Len(order) \in Nat
        /\ \A n \in 1..Len(order) : q[n] = order[n]
    BY Start_Facts DEF PoppedSpec, IInv, TypeOK
  <2>3. ASSUME NEW i \in Ids
        PROVE  LET popped == \E n \in 1..Popped(q) : q[n] = i
               IN /\ i = j => jobs'[i].kept
                  /\ i # j /\ popped => ~jobs'[i].kept
                  /\ i # j /\ ~popped => jobs'[i].kept = jobs[i].kept
                  /\ popped => i # j
    <3> DEFINE popped == \E n \in 1..Popped(q) : q[n] = i
    <3>1. jobs[i] \in JobRec
      BY <1>0
    <3>2. ASSUME i # j, popped PROVE ~jobs'[i].kept
      <4>1. jobs'[i] = [jobs[i] EXCEPT !.kept = FALSE]
        BY <3>2, Start_Jobs
      <4>2. [jobs[i] EXCEPT !.kept = FALSE].kept = FALSE
        BY <3>1 DEF JobRec
      <4>3. QED
        BY <4>1, <4>2
    <3>3. QED
      BY <3>2, Start_Jobs, Start_New
  <2> HIDE DEF q, t
  <2>4. ASSUME NEW i \in Ids
        PROVE  jobs'[i].kept <=> \E n \in Popped(q) + 1..Len(q) : q[n] = i
    <3> DEFINE popped == \E n \in 1..Popped(q) : q[n] = i
    <3>1. (\E n \in 1..Len(q) : q[n] = i) <=> jobs[i].kept \/ i = j
      <4>1. jobs[i].kept <=> \E n \in 1..Len(order) : order[n] = i
        BY DEF IInv, OrderMatchesJobs, Known
      <4>2. \A n \in 1..Len(q) : n \in 1..Len(order) \/ n = Len(q)
        BY <2>2
      <4>3. \A n \in 1..Len(order) : n \in 1..Len(q)
        BY <2>2
      <4>4. Len(q) \in 1..Len(q)
        BY <2>2
      <4>5. QED
        BY <4>1, <4>2, <4>3, <4>4, <2>2
    <3>2. (\E n \in 1..Len(q) : q[n] = i)
            <=> popped \/ \E n \in Popped(q) + 1..Len(q) : q[n] = i
      <4>1. \A n \in 1..Len(q) : n \in 1..Popped(q) \/ n \in Popped(q) + 1..Len(q)
        BY <2>2
      <4>2. \A n \in 1..Popped(q) : n \in 1..Len(q)
        BY <2>2
      <4>3. \A n \in Popped(q) + 1..Len(q) : n \in 1..Len(q)
        BY <2>2
      <4>4. QED
        BY <4>1, <4>2, <4>3
    <3>3. ~(popped /\ \E n \in Popped(q) + 1..Len(q) : q[n] = i)
      <4> SUFFICES ASSUME NEW m \in 1..Popped(q), NEW n \in Popped(q) + 1..Len(q), q[m] = q[n]
                   PROVE  FALSE
        OBVIOUS
      <4>1. m \in 1..Len(q) /\ n \in 1..Len(q) /\ m # n
        BY <2>2
      <4>2. QED
        BY <4>1, <2>2
    <3>4. QED
      BY <3>1, <3>2, <3>3, <2>3
  <2>5. ASSUME NEW i \in Ids
        PROVE  (\E n \in 1..Len(t) : t[n] = i) <=> \E n \in Popped(q) + 1..Len(q) : q[n] = i
    <3>1. ASSUME NEW n \in 1..Len(t), t[n] = i
          PROVE  \E m \in Popped(q) + 1..Len(q) : q[m] = i
      BY <2>1, <3>1
    <3>2. ASSUME NEW m \in Popped(q) + 1..Len(q), q[m] = i
          PROVE  \E n \in 1..Len(t) : t[n] = i
      BY <2>1, <3>2
    <3>3. QED
      BY <3>1, <3>2
  <2>6. QED
    BY <2>1, <2>4, <2>5 DEF OrderMatchesJobs, Known
<1>4. RunningIsKept'
  <2> SUFFICES ASSUME NEW i \in Ids, worker'[i] \notin {"none", "done"}
               PROVE  jobs'[i].kept
    BY DEF RunningIsKept, Known
  <2>1. CASE i = j
    BY <2>1, Start_New
  <2>2. CASE i # j
    <3>1. worker[i] \notin {"none", "done"} /\ jobs'[i] = jobs[i]
      BY <2>2, Start_Jobs
    <3>2. QED
      BY <3>1 DEF IInv, RunningIsKept, Known
  <2>3. QED
    BY <2>1, <2>2
<1>5. TerminalIffEnded'
  <2> SUFFICES ASSUME NEW i \in Ids, jobs'[i].kept
               PROVE  jobs'[i].state \in Terminal <=> worker'[i] = "done"
    BY DEF TerminalIffEnded, Known
  <2>1. CASE i = j
    BY <2>1, Start_Jobs, Start_New DEF Terminal
  <2>2. CASE i # j
    <3>0. jobs[i] \in JobRec
      BY <1>0
    <3>1. worker'[i] = worker[i] /\ jobs'[i] = jobs[i]
      BY <2>2, <3>0, Start_Jobs DEF JobRec
    <3>2. QED
      BY <3>1 DEF IInv, TerminalIffEnded, Known
  <2>3. QED
    BY <2>1, <2>2
<1>6. QED
  BY <1>1, <1>2, <1>3, <1>4, <1>5 DEF IInv

-----------------------------------------------------------------------------
(* The other actions leave order_ and the keys of jobs_ alone.             *)

\* A step that may change one job's state and one thread's place, and that
\* ends the thread exactly when it gives the job a verdict.
OneJob(j, state, at) ==
  /\ UNCHANGED <<born, order>>
  /\ worker' = [worker EXCEPT ![j] = at]
  /\ \A i \in Ids : /\ jobs'[i].kept = jobs[i].kept
                    /\ jobs'[i].state = IF i = j THEN state ELSE jobs[i].state

LEMMA OneJob_Inv ==
  ASSUME IInv, TypeOK', NEW j \in Ids, NEW state, NEW at, OneJob(j, state, at),
         worker[j] # "none", at # "none",
         worker[j] = "done" => at = "done",
         j \in Known => (state \in Terminal <=> at = "done")
  PROVE  IInv'
<1>0. worker \in [Ids -> WorkerPcs]
  BY DEF IInv, TypeOK
<1>1. \A i \in Ids : worker'[i] = IF i = j THEN at ELSE worker[i]
  BY <1>0 DEF OneJob
<1>2. Known' = Known
  BY DEF OneJob, Known
<1>3. Births'
  BY <1>1, <1>2 DEF IInv, Births, OneJob
<1>4. OrderMatchesJobs'
  BY <1>2 DEF IInv, OrderMatchesJobs, OneJob
<1>5. RunningIsKept'
  BY <1>1, <1>2 DEF IInv, RunningIsKept
<1>6. TerminalIffEnded'
  BY <1>1, <1>2 DEF IInv, TerminalIffEnded, OneJob, Known
<1>7. QED
  BY <1>3, <1>4, <1>5, <1>6 DEF IInv

LEMMA Steps_Type ==
  ASSUME TypeOK, NEW j \in Ids, Cancel(j) \/ WorkerSteps(j)
  PROVE  TypeOK'
<1>0. /\ jobs \in [Ids -> JobRec] /\ worker \in [Ids -> WorkerPcs]
      /\ waiter \in [Waiters -> WaiterRec] /\ Notified \in [Waiters -> WaiterRec]
  BY Notified_Type DEF TypeOK, JobRec, WaiterRec
<1>1. UNCHANGED <<born, order>>
  BY DEF Cancel, WorkerSteps, ReadJob, SetState, Finish
<1>2. worker' \in [Ids -> WorkerPcs]
  BY <1>0 DEF Cancel, WorkerSteps, ReadJob, SetState, Finish, WorkerPcs, After
<1>3. waiter' \in [Waiters -> WaiterRec]
  BY <1>0 DEF Cancel, WorkerSteps, ReadJob, SetState, Finish
<1>4. jobs' \in [Ids -> JobRec]
  <2>1. jobs[j] \in JobRec
    BY <1>0
  <2>2. CASE Cancel(j)
    BY <1>0, <2>1, <2>2 DEF Cancel, JobRec, States
  <2>3. CASE SetState(j)
    BY <1>0, <2>1, <2>3 DEF SetState, JobRec, States, After
  <2>4. CASE Finish(j)
    BY <1>0, <2>1, <2>4 DEF Finish, JobRec, States
  <2>5. CASE ReadJob(j)
    BY <1>0, <2>5 DEF ReadJob
  <2>6. QED
    BY <2>2, <2>3, <2>4, <2>5 DEF WorkerSteps
<1>5. QED
  BY <1>1, <1>2, <1>3, <1>4 DEF TypeOK, JobRec, WaiterRec

LEMMA Worker_Inv == ASSUME IInv, NEW j \in Ids, WorkerSteps(j) PROVE IInv'
<1>0. /\ jobs \in [Ids -> JobRec] /\ worker \in [Ids -> WorkerPcs] /\ TypeOK'
  BY Steps_Type DEF IInv, TypeOK, JobRec
<1>1. worker[j] \notin {"none", "done"} => j \in Known
  BY DEF IInv, RunningIsKept
<1>2. \A s : /\ [jobs EXCEPT ![j].state = s][j].state = s
             /\ [jobs EXCEPT ![j].state = s][j].kept = jobs[j].kept
             /\ \A i \in Ids \ {j} : [jobs EXCEPT ![j].state = s][i] = jobs[i]
  BY <1>0 DEF JobRec
<1>3. CASE ReadJob(j)
  <2>1. OneJob(j, jobs[j].state, "dispatched")
    BY <1>1, <1>3 DEF ReadJob, OneJob
  <2>2. worker[j] = "start"
    BY <1>3 DEF ReadJob
  <2>3. j \in Known => jobs[j].state \notin Terminal
    BY <2>2 DEF IInv, TerminalIffEnded
  <2>4. QED
    BY <1>0, <2>1, <2>2, <2>3, OneJob_Inv
<1>4. CASE SetState(j)
  <2>1. worker[j] \in {"dispatched", "running", "waiting_editor"}
    BY <1>4 DEF SetState, After
  <2>2. /\ After[worker[j]] \notin {"none", "done"} /\ worker[j] \notin Terminal
    BY <2>1 DEF After, Terminal
  <2>3. jobs' = [jobs EXCEPT ![j].state = worker[j]]
    BY <1>1, <1>4, <2>1 DEF SetState
  <2>4. OneJob(j, worker[j], After[worker[j]])
    <3>1. \A i \in Ids : /\ jobs'[i].kept = jobs[i].kept
                         /\ jobs'[i].state = IF i = j THEN worker[j] ELSE jobs[i].state
      BY <1>2, <2>3
    <3>2. /\ UNCHANGED <<born, order>>
          /\ worker' = [worker EXCEPT ![j] = After[worker[j]]]
      BY <1>4 DEF SetState
    <3>3. QED
      BY <3>1, <3>2 DEF OneJob
  <2>5. QED
    BY <1>0, <2>1, <2>2, <2>4, OneJob_Inv
<1>5. CASE Finish(j)
  <2>1. worker[j] = "dispatch"
    BY <1>5 DEF Finish
  <2>2. PICK v \in Terminal : jobs' = [jobs EXCEPT ![j].state = v]
    BY <1>1, <1>5, <2>1 DEF Finish
  <2>3. OneJob(j, v, "done")
    BY <1>2, <1>5, <2>2 DEF OneJob, Finish
  <2>4. QED
    BY <1>0, <2>1, <2>2, <2>3, OneJob_Inv
<1>6. QED
  BY <1>3, <1>4, <1>5 DEF WorkerSteps

LEMMA Cancel_Inv == ASSUME IInv, NEW j \in Ids, Cancel(j) PROVE IInv'
<1>0. jobs \in [Ids -> JobRec] /\ TypeOK'
  BY Steps_Type DEF IInv, TypeOK, JobRec
<1> DEFINE s == IF jobs[j].state \in Terminal THEN jobs[j].state ELSE "cancel_requested"
<1>1. /\ jobs'[j].state = s /\ jobs'[j].kept = jobs[j].kept
      /\ \A i \in Ids \ {j} : jobs'[i] = jobs[i]
      /\ UNCHANGED <<born, order, worker>>
  BY <1>0 DEF Cancel, JobRec
<1>2. s \in Terminal <=> jobs[j].state \in Terminal
  BY DEF Terminal
<1>3. \A i \in Ids : /\ jobs'[i].kept = jobs[i].kept
                     /\ jobs'[i].state \in Terminal <=> jobs[i].state \in Terminal
  BY <1>1, <1>2
<1>4. Known' = Known
  BY <1>3 DEF Known
<1>5. Births' /\ RunningIsKept' /\ OrderMatchesJobs'
  BY <1>1, <1>3, <1>4 DEF IInv, Births, RunningIsKept, OrderMatchesJobs
<1>6. TerminalIffEnded'
  BY <1>1, <1>3, <1>4 DEF IInv, TerminalIffEnded, Known
<1>7. QED
  BY <1>0, <1>5, <1>6 DEF IInv

\* jobs.wait changes nothing but its own state.
LEMMA Waiting_Inv ==
  ASSUME IInv, NEW w \in Waiters, WaitEnter(w) \/ WaiterSteps(w) \/ WaitDeadline(w)
  PROVE  IInv'
<1>0. waiter \in [Waiters -> WaiterRec] /\ waiter[w] \in WaiterRec
      /\ born \in 0..MaxStarts /\ MaxStarts \in Nat
  BY BoundsAssumption DEF IInv, TypeOK, WaiterRec
<1>1. UNCHANGED <<born, jobs, order, worker>>
  BY DEF WaitEnter, WaiterSteps, WaitRecheck, WaitLate, WaitDeadline
<1>2. waiter' \in [Waiters -> WaiterRec]
  <2>1. \A r \in Replies : [waiter EXCEPT ![w].pc = "done", ![w].reply = r]
                             \in [Waiters -> WaiterRec]
    BY <1>0 DEF WaiterRec, WaitPcs
  <2>2. CASE WaitEnter(w)
    <3>1. PICK j \in 1..born :
            waiter' = [waiter EXCEPT ![w] =
              IF j \notin Known THEN [pc |-> "done", job |-> j, reply |-> "unknown"]
              ELSE IF IsTerminal(j)
                THEN [pc |-> "done", job |-> j, reply |-> "terminal"]
                ELSE [pc |-> "parked", job |-> j, reply |-> "none"]]
      BY <2>2 DEF WaitEnter
    <3>2. j \in Ids
      BY <1>0 DEF Ids
    <3>3. QED
      BY <1>0, <3>1, <3>2 DEF WaiterRec, WaitPcs, Replies
  <2>3. CASE WaitRecheck(w)
    BY <1>0, <2>1, <2>3 DEF WaitRecheck, Reply, WaiterRec, WaitPcs, Replies
  <2>4. CASE WaitLate(w)
    BY <1>0, <2>1, <2>4 DEF WaitLate, Reply, Replies
  <2>5. CASE WaitDeadline(w)
    BY <1>0, <2>5 DEF WaitDeadline, WaiterRec, WaitPcs
  <2>6. QED
    BY <2>2, <2>3, <2>4, <2>5 DEF WaiterSteps
<1>3. TypeOK'
  BY <1>1, <1>2 DEF IInv, TypeOK, WaiterRec
<1>4. Known' = Known
  BY <1>1 DEF Known
<1>5. QED
  BY <1>1, <1>3, <1>4
  DEF IInv, Births, RunningIsKept, OrderMatchesJobs, TerminalIffEnded

LEMMA Init_Inv == Init => IInv
<1> SUFFICES ASSUME Init PROVE IInv
  OBVIOUS
<1>1. TypeOK
  BY BoundsAssumption DEF Init, TypeOK, States, WorkerPcs, WaitPcs, Replies
<1>2. \A j \in Ids : ~jobs[j].kept /\ worker[j] = "none" /\ ~(j <= born)
  BY BoundsAssumption DEF Init, Ids
<1>3. Len(order) = 0
  BY DEF Init
<1>4. QED
  BY <1>1, <1>2, <1>3
  DEF IInv, Births, OrderMatchesJobs, RunningIsKept, TerminalIffEnded, Known

LEMMA Next_Inv == ASSUME IInv, [Next]_vars PROVE IInv'
<1>1. CASE UNCHANGED vars
  BY <1>1 DEF vars, IInv, TypeOK, Births, OrderMatchesJobs, RunningIsKept,
     TerminalIffEnded, Known
<1>2. QED
  BY <1>1, Start_Inv, Cancel_Inv, Worker_Inv, Waiting_Inv DEF Next

LEMMA Invariance == Spec => []IInv
<1>1. IInv /\ [Next]_vars => IInv'
  BY Next_Inv
<1>2. QED
  BY <1>1, Init_Inv, PTL DEF Spec

-----------------------------------------------------------------------------
(* The theorems.                                                           *)

\* Every state of the job manager is one of its types, whatever maxJobs is.
THEOREM JobTypes == Spec => []TypeOK
<1>1. IInv => TypeOK
  BY DEF IInv
<1>2. QED
  BY <1>1, Invariance, PTL

\* trimLocked and createQueuedRecord keep order_ and jobs_ in step: order_ lists
\* the jobs of jobs_ and no others, each once, in whatever order the rotation of
\* trimLocked has left them.
THEOREM OrderListsEachJobOnce == Spec => []OrderMatchesJobs
<1>1. IInv => OrderMatchesJobs
  BY DEF IInv
<1>2. QED
  BY <1>1, Invariance, PTL

\* trimLocked never forgets a job that still runs.
THEOREM JobsOutlastTheirThreads == Spec => []RunningIsKept
<1>1. IInv => RunningIsKept
  BY DEF IInv
<1>2. QED
  BY <1>1, Invariance, PTL

\* A job counts as finished exactly when its thread has ended, though cancel
\* writes to the same record.
THEOREM JobsEndWithTheirThreads == Spec => []TerminalIffEnded
<1>1. IInv => TerminalIffEnded
  BY DEF IInv
<1>2. QED
  BY <1>1, Invariance, PTL

\* No cancel, late state or trimming of another job replaces a verdict.
THEOREM VerdictsAreFinal == Spec => VerdictIsFinal
<1>1. ASSUME IInv, [Next]_vars, NEW j \in Ids, IsTerminal(j)
      PROVE  jobs'[j].state = jobs[j].state
  <2>0. /\ jobs \in [Ids -> JobRec] /\ j \in Known /\ jobs[j].state \in Terminal
        /\ worker[j] = "done"
    BY <1>1 DEF IInv, TypeOK, JobRec, IsTerminal, Known, TerminalIffEnded
  <2>1. CASE Start
    <3>1. j # born + 1
      BY <1>1, <2>0, <2>1, Start_Facts
    <3>2. jobs[j] \in JobRec
      BY <2>0
    <3>3. [jobs[j] EXCEPT !.kept = FALSE].state = jobs[j].state
      BY <3>2 DEF JobRec
    <3>4. jobs'[j] = jobs[j] \/ jobs'[j] = [jobs[j] EXCEPT !.kept = FALSE]
      BY <1>1, <2>1, <3>1, Start_Jobs
    <3>5. QED
      BY <3>3, <3>4
  <2>2. CASE \E i \in Ids : Cancel(i)
    BY <2>0, <2>2 DEF Cancel, JobRec
  <2>3. CASE \E i \in Ids : WorkerSteps(i)
    <3>1. PICK i \in Ids : WorkerSteps(i)
      BY <2>3
    <3>2. i # j
      BY <2>0, <3>1 DEF WorkerSteps, ReadJob, SetState, Finish, After
    <3>3. \A s : [jobs EXCEPT ![i].state = s][j] = jobs[j]
      BY <2>0, <3>2
    <3>4. QED
      BY <3>1, <3>3 DEF WorkerSteps, ReadJob, SetState, Finish
  <2>4. CASE UNCHANGED jobs
    BY <2>4
  <2>5. QED
    BY <1>1, <2>1, <2>2, <2>3, <2>4
    DEF Next, vars, WaitEnter, WaiterSteps, WaitRecheck, WaitLate, WaitDeadline
<1>2. IInv /\ [Next]_vars
        => [\A j \in Ids : IsTerminal(j) => jobs'[j].state = jobs[j].state]_vars
  BY <1>1
<1>3. QED
  BY <1>2, Invariance, PTL DEF Spec, VerdictIsFinal

-----------------------------------------------------------------------------
(* What jobs.wait reports.  WInv adds that a wait names a job once it has   *)
(* begun, and that a wait that still goes on has reported nothing.          *)

WInv ==
  \A w \in Waiters :
    /\ waiter[w].pc # "idle" => waiter[w].job \in Ids /\ worker[waiter[w].job] # "none"
    /\ waiter[w].pc # "done" => waiter[w].reply = "none"
    /\ waiter[w].reply \in {"terminal", "exception"} => worker[waiter[w].job] = "done"

\* A thread that has started stays started, and one that has ended, ended.
LEMMA Threads_Advance ==
  ASSUME IInv, [Next]_vars, NEW j \in Ids
  PROVE  /\ worker[j] # "none" => worker'[j] # "none"
         /\ worker[j] = "done" => worker'[j] = "done"
<1>0. worker \in [Ids -> WorkerPcs]
  BY DEF IInv, TypeOK
<1>1. CASE Start
  <2>1. born + 1 \in Ids /\ worker[born + 1] = "none"
    BY <1>1, Start_Facts
  <2>2. worker' = [worker EXCEPT ![born + 1] = "start"]
    BY <1>1 DEF Start
  <2>3. QED
    BY <1>0, <2>1, <2>2
<1>2. CASE \E i \in Ids : WorkerSteps(i)
  <2>1. PICK i \in Ids : WorkerSteps(i)
    BY <1>2
  <2>2. worker[i] # "done"
    BY <2>1 DEF WorkerSteps, ReadJob, SetState, Finish, After
  <2>3. \E at \in WorkerPcs : at # "none" /\ worker' = [worker EXCEPT ![i] = at]
    BY <2>1 DEF WorkerSteps, ReadJob, SetState, Finish, After, WorkerPcs
  <2>4. QED
    BY <1>0, <2>2, <2>3
<1>3. CASE UNCHANGED worker
  BY <1>3
<1>4. QED
  BY <1>1, <1>2, <1>3
  DEF Next, vars, Cancel, WaitEnter, WaiterSteps, WaitRecheck, WaitLate, WaitDeadline

\* A job that has a thread and is trimmed, or is terminal, has lost its thread.
LEMMA Gone_Ended ==
  ASSUME IInv, NEW j \in Ids, worker[j] # "none", j \notin Known \/ IsTerminal(j)
  PROVE  worker[j] = "done"
<1>1. CASE j \notin Known
  BY <1>1 DEF IInv, RunningIsKept
<1>2. CASE IsTerminal(j)
  BY <1>2 DEF IInv, TerminalIffEnded, IsTerminal, Known
<1>3. QED
  BY <1>1, <1>2

\* A step of jobs.wait itself.
LEMMA Waiting_Reports ==
  ASSUME IInv, WInv, NEW w \in Waiters, NEW x \in Waiters,
         WaitEnter(w) \/ WaiterSteps(w) \/ WaitDeadline(w)
  PROVE  /\ waiter'[x].pc # "idle"
              => waiter'[x].job \in Ids /\ worker[waiter'[x].job] # "none"
         /\ waiter'[x].pc # "done" => waiter'[x].reply = "none"
         /\ waiter'[x].reply \in {"terminal", "exception"}
              => worker[waiter'[x].job] = "done"
<1>0. /\ waiter \in [Waiters -> WaiterRec] /\ waiter[w] \in WaiterRec
      /\ born \in 0..MaxStarts /\ MaxStarts \in Nat
  BY BoundsAssumption DEF IInv, TypeOK, WaiterRec
<1>1. CASE x # w
  <2>1. waiter'[x] = waiter[x]
    BY <1>0, <1>1 DEF WaitEnter, WaiterSteps, WaitRecheck, WaitLate, WaitDeadline, Reply
  <2>2. QED
    BY <2>1 DEF WInv
<1>2. CASE x = w /\ WaitEnter(w)
  <2>1. PICK j \in 1..born :
          waiter' = [waiter EXCEPT ![w] =
            IF j \notin Known THEN [pc |-> "done", job |-> j, reply |-> "unknown"]
            ELSE IF IsTerminal(j)
              THEN [pc |-> "done", job |-> j, reply |-> "terminal"]
              ELSE [pc |-> "parked", job |-> j, reply |-> "none"]]
    BY <1>2 DEF WaitEnter
  <2>2. j \in Ids /\ worker[j] # "none"
    BY <1>0 DEF Ids, IInv, Births
  <2>3. IsTerminal(j) => worker[j] = "done"
    BY <2>2, Gone_Ended
  <2>4. waiter'[w] = IF j \notin Known THEN [pc |-> "done", job |-> j, reply |-> "unknown"]
                     ELSE IF IsTerminal(j)
                       THEN [pc |-> "done", job |-> j, reply |-> "terminal"]
                       ELSE [pc |-> "parked", job |-> j, reply |-> "none"]
    BY <1>0, <2>1
  <2>5. QED
    BY <1>2, <2>2, <2>3, <2>4
<1>3. CASE x = w /\ ~WaitEnter(w)
  <2> DEFINE j == waiter[w].job
  <2>1. j \in Ids /\ worker[j] # "none" /\ waiter[w].reply = "none"
    BY <1>3 DEF WInv, WaiterSteps, WaitRecheck, WaitLate, WaitDeadline
  <2>2. j \notin Known \/ IsTerminal(j) => worker[j] = "done"
    BY <2>1, Gone_Ended
  <2>3. \A r : /\ [waiter EXCEPT ![w].pc = "done", ![w].reply = r][w].pc = "done"
               /\ [waiter EXCEPT ![w].pc = "done", ![w].reply = r][w].reply = r
               /\ [waiter EXCEPT ![w].pc = "done", ![w].reply = r][w].job = j
    BY <1>0 DEF WaiterRec
  <2>4. \A p : /\ [waiter EXCEPT ![w].pc = p][w].reply = waiter[w].reply
               /\ [waiter EXCEPT ![w].pc = p][w].job = j
    BY <1>0 DEF WaiterRec
  <2>5. CASE WaitDeadline(w)
    BY <1>3, <2>1, <2>4, <2>5 DEF WaitDeadline
  <2>6. CASE WaitRecheck(w) \/ WaitLate(w)
    <3>1. \/ \E r \in {"terminal", "exception"} :
               /\ j \notin Known \/ IsTerminal(j)
               /\ waiter' = [waiter EXCEPT ![w].pc = "done", ![w].reply = r]
          \/ waiter' = [waiter EXCEPT ![w].pc = "done", ![w].reply = "timed_out"]
          \/ waiter' = [waiter EXCEPT ![w].pc = "parked"]
      BY <2>6 DEF WaitRecheck, WaitLate, Reply
    <3>2. CASE \E r \in {"terminal", "exception"} :
                 /\ j \notin Known \/ IsTerminal(j)
                 /\ waiter' = [waiter EXCEPT ![w].pc = "done", ![w].reply = r]
      <4>1. worker[j] = "done" /\ waiter'[w].pc = "done" /\ waiter'[w].job = j
        BY <3>2, <2>2, <2>3
      <4>2. QED
        BY <1>3, <2>1, <4>1
    <3>3. CASE waiter' = [waiter EXCEPT ![w].pc = "done", ![w].reply = "timed_out"]
      <4>1. /\ waiter'[w].pc = "done" /\ waiter'[w].job = j
            /\ waiter'[w].reply = "timed_out"
        BY <3>3, <2>3
      <4>2. QED
        BY <1>3, <2>1, <4>1
    <3>4. CASE waiter' = [waiter EXCEPT ![w].pc = "parked"]
      <4>1. waiter'[w].job = j /\ waiter'[w].reply = "none"
        BY <3>4, <2>1, <2>4
      <4>2. QED
        BY <1>3, <2>1, <4>1
    <3>5. QED
      BY <3>1, <3>2, <3>3, <3>4
  <2>7. QED
    BY <1>3, <2>5, <2>6 DEF WaiterSteps
<1>4. QED
  BY <1>1, <1>2, <1>3

LEMMA WInv_Step == ASSUME IInv, WInv, [Next]_vars PROVE WInv'
<1>0. waiter \in [Waiters -> WaiterRec]
  BY DEF IInv, TypeOK, WaiterRec
<1>1. CASE \E w \in Waiters : WaitEnter(w) \/ WaiterSteps(w) \/ WaitDeadline(w)
  <2>1. PICK w \in Waiters : WaitEnter(w) \/ WaiterSteps(w) \/ WaitDeadline(w)
    BY <1>1
  <2>2. worker' = worker
    BY <2>1 DEF WaitEnter, WaiterSteps, WaitRecheck, WaitLate, WaitDeadline
  <2>3. QED
    BY <2>1, <2>2, Waiting_Reports DEF WInv
<1>2. CASE waiter' = Notified \/ waiter' = waiter
  <2> SUFFICES ASSUME NEW w \in Waiters
               PROVE  /\ waiter'[w].pc # "idle"
                           => waiter'[w].job \in Ids /\ worker'[waiter'[w].job] # "none"
                      /\ waiter'[w].pc # "done" => waiter'[w].reply = "none"
                      /\ waiter'[w].reply \in {"terminal", "exception"}
                           => worker'[waiter'[w].job] = "done"
    BY DEF WInv
  <2>1. waiter[w] \in WaiterRec
    BY <1>0
  <2>2. /\ waiter'[w].job = waiter[w].job /\ waiter'[w].reply = waiter[w].reply
        /\ waiter'[w].pc = "idle" <=> waiter[w].pc = "idle"
        /\ waiter'[w].pc = "done" <=> waiter[w].pc = "done"
    BY <1>0, <1>2, <2>1 DEF Notified, WaiterRec
  <2>3. waiter[w].reply \in {"terminal", "exception"} => waiter[w].pc = "done"
    BY DEF WInv
  <2>4. waiter[w].pc # "idle" => waiter[w].job \in Ids /\ worker[waiter[w].job] # "none"
    BY DEF WInv
  <2>5. waiter[w].pc # "idle" =>
          /\ worker'[waiter[w].job] # "none"
          /\ worker[waiter[w].job] = "done" => worker'[waiter[w].job] = "done"
    BY <2>4, Threads_Advance
  <2>6. QED
    BY <2>2, <2>3, <2>4, <2>5 DEF WInv
<1>3. QED
  BY <1>1, <1>2 DEF Next, vars, Start, Cancel, WorkerSteps, ReadJob, SetState, Finish

\* jobs.wait answers "terminal", or throws, only once the job's thread has
\* ended, whatever was started, cancelled and trimmed while it was blocked.
THEOREM WaitsReportTheEnd == Spec => []WaitReportsEnded
<1>1. Init => WInv
  BY DEF Init, WInv
<1>2. IInv /\ WInv /\ [Next]_vars => WInv'
  BY WInv_Step
<1>3. WInv => WaitReportsEnded
  BY DEF WInv, WaitReportsEnded
<1>4. QED
  BY <1>1, <1>2, <1>3, Invariance, PTL DEF Spec
=============================================================================
