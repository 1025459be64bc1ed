--------------------------- MODULE JobWorkerProofs ---------------------------
(***************************************************************************)
(* What JobWorker guarantees for any number of jobs, pool threads,         *)
(* timeouts and restarts: its types, the retry budget, that no job is      *)
(* orphaned or lost, and that an undisturbed job has one executor and      *)
(* keeps its final status.                                                 *)
(***************************************************************************)
EXTENDS JobWorker, SequenceTheorems, TLAPS

(* A record of the store, when there is one, is a Records element that     *)
(* every write of the worker keeps in Records.                             *)
LEMMA RecordWrites ==
  ASSUME NEW v \in Records
  PROVE  /\ v # Absent
         /\ \A s \in Active \cup Final : [v EXCEPT !.status = s] \in Records
         /\ \A a \in {"unset", "fresh", "old"} : [v EXCEPT !.age = a] \in Records
         /\ \A s \in Active \cup Final, a \in {"unset", "fresh", "old"} :
              [v EXCEPT !.status = s, !.age = a] \in Records
         /\ \A s \in Active \cup Final, a \in {"unset", "fresh", "old"}, k \in Nat :
              [v EXCEPT !.status = s, !.retries = k, !.age = a] \in Records
         /\ Reaped(v) \in Records /\ Promoted(v) \in Records
PROOF
<1>1. v # Absent
  BY WorkerAssumption
<1>2. \A s \in Active \cup Final : [v EXCEPT !.status = s] \in Records
  BY DEF Records
<1>3. \A s \in Active \cup Final, a \in {"unset", "fresh", "old"} :
        [v EXCEPT !.status = s, !.age = a] \in Records
  BY DEF Records
<1>4. \A s \in Active \cup Final, a \in {"unset", "fresh", "old"}, k \in Nat :
        [v EXCEPT !.status = s, !.retries = k, !.age = a] \in Records
  BY DEF Records
<1>8. \A a \in {"unset", "fresh", "old"} : [v EXCEPT !.age = a] \in Records
  BY DEF Records
<1>5. Reaped(v) \in Records
  <2>1. v.retries + 1 \in Nat
    BY DEF Records
  <2> QED BY <1>2, <1>4, <2>1 DEF Reaped, Active, Final
<1>6. Promoted(v) \in Records
  BY DEF Promoted, Records, Active
<1> QED BY <1>1, <1>2, <1>3, <1>4, <1>5, <1>6, <1>8

(* Every variable of the worker model keeps its type.                      *)
THEOREM TypeCorrect == Spec => []TypeOK
PROOF
<1>1. Init => TypeOK
  BY WorkerAssumption DEF Init, TypeOK
<1>2. TypeOK /\ [Next]_vars => TypeOK'
  <2> SUFFICES ASSUME TypeOK, [Next]_vars PROVE TypeOK'
    OBVIOUS
  <2> USE WorkerAssumption DEF TypeOK
  <2>1. ASSUME NEW j \in Jobs, Submit(j) PROVE TypeOK'
    BY <2>1 DEF Submit, Snapshot, Records, Active
  <2>2. ASSUME NEW j \in Jobs, Remove(j) PROVE TypeOK'
    BY <2>2 DEF Remove, Snapshot
  <2>3. ASSUME NEW j \in Jobs, Claim(j) PROVE TypeOK'
    <3>1. store' \in [Jobs -> Records \cup {Absent}]
      BY <2>3, RecordWrites DEF Claim, Present, Active
    <3>2. runs' \in Seq(Runs)
      BY <2>3 DEF Claim, Runs
    <3> QED BY <2>3, <3>1, <3>2 DEF Claim
  <2>4. ASSUME NEW j \in Jobs, Timeout(j) PROVE TypeOK'
    <3>1. [store[j] EXCEPT !.age = "old"] \in Records
      BY <2>4, RecordWrites DEF Timeout, Present
    <3> QED BY <2>4, <3>1 DEF Timeout
  <2>5. CASE PutOther
    BY <2>5 DEF PutOther, Snapshot
  <2>6. CASE Restart
    BY <2>6 DEF Restart
  <2>7. CASE Reap
    BY <2>7, RecordWrites DEF Reap, Reaped, TimedOut
  <2>8. CASE Promote
    BY <2>8, RecordWrites DEF Promote, Promoted
  <2>9. ASSUME NEW r \in DOMAIN runs, RunJob(r) PROVE TypeOK'
    <3>1. runs[r] \in Runs
      OBVIOUS
    <3>2. ASSUME NEW s \in {"queued", "executing", "backoff", "giveup", "over"},
                 NEW k \in Nat, SetRun(r, s, k)
          PROVE  runs' \in Seq(Runs)
      <4>1. [runs[r] EXCEPT !.step = s, !.seen = k] \in Runs
        BY <3>1 DEF Runs
      <4>2. runs' = [runs EXCEPT ![r] = [runs[r] EXCEPT !.step = s, !.seen = k]]
        BY <3>2 DEF SetRun
      <4>3. ASSUME NEW x \in Runs PROVE [runs EXCEPT ![r] = x] \in Seq(Runs)
        OBVIOUS
      <4> QED BY <4>1, <4>2, <4>3
    <3>3. ASSUME NEW v, Present(runs[r].job) => v \in Records,
                 Update(runs[r].job, v)
          PROVE  store' \in [Jobs -> Records \cup {Absent}]
      BY <3>1, <3>3 DEF Update, Present, Runs
    <3>4. Present(runs[r].job) => store[runs[r].job] \in Records
      BY <3>1 DEF Present, Runs
    <3>5. CASE Start(r)
      BY <3>5, <3>2, <3>3, <3>4, RecordWrites DEF Start, Active
    <3>6. CASE Succeed(r)
      BY <3>6, <3>2, <3>3, <3>4, RecordWrites DEF Succeed, Final
    <3>7. CASE Fail(r)
      BY <3>7, <3>2, <3>4 DEF Fail, Records
    <3>8. CASE Requeue(r)
      <4>1. runs[r].seen + 1 \in Nat
        BY <3>1 DEF Runs
      <4>2. Present(runs[r].job) =>
              [store[runs[r].job] EXCEPT !.status = "pending",
                 !.retries = runs[r].seen + 1, !.age = "unset"] \in Records
        BY <3>4, <4>1, RecordWrites DEF Active
      <4>3. store' \in [Jobs -> Records \cup {Absent}]
        BY <3>8, <3>3, <4>2 DEF Requeue
      <4>4. runs' \in Seq(Runs)
        BY <3>8, <3>2 DEF Requeue
      <4> QED BY <3>8, <4>3, <4>4 DEF Requeue
    <3>9. CASE GiveUp(r)
      BY <3>9, <3>2, <3>3, <3>4, RecordWrites DEF GiveUp, Final
    <3> QED BY <2>9, <3>5, <3>6, <3>7, <3>8, <3>9 DEF RunJob
  <2>10. CASE UNCHANGED vars
    BY <2>10 DEF vars
  <2> QED
    BY <2>1, <2>2, <2>3, <2>4, <2>5, <2>6, <2>7, <2>8, <2>9, <2>10 DEF Next
<1> QED BY <1>1, <1>2, PTL DEF Spec
(***************************************************************************)
(* The retry budget                                                        *)
(***************************************************************************)
(* RetriesWithinBudget is not inductive: a thread asleep in its back-off   *)
(* writes one more than the count it read, and a restart brings back the   *)
(* counts of the snapshot.                                                 *)
SeenBelowBudget ==
  \A r \in DOMAIN runs : runs[r].step = "backoff" => runs[r].seen < MaxRetries

BudgetInv ==
  /\ TypeOK
  /\ RetriesWithinBudget
  /\ \A j \in Jobs : disk[j] # Absent => disk[j].retries <= MaxRetries
  /\ SeenBelowBudget

(* No interleaving of _run_job, the reaper, the promotion of replicas and  *)
(* restarts takes a record's retry_count beyond MAX_JOB_RETRIES.           *)
THEOREM RetryBudget == Spec => []RetriesWithinBudget
PROOF
<1>1. Init => BudgetInv
  BY WorkerAssumption DEF Init, BudgetInv, TypeOK, RetriesWithinBudget, SeenBelowBudget
<1>2. BudgetInv /\ TypeOK' /\ [Next]_vars => BudgetInv'
  <2> SUFFICES ASSUME BudgetInv, TypeOK', [Next]_vars PROVE BudgetInv'
    OBVIOUS
  <2> USE WorkerAssumption DEF BudgetInv, RetriesWithinBudget
  <2>1. ASSUME NEW j \in Jobs, Submit(j) PROVE BudgetInv'
    BY <2>1 DEF Submit, Snapshot, SeenBelowBudget, TypeOK
  <2>2. ASSUME NEW j \in Jobs, Remove(j) PROVE BudgetInv'
    BY <2>2 DEF Remove, Snapshot, SeenBelowBudget, TypeOK
  <2>3. ASSUME NEW j \in Jobs, Claim(j) PROVE BudgetInv'
    <3>1. RetriesWithinBudget' /\ disk' = disk
      <4>1. store[j] \in Records /\ store[j].retries <= MaxRetries
        BY <2>3 DEF Claim, Present, TypeOK
      <4>2. \A v \in Records : \A s, a : [v EXCEPT !.status = s, !.age = a].retries = v.retries
        BY DEF Records
      <4>3. store' = [store EXCEPT ![j] =
                        [store[j] EXCEPT !.status = "claimed", !.age = "fresh"]]
        BY <2>3 DEF Claim, TypeOK
      <4> QED BY <2>3, <4>1, <4>2, <4>3 DEF Claim, TypeOK
    <3>2. SeenBelowBudget'
      BY <2>3 DEF Claim, SeenBelowBudget, TypeOK
    <3> QED BY <3>1, <3>2
  <2>4. ASSUME NEW j \in Jobs, Timeout(j) PROVE BudgetInv'
    BY <2>4 DEF Timeout, Present, SeenBelowBudget, TypeOK, Records
  <2>5. CASE PutOther
    BY <2>5 DEF PutOther, Snapshot, SeenBelowBudget, TypeOK
  <2>6. CASE Restart
    BY <2>6 DEF Restart, SeenBelowBudget, TypeOK
  <2>7. CASE Reap
    <3>1. \A v \in Records : v.retries <= MaxRetries => Reaped(v).retries <= MaxRetries
      BY DEF Reaped, Records
    <3>2. RetriesWithinBudget'
      BY <2>7, <3>1, ZenonT(60) DEF Reap, TypeOK, Reaped, TimedOut
    <3> QED BY <2>7, <3>2 DEF Reap, SeenBelowBudget
  <2>8. CASE Promote
    <3>1. \A v \in Records : Promoted(v).retries = v.retries
      BY DEF Promoted, Records
    <3>2. RetriesWithinBudget'
      BY <2>8, <3>1 DEF Promote, TypeOK, Promoted
    <3> QED BY <2>8, <3>2 DEF Promote, SeenBelowBudget
  <2>9. ASSUME NEW r \in DOMAIN runs, RunJob(r) PROVE BudgetInv'
    <3>1. runs[r] \in Runs /\ runs[r].job \in Jobs
      <4>1. runs[r] \in Runs
        BY DEF TypeOK
      <4> QED BY <4>1 DEF Runs
    <3>2. ASSUME NEW s, NEW k, SetRun(r, s, k), s = "backoff" => k < MaxRetries
          PROVE  SeenBelowBudget'
      BY <3>2, <3>1 DEF SetRun, SeenBelowBudget, TypeOK, Runs
    <3>3. ASSUME NEW v, Update(runs[r].job, v),
                 Present(runs[r].job) => v.retries <= MaxRetries
          PROVE  RetriesWithinBudget'
      BY <3>3, <3>1 DEF Update, Present, TypeOK
    <3>4. Present(runs[r].job) =>
            store[runs[r].job] \in Records /\ store[runs[r].job].retries <= MaxRetries
      BY <3>1 DEF Present, TypeOK
    <3>5. \A v \in Records : \A s : [v EXCEPT !.status = s].retries = v.retries
      BY DEF Records
    <3>6. CASE Start(r)
      <4>1. RetriesWithinBudget'
        BY <3>6, <3>3, <3>4, <3>5 DEF Start
      <4> QED BY <3>6, <4>1, <3>2 DEF Start
    <3>7. CASE Succeed(r)
      <4>1. RetriesWithinBudget'
        BY <3>7, <3>3, <3>4, <3>5 DEF Succeed
      <4> QED BY <3>7, <4>1, <3>2 DEF Succeed
    <3>8. CASE Fail(r)
      <4>1. SeenBelowBudget'
        BY <3>8, <3>2 DEF Fail
      <4> QED BY <3>8, <4>1 DEF Fail
    <3>9. CASE Requeue(r)
      <4>1. runs[r].seen \in Nat /\ runs[r].seen + 1 <= MaxRetries
        BY <3>9, <3>1 DEF Requeue, SeenBelowBudget, Runs
      <4>2. Present(runs[r].job) =>
              [store[runs[r].job] EXCEPT !.status = "pending",
                 !.retries = runs[r].seen + 1, !.age = "unset"].retries <= MaxRetries
        BY <3>4, <4>1 DEF Records
      <4>3. RetriesWithinBudget'
        BY <3>9, <3>3, <4>2 DEF Requeue
      <4> QED BY <3>9, <4>3, <3>2 DEF Requeue
    <3>10. CASE GiveUp(r)
      <4>1. RetriesWithinBudget'
        BY <3>10, <3>3, <3>4, <3>5 DEF GiveUp
      <4> QED BY <3>10, <4>1, <3>2 DEF GiveUp
    <3> QED BY <2>9, <3>6, <3>7, <3>8, <3>9, <3>10 DEF RunJob
  <2>10. CASE UNCHANGED vars
    BY <2>10 DEF vars, SeenBelowBudget
  <2> QED
    BY <2>1, <2>2, <2>3, <2>4, <2>5, <2>6, <2>7, <2>8, <2>9, <2>10 DEF Next
<1>3. BudgetInv => RetriesWithinBudget
  BY DEF BudgetInv
<1> QED BY <1>1, <1>2, <1>3, TypeCorrect, PTL DEF Spec
(***************************************************************************)
(* No orphans                                                              *)
(***************************************************************************)
(* The executions of a job that are not over.                              *)
HasOpenRun(j) == \E r \in RunsOf(j) : Open(r)

(* A step of the pool leaves the other executions alone.                   *)
LEMMA SetRunEffect ==
  ASSUME TypeOK, NEW r \in DOMAIN runs, NEW s, NEW k, SetRun(r, s, k)
  PROVE  /\ DOMAIN runs' = DOMAIN runs
         /\ runs'[r].job = runs[r].job /\ runs'[r].step = s
         /\ \A q \in DOMAIN runs \ {r} : runs'[q] = runs[q]
         /\ runs[r].job \in Jobs
PROOF
<1>1. runs[r] \in Runs
  BY DEF TypeOK
<1> QED BY <1>1 DEF SetRun, TypeOK, Runs

(* Until the node restarts, a CLAIMED or RUNNING job has a pool thread     *)
(* that has still to write its record (worker.py and the promotion in      *)
(* FailureWatcherThread._recover, interleaved in any way).                 *)
THEOREM NoOrphans == Spec => []ActiveHasExecutor
PROOF
<1> DEFINE Orphanless == \A j \in Jobs :
             store[j] # Absent /\ store[j].status \in {"claimed", "running"}
               => HasOpenRun(j)
           OInv == TypeOK /\ (lives = MaxRestarts => Orphanless)
<1>1. Init => OInv
  BY WorkerAssumption DEF Init, TypeOK
<1>2. TypeOK /\ OInv /\ TypeOK' /\ [Next]_vars => OInv'
  <2> SUFFICES ASSUME TypeOK, OInv, TypeOK', [Next]_vars, lives' = MaxRestarts
               PROVE  Orphanless'
    OBVIOUS
  <2>0. CASE Restart
    BY <2>0, WorkerAssumption DEF Restart, TypeOK
  <2> SUFFICES ASSUME ~Restart PROVE Orphanless'
    BY <2>0
  <2>a. Orphanless
    BY WorkerAssumption DEF Next, Submit, Remove, Claim, Timeout, PutOther, Reap, Promote,
       RunJob, Start, Succeed, Fail, Requeue, GiveUp, vars
  <2>1. ASSUME NEW j \in Jobs, Submit(j) PROVE Orphanless'
    BY <2>1, <2>a DEF Submit, HasOpenRun, RunsOf, Open, TypeOK
  <2>2. ASSUME NEW j \in Jobs, Remove(j) PROVE Orphanless'
    BY <2>2, <2>a DEF Remove, HasOpenRun, RunsOf, Open, TypeOK
  <2>3. ASSUME NEW j \in Jobs, Claim(j) PROVE Orphanless'
    <3>1. /\ DOMAIN runs' = 1 .. Len(runs) + 1 /\ Len(runs) \in Nat
          /\ DOMAIN runs = 1 .. Len(runs)
          /\ runs'[Len(runs) + 1] = [job |-> j, step |-> "queued", seen |-> 0]
          /\ \A r \in DOMAIN runs : runs'[r] = runs[r]
      BY <2>3 DEF Claim, TypeOK
    <3>2. HasOpenRun(j)'
      BY <3>1 DEF HasOpenRun, RunsOf, Open
    <3>3. \A i \in Jobs : HasOpenRun(i) => HasOpenRun(i)'
      BY <3>1 DEF HasOpenRun, RunsOf, Open
    <3>4. \A i \in Jobs \ {j} : store'[i] = store[i]
      BY <2>3 DEF Claim, TypeOK
    <3> QED BY <2>a, <3>2, <3>3, <3>4
  <2>4. ASSUME NEW j \in Jobs, Timeout(j) PROVE Orphanless'
    <3>1. \A i \in Jobs : store'[i] # Absent /\ store'[i].status \in {"claimed", "running"}
            => store[i] # Absent /\ store[i].status = store'[i].status
      BY <2>4 DEF Timeout, Present, TypeOK, Records
    <3> QED BY <2>4, <2>a, <3>1 DEF Timeout, HasOpenRun, RunsOf, Open
  <2>5. CASE PutOther
    BY <2>5, <2>a DEF PutOther, HasOpenRun, RunsOf, Open
  <2>7. CASE Reap
    <3>1. \A v \in Records : Reaped(v).status \in {"claimed", "running"}
            => Reaped(v).status = v.status
      BY DEF Reaped, Records
    <3>2. \A i \in Jobs : store'[i] # Absent /\ store'[i].status \in {"claimed", "running"}
            => store[i] # Absent /\ store[i].status = store'[i].status
      <4>1. Reaped(Absent) = Absent
        BY DEF Reaped, TimedOut
      <4> QED BY <2>7, <3>1, <4>1 DEF Reap, TypeOK
    <3> QED BY <2>7, <2>a, <3>2 DEF Reap, HasOpenRun, RunsOf, Open
  <2>8. CASE Promote
    <3>1. \A v \in Records : Promoted(v).status \in {"claimed", "running"}
            => Promoted(v).status = v.status
      BY DEF Promoted, Records
    <3>2. \A i \in Jobs : store'[i] # Absent /\ store'[i].status \in {"claimed", "running"}
            => store[i] # Absent /\ store[i].status = store'[i].status
      BY <2>8, <3>1 DEF Promote, TypeOK, Promoted
    <3> QED BY <2>8, <2>a, <3>2 DEF Promote, HasOpenRun, RunsOf, Open
  <2>9. ASSUME NEW r \in DOMAIN runs, RunJob(r) PROVE Orphanless'
    <3> DEFINE j == runs[r].job
    <3>1. j \in Jobs
      <4>1. runs[r] \in Runs
        BY DEF TypeOK
      <4> QED BY <4>1 DEF Runs
    <3>2. ASSUME NEW s, NEW k, SetRun(r, s, k), s # "over"
          PROVE  \A i \in Jobs : HasOpenRun(i) \/ i = j => HasOpenRun(i)'
      BY <3>2, SetRunEffect DEF HasOpenRun, RunsOf, Open
    <3>3. ASSUME NEW s, NEW k, SetRun(r, s, k)
          PROVE  \A i \in Jobs \ {j} : HasOpenRun(i) => HasOpenRun(i)'
      BY <3>3, SetRunEffect DEF HasOpenRun, RunsOf, Open
    <3>4. ASSUME NEW v, Update(j, v) PROVE \A i \in Jobs \ {j} : store'[i] = store[i]
      BY <3>4 DEF Update, TypeOK
    <3>5. ASSUME NEW v, Update(j, v), NEW k, SetRun(r, "over", k),
                 Present(j) => v.status \notin {"claimed", "running"}
          PROVE  Orphanless'
      <4>1. store'[j] # Absent => store'[j].status \notin {"claimed", "running"}
        BY <3>5, <3>1 DEF Update, Present, TypeOK
      <4> QED BY <2>a, <3>5, <3>3, <3>4, <4>1
    <3>6. Present(j) => store[j] \in Records
      BY <3>1 DEF Present, TypeOK
    <3>7. \A v \in Records : \A s : [v EXCEPT !.status = s].status = s
      BY DEF Records
    <3>8. CASE Start(r)
      <4>1. \A i \in Jobs : HasOpenRun(i) \/ i = j => HasOpenRun(i)'
        BY <3>8, <3>2 DEF Start
      <4>2. \A i \in Jobs \ {j} : store'[i] = store[i]
        BY <3>8, <3>4 DEF Start
      <4> QED BY <2>a, <4>1, <4>2
    <3>9. CASE Succeed(r)
      BY <3>9, <3>5, <3>6, <3>7 DEF Succeed
    <3>10. CASE Fail(r)
      <4>1. \A i \in Jobs : HasOpenRun(i) => HasOpenRun(i)'
        BY <3>10, <3>2 DEF Fail
      <4> QED BY <3>10, <2>a, <4>1 DEF Fail
    <3>11. CASE Requeue(r)
      <4>1. Present(j) => [store[j] EXCEPT !.status = "pending",
              !.retries = runs[r].seen + 1, !.age = "unset"].status = "pending"
        BY <3>6 DEF Records
      <4> QED BY <3>11, <3>5, <4>1 DEF Requeue
    <3>12. CASE GiveUp(r)
      BY <3>12, <3>5, <3>6, <3>7 DEF GiveUp
    <3> QED BY <2>9, <3>8, <3>9, <3>10, <3>11, <3>12 DEF RunJob
  <2>10. CASE UNCHANGED vars
    BY <2>10, <2>a DEF vars, HasOpenRun, RunsOf, Open
  <2> QED
    BY <2>1, <2>2, <2>3, <2>4, <2>5, <2>7, <2>8, <2>9, <2>10 DEF Next
<1>3. OInv => ActiveHasExecutor
  BY DEF ActiveHasExecutor, HasOpenRun
<1> QED BY <1>1, <1>2, <1>3, TypeCorrect, PTL DEF Spec
(***************************************************************************)
(* The snapshot                                                            *)
(***************************************************************************)
(* While a restart is still to come, the snapshot has a record for exactly *)
(* the jobs the store has one for; only put and delete add or remove keys, *)
(* and both save.                                                          *)
SameKeys ==
  lives > 0 => \A j \in Jobs : disk[j] = Absent <=> store[j] = Absent

(* A restart from the snapshot loses no accepted job and revives no        *)
(* removed one (node.put, node.delete, _load_from_disk).                   *)
THEOREM RestartKeepsJobs == Spec => JobsSurviveRestart
PROOF
<1>1. Init => SameKeys
  BY DEF Init, SameKeys
<1>2. TypeOK /\ TypeOK' /\ SameKeys /\ [Next]_vars => SameKeys'
  <2> SUFFICES ASSUME TypeOK, TypeOK', SameKeys, [Next]_vars, lives' > 0
               PROVE  \A i \in Jobs : disk'[i] = Absent <=> store'[i] = Absent
    BY DEF SameKeys
  <2> USE WorkerAssumption DEF SameKeys
  <2>1. ASSUME NEW j \in Jobs, Submit(j)
        PROVE  \A i \in Jobs : disk'[i] = Absent <=> store'[i] = Absent
    BY <2>1 DEF Submit, Snapshot
  <2>2. ASSUME NEW j \in Jobs, Remove(j)
        PROVE  \A i \in Jobs : disk'[i] = Absent <=> store'[i] = Absent
    BY <2>2 DEF Remove, Snapshot
  <2>3. CASE PutOther
    BY <2>3 DEF PutOther, Snapshot
  <2>4. CASE Restart
    BY <2>4 DEF Restart
  <2>5. ASSUME lives' = lives, disk' = disk,
               \A i \in Jobs : store'[i] = Absent <=> store[i] = Absent
        PROVE  \A i \in Jobs : disk'[i] = Absent <=> store'[i] = Absent
    BY <2>5
  <2>6. ASSUME NEW j \in Jobs, NEW v \in Records, store[j] # Absent,
               store' = [store EXCEPT ![j] = v]
        PROVE  \A i \in Jobs : store'[i] = Absent <=> store[i] = Absent
    BY <2>6, RecordWrites DEF TypeOK
  <2>7. ASSUME NEW j \in Jobs, Claim(j)
        PROVE  \A i \in Jobs : disk'[i] = Absent <=> store'[i] = Absent
    <3>1. [store[j] EXCEPT !.status = "claimed", !.age = "fresh"] \in Records
      BY <2>7, RecordWrites DEF Claim, Present, TypeOK, Active
    <3>2. store' = [store EXCEPT ![j] =
                      [store[j] EXCEPT !.status = "claimed", !.age = "fresh"]]
      BY <2>7 DEF Claim, TypeOK
    <3> QED BY <2>5, <2>6, <2>7, <3>1, <3>2 DEF Claim, Present
  <2>8. ASSUME NEW j \in Jobs, Timeout(j)
        PROVE  \A i \in Jobs : disk'[i] = Absent <=> store'[i] = Absent
    <3>1. [store[j] EXCEPT !.age = "old"] \in Records
      BY <2>8, RecordWrites DEF Timeout, Present, TypeOK
    <3>2. store' = [store EXCEPT ![j] = [store[j] EXCEPT !.age = "old"]]
      BY <2>8 DEF Timeout, TypeOK
    <3> QED BY <2>5, <2>6, <2>8, <3>1, <3>2 DEF Timeout, Present
  <2>9. CASE Reap
    <3>1. Reaped(Absent) = Absent
      BY DEF Reaped, TimedOut
    <3>2. \A v \in Records : Reaped(v) # Absent
      BY RecordWrites
    <3> QED BY <2>5, <2>9, <3>1, <3>2 DEF Reap, TypeOK
  <2>10. CASE Promote
    <3>1. Promoted(Absent) = Absent
      BY DEF Promoted
    <3>2. \A v \in Records : Promoted(v) # Absent
      BY RecordWrites
    <3> QED BY <2>5, <2>10, <3>1, <3>2 DEF Promote, TypeOK
  <2>11. ASSUME NEW r \in DOMAIN runs, RunJob(r)
         PROVE  \A i \in Jobs : disk'[i] = Absent <=> store'[i] = Absent
    <3>1. runs[r].job \in Jobs
      <4>1. runs[r] \in Runs
        BY DEF TypeOK
      <4> QED BY <4>1 DEF Runs
    <3>2. store' # store => Present(runs[r].job)
      BY <2>11 DEF RunJob, Start, Succeed, Fail, Requeue, GiveUp, Update
    <3>3. \A i \in Jobs \ {runs[r].job} : store'[i] = store[i]
      BY <2>11 DEF RunJob, Start, Succeed, Fail, Requeue, GiveUp, Update, TypeOK
    <3>4. Present(runs[r].job) => store'[runs[r].job] # Absent
      <4> SUFFICES ASSUME Present(runs[r].job) PROVE store'[runs[r].job] # Absent
        OBVIOUS
      <4>1. store[runs[r].job] \in Records
        BY <3>1 DEF Present, TypeOK
      <4>2. runs[r].seen + 1 \in Nat
        <5>1. runs[r] \in Runs
          BY DEF TypeOK
        <5> QED BY <5>1 DEF Runs
      <4>3. store' = store \/ \E v \in Records : store' = [store EXCEPT ![runs[r].job] = v]
        <5>1. CASE Start(r)
          BY <5>1, <4>1, RecordWrites DEF Start, Update, Active
        <5>2. CASE Succeed(r)
          BY <5>2, <4>1, RecordWrites DEF Succeed, Update, Final
        <5>3. CASE Fail(r)
          BY <5>3 DEF Fail
        <5>4. CASE Requeue(r)
          BY <5>4, <4>1, <4>2, RecordWrites DEF Requeue, Update, Active
        <5>5. CASE GiveUp(r)
          BY <5>5, <4>1, RecordWrites DEF GiveUp, Update, Final
        <5> QED BY <2>11, <5>1, <5>2, <5>3, <5>4, <5>5 DEF RunJob
      <4> QED BY <3>1, <4>1, <4>3 DEF TypeOK
    <3>5. lives' = lives /\ disk' = disk
      BY <2>11 DEF RunJob, Start, Succeed, Fail, Requeue, GiveUp
    <3> QED BY <2>5, <3>1, <3>2, <3>3, <3>4, <3>5 DEF Present
  <2>12. CASE UNCHANGED vars
    BY <2>12 DEF vars
  <2> QED
    BY <2>1, <2>2, <2>3, <2>4, <2>7, <2>8, <2>9, <2>10, <2>11, <2>12 DEF Next
<1>3. TypeOK /\ SameKeys /\ [Next]_vars =>
        [lives' # lives => \A j \in Jobs : store'[j] = Absent <=> store[j] = Absent]_vars
  <2> SUFFICES ASSUME TypeOK, SameKeys, Next, lives' # lives
               PROVE  \A j \in Jobs : store'[j] = Absent <=> store[j] = Absent
    OBVIOUS
  <2>1. Restart
    BY DEF Next, Submit, Remove, Claim, Timeout, PutOther, Reap, Promote,
           RunJob, Start, Succeed, Fail, Requeue, GiveUp
  <2> QED BY <2>1, WorkerAssumption DEF Restart, SameKeys, TypeOK
<1> QED BY <1>1, <1>2, <1>3, TypeCorrect, PTL DEF Spec, JobsSurviveRestart

(***************************************************************************)
(* One execution at a time                                                 *)
(***************************************************************************)
(* A thread that is not over and the status its job's record then has; a   *)
(* record that is pending or final has no such thread, and none has two.   *)
StatusAt(step) == IF step = "queued" THEN "claimed" ELSE "running"
OneRun(j) == \A r \in RunsOf(j) : Open(r) =>
  /\ store[j].status = StatusAt(runs[r].step)
  /\ \A q \in RunsOf(j) : Open(q) => q = r

(* Before the first restart: a job that has not been submitted has left no *)
(* trace, only replicas are marked so, and before the first time-out no    *)
(* claim is old.                                                           *)
Untouched(j) == j \in new => store[j] = Absent /\ RunsOf(j) = {}
Marked(j) == Present(j) /\ store[j].replica => j \in Replicas
Timely(j) == ticks = MaxTimeouts /\ Present(j) => store[j].age # "old"
CalmJob(j) == Untouched(j) /\ Marked(j) /\ Timely(j) /\ (Undisturbed(j) => OneRun(j))
Calm == lives = MaxRestarts => \A j \in Jobs : CalmJob(j)

(* A step that leaves a job's record and threads alone.                    *)
LEMMA CalmElsewhere ==
  ASSUME NEW j \in Jobs, CalmJob(j), lives' = lives, lives = MaxRestarts,
         j \in new' => j \in new, ticks' = MaxTimeouts => ticks = MaxTimeouts,
         store'[j] = store[j],
         \A r \in DOMAIN runs' : runs'[r].job = j => r \in DOMAIN runs /\ runs'[r] = runs[r]
  PROVE  CalmJob(j)'
<1>1. \A r \in RunsOf(j)' : r \in RunsOf(j) /\ runs'[r] = runs[r]
  BY DEF RunsOf
<1>2. Untouched(j)' /\ Marked(j)' /\ Timely(j)'
  BY <1>1 DEF CalmJob, Untouched, Marked, Timely, Present
<1>3. Undisturbed(j)' => OneRun(j)'
  <2> SUFFICES ASSUME Undisturbed(j)' PROVE OneRun(j)'
    OBVIOUS
  <2>1. OneRun(j)
    BY DEF CalmJob, Undisturbed, Present
  <2> QED BY <1>1, <2>1 DEF OneRun, Open
<1> QED BY <1>2, <1>3 DEF CalmJob

(* A job that has a record, or a thread, was submitted.                    *)
LEMMA SubmittedStays ==
  ASSUME NEW j \in Jobs, Untouched(j), Present(j) \/ RunsOf(j) # {}, new' = new
  PROVE  Untouched(j)'
BY DEF Untouched, Present

LEMMA ClaimCalm ==
  ASSUME TypeOK, NEW i \in Jobs, NEW j \in Jobs, CalmJob(j), lives = MaxRestarts, Claim(i)
  PROVE  CalmJob(j)'
<1>1. /\ DOMAIN runs = 1 .. Len(runs) /\ Len(runs) \in Nat
      /\ DOMAIN runs' = 1 .. Len(runs) + 1
      /\ runs'[Len(runs) + 1] = [job |-> i, step |-> "queued", seen |-> 0]
      /\ \A r \in DOMAIN runs : runs'[r] = runs[r]
  BY DEF Claim, TypeOK
<1>2. new' = new /\ ticks' = ticks /\ lives' = lives
  BY DEF Claim
<1>3. CASE j # i
  <2>1. store'[j] = store[j]
    BY <1>3 DEF Claim, TypeOK
  <2>2. \A r \in DOMAIN runs' : runs'[r].job = j => r \in DOMAIN runs /\ runs'[r] = runs[r]
    BY <1>1, <1>3
  <2> QED BY <1>2, <2>1, <2>2, CalmElsewhere
<1>4. CASE j = i
  <2>1. store[j] \in Records /\ Present(j) /\ store[j].status = "pending"
    BY <1>4 DEF Claim, Present, TypeOK
  <2>2. store'[j] = [store[j] EXCEPT !.status = "claimed", !.age = "fresh"]
    BY <1>4 DEF Claim, TypeOK
  <2>3. /\ store'[j].status = "claimed" /\ store'[j].age = "fresh"
        /\ store'[j].replica = store[j].replica
    BY <2>1, <2>2 DEF Records
  <2>4. Untouched(j)' /\ Marked(j)' /\ Timely(j)'
    BY <1>2, <2>1, <2>3, SubmittedStays DEF CalmJob, Marked, Timely
  <2>5. ASSUME Undisturbed(j)' PROVE OneRun(j)'
    <3>1. OneRun(j)
      BY <1>2, <2>1, <2>3, <2>5 DEF CalmJob, Undisturbed
    <3>2. \A r \in RunsOf(j) : ~Open(r)
      BY <2>1, <3>1 DEF OneRun, StatusAt
    <3>3. \A r \in RunsOf(j)' : Open(r)' => r = Len(runs) + 1
      BY <1>1, <3>2 DEF RunsOf, Open
    <3>4. runs'[Len(runs) + 1].step = "queued"
      BY <1>1
    <3> QED BY <2>3, <3>3, <3>4 DEF OneRun, StatusAt
  <2> QED BY <2>4, <2>5 DEF CalmJob
<1> QED BY <1>3, <1>4

(* What a step of a pool thread does to its own job.                       *)
LEMMA RunJobEffect ==
  ASSUME TypeOK, NEW r \in DOMAIN runs, RunJob(r)
  PROVE  /\ runs[r].job \in Jobs /\ Open(r) /\ UNCHANGED <<new, disk, ticks, lives>>
         /\ \A i \in Jobs \ {runs[r].job} : store'[i] = store[i]
         /\ DOMAIN runs' = DOMAIN runs /\ runs'[r].job = runs[r].job
         /\ \A q \in DOMAIN runs \ {r} : runs'[q] = runs[q]
         /\ ~Present(runs[r].job) => store' = store
         /\ Present(runs[r].job) =>
              /\ store'[runs[r].job].replica = store[runs[r].job].replica
              /\ store'[runs[r].job].age \in {store[runs[r].job].age, "unset"}
              /\ store[runs[r].job].status = StatusAt(runs[r].step) /\ runs'[r].step # "over"
                   => store'[runs[r].job].status = StatusAt(runs'[r].step)
<1> DEFINE j == runs[r].job
<1>0. runs[r] \in Runs /\ j \in Jobs /\ (Present(j) => store[j] \in Records)
  <2>1. runs[r] \in Runs
    BY DEF TypeOK
  <2>2. j \in Jobs
    BY <2>1 DEF Runs
  <2> QED BY <2>1, <2>2 DEF Present, TypeOK
<1>1. UNCHANGED <<new, disk, ticks, lives>> /\ Open(r)
  BY DEF RunJob, Start, Succeed, Fail, Requeue, GiveUp, Queued, Open
<1>2. \A i \in Jobs \ {j} : store'[i] = store[i]
  BY <1>0 DEF RunJob, Start, Succeed, Fail, Requeue, GiveUp, Update, TypeOK
<1>3. PICK s, k : SetRun(r, s, k)
  BY DEF RunJob, Start, Succeed, Fail, Requeue, GiveUp
<1>4. /\ DOMAIN runs' = DOMAIN runs /\ runs'[r].job = j
      /\ \A q \in DOMAIN runs \ {r} : runs'[q] = runs[q]
  BY <1>3, SetRunEffect
<1>5. ~Present(j) => store' = store
  BY DEF RunJob, Start, Succeed, Fail, Requeue, GiveUp, Update
<1>6. ASSUME Present(j)
      PROVE  /\ store'[j].replica = store[j].replica
             /\ store'[j].age \in {store[j].age, "unset"}
             /\ store[j].status = StatusAt(runs[r].step) /\ runs'[r].step # "over"
                  => store'[j].status = StatusAt(runs'[r].step)
  <2>1. ASSUME NEW t, store' = [store EXCEPT ![j] = [store[j] EXCEPT !.status = t]]
        PROVE  /\ store'[j].replica = store[j].replica /\ store'[j].age = store[j].age
               /\ store'[j].status = t
    BY <1>0, <1>6, <2>1 DEF TypeOK, Records
  <2>2. CASE Start(r)
    <3>1. runs'[r].step = "executing"
      BY <2>2, SetRunEffect DEF Start
    <3> QED BY <1>6, <2>1, <2>2, <3>1 DEF Start, Update, StatusAt
  <2>3. CASE Succeed(r)
    <3>1. runs'[r].step = "over"
      BY <2>3, SetRunEffect DEF Succeed
    <3> QED BY <1>6, <2>1, <2>3, <3>1 DEF Succeed, Update
  <2>4. CASE Fail(r)
    <3>1. runs'[r].step \in {"backoff", "giveup"}
      BY <2>4, SetRunEffect DEF Fail
    <3> QED BY <2>4, <3>1 DEF Fail, StatusAt
  <2>5. CASE Requeue(r)
    <3>1. runs'[r].step = "over"
      BY <2>5, SetRunEffect DEF Requeue
    <3>2. store'[j] = [store[j] EXCEPT !.status = "pending", !.retries = runs[r].seen + 1,
                                       !.age = "unset"]
      BY <1>0, <1>6, <2>5 DEF Requeue, Update, TypeOK
    <3> QED BY <1>0, <1>6, <3>1, <3>2 DEF Records
  <2>6. CASE GiveUp(r)
    <3>1. runs'[r].step = "over"
      BY <2>6, SetRunEffect DEF GiveUp
    <3> QED BY <1>6, <2>1, <2>6, <3>1 DEF GiveUp, Update
  <2> QED BY <2>2, <2>3, <2>4, <2>5, <2>6 DEF RunJob
<1> QED BY <1>0, <1>1, <1>2, <1>4, <1>5, <1>6

LEMMA RunJobCalm ==
  ASSUME TypeOK, NEW r \in DOMAIN runs, NEW j \in Jobs, CalmJob(j), lives = MaxRestarts,
         RunJob(r)
  PROVE  CalmJob(j)'
<1>1. new' = new /\ ticks' = ticks /\ lives' = lives
  BY RunJobEffect
<1>2. CASE j # runs[r].job
  <2>1. store'[j] = store[j]
    BY <1>2, RunJobEffect
  <2>2. \A q \in DOMAIN runs' : runs'[q].job = j => q \in DOMAIN runs /\ runs'[q] = runs[q]
    BY <1>2, RunJobEffect
  <2> QED BY <1>1, <2>1, <2>2, CalmElsewhere
<1>3. CASE j = runs[r].job
  <2>1. r \in RunsOf(j) /\ Open(r)
    BY <1>3, RunJobEffect DEF RunsOf
  <2>2. Untouched(j)'
    BY <1>1, <2>1, SubmittedStays DEF CalmJob
  <2>3. CASE ~Present(j)
    <3>1. ~Present(j)'
      BY <1>3, <2>3, RunJobEffect DEF Present
    <3> QED BY <2>2, <3>1 DEF CalmJob, Marked, Timely, Undisturbed
  <2>4. CASE Present(j)
    <3>1. store'[j].replica = store[j].replica /\ store'[j].age \in {store[j].age, "unset"}
      BY <1>3, <2>4, RunJobEffect
    <3>2. Marked(j)' /\ Timely(j)'
      BY <1>1, <2>4, <3>1 DEF CalmJob, Marked, Timely
    <3>3. ASSUME Undisturbed(j)' PROVE OneRun(j)'
      <4>1. OneRun(j)
        BY <1>1, <2>4, <3>1, <3>3 DEF CalmJob, Undisturbed
      <4>2. \A q \in RunsOf(j) : q # r => ~Open(q)
        BY <2>1, <4>1 DEF OneRun
      <4>3. \A q \in RunsOf(j)' : Open(q)' => q = r
        BY <4>2, RunJobEffect DEF RunsOf, Open
      <4>4. store[j].status = StatusAt(runs[r].step)
        BY <2>1, <4>1 DEF OneRun
      <4>5. runs'[r].step # "over" => store'[j].status = StatusAt(runs'[r].step)
        BY <1>3, <2>4, <4>4, RunJobEffect
      <4> QED BY <4>3, <4>5 DEF OneRun, Open
    <3> QED BY <2>2, <3>2, <3>3 DEF CalmJob
  <2> QED BY <2>3, <2>4
<1> QED BY <1>2, <1>3

(* The client's requests.                                                  *)
LEMMA RequestCalm ==
  ASSUME TypeOK, NEW i \in Jobs, NEW j \in Jobs, CalmJob(j), lives = MaxRestarts,
         Submit(i) \/ Remove(i)
  PROVE  CalmJob(j)'
<1>1. ticks' = ticks /\ lives' = lives /\ runs' = runs /\ new' \subseteq new
  BY DEF Submit, Remove
<1>2. CASE j # i
  <2>1. store'[j] = store[j]
    BY <1>2 DEF Submit, Remove, TypeOK
  <2> QED BY <1>1, <2>1, CalmElsewhere
<1>3. CASE j = i /\ Submit(i)
  <2>1. j \in new /\ j \notin new' /\ RunsOf(j) = {}
    BY <1>3 DEF Submit, CalmJob, Untouched
  <2>2. store'[j].replica = (j \in Replicas) /\ store'[j].age = "unset"
    BY <1>3 DEF Submit, TypeOK
  <2>3. RunsOf(j)' = {}
    BY <1>1, <2>1 DEF RunsOf
  <2> QED BY <2>1, <2>2, <2>3 DEF CalmJob, Untouched, Marked, Timely, OneRun
<1>4. CASE j = i /\ Remove(i)
  <2>1. ~Present(j)' /\ Present(j) /\ new' = new
    BY <1>4 DEF Remove, Present, TypeOK
  <2>2. Untouched(j)'
    BY <2>1, SubmittedStays DEF CalmJob
  <2> QED BY <2>1, <2>2 DEF CalmJob, Marked, Timely, Undisturbed
<1> QED BY <1>2, <1>3, <1>4

(* Time.                                                                   *)
LEMMA TimeoutCalm ==
  ASSUME TypeOK, NEW i \in Jobs, NEW j \in Jobs, CalmJob(j), lives = MaxRestarts, Timeout(i)
  PROVE  CalmJob(j)'
<1>1. ticks' # MaxTimeouts /\ lives' = lives /\ runs' = runs /\ new' = new
  BY WorkerAssumption DEF Timeout, TypeOK
<1>2. CASE j # i
  <2>1. store'[j] = store[j]
    BY <1>2 DEF Timeout, TypeOK
  <2> QED BY <1>1, <2>1, CalmElsewhere
<1>3. CASE j = i
  <2>1. Present(j) /\ store[j] \in Records
    BY <1>3 DEF Timeout, Present, TypeOK
  <2>2. store'[j].replica = store[j].replica
    BY <1>3, <2>1 DEF Timeout, TypeOK, Records
  <2>3. Untouched(j)' /\ Marked(j)'
    BY <1>1, <2>1, <2>2, SubmittedStays DEF CalmJob, Marked
  <2> QED BY <1>1, <2>3 DEF CalmJob, Timely, Undisturbed
<1> QED BY <1>2, <1>3

(* The reaper finds nothing before a time-out, and keeps the mark.         *)
LEMMA ReapCalm ==
  ASSUME TypeOK, NEW j \in Jobs, CalmJob(j), lives = MaxRestarts, Reap
  PROVE  CalmJob(j)'
<1>1. ticks' = ticks /\ lives' = lives /\ runs' = runs /\ new' = new
  BY DEF Reap
<1>2. store'[j] = Reaped(store[j])
  BY DEF Reap
<1>3. CASE ~TimedOut(store[j])
  <2>1. store'[j] = store[j]
    BY <1>2, <1>3 DEF Reaped
  <2> QED BY <1>1, <2>1, CalmElsewhere
<1>4. CASE TimedOut(store[j])
  <2>1. Present(j) /\ store[j] \in Records /\ store[j].age = "old"
    BY <1>4 DEF TimedOut, Present, TypeOK
  <2>2. ticks' # MaxTimeouts
    BY <1>1, <2>1 DEF CalmJob, Timely
  <2>3. store'[j].replica = store[j].replica
    BY <1>2, <2>1 DEF Reaped, Records
  <2>4. Untouched(j)' /\ Marked(j)'
    BY <1>1, <2>1, <2>3, SubmittedStays DEF CalmJob, Marked
  <2> QED BY <2>2, <2>4 DEF CalmJob, Timely, Undisturbed
<1> QED BY <1>3, <1>4

(* A promoted job is not undisturbed any more.                             *)
LEMMA PromoteCalm ==
  ASSUME TypeOK, NEW j \in Jobs, CalmJob(j), lives = MaxRestarts, Promote
  PROVE  CalmJob(j)'
<1>1. ticks' = ticks /\ lives' = lives /\ runs' = runs /\ new' = new
  BY DEF Promote
<1>2. store'[j] = Promoted(store[j])
  BY DEF Promote
<1>3. CASE ~(store[j] # Absent /\ store[j].replica /\ store[j].status \in Active)
  <2>1. store'[j] = store[j]
    BY <1>2, <1>3 DEF Promoted
  <2> QED BY <1>1, <2>1, CalmElsewhere
<1>4. CASE store[j] # Absent /\ store[j].replica /\ store[j].status \in Active
  <2>1. Present(j) /\ store[j] \in Records /\ j \in Replicas
    BY <1>4 DEF Present, TypeOK, CalmJob, Marked
  <2>2. store'[j].replica = FALSE /\ store'[j].age = "unset"
    BY <1>2, <1>4, <2>1 DEF Promoted, Records
  <2>3. Untouched(j)'
    BY <1>1, <2>1, SubmittedStays DEF CalmJob
  <2> QED BY <2>1, <2>2, <2>3 DEF CalmJob, Marked, Timely, Undisturbed
<1> QED BY <1>3, <1>4

LEMMA StaysCalm == TypeOK /\ Calm /\ [Next]_vars => Calm'
<1> SUFFICES ASSUME TypeOK, Calm, [Next]_vars, lives' = MaxRestarts, NEW j \in Jobs
             PROVE  CalmJob(j)'
  BY DEF Calm
<1>1. ~Restart
  BY WorkerAssumption DEF Restart, TypeOK
<1>2. lives = MaxRestarts
  BY <1>1 DEF Next, Submit, Remove, Claim, Timeout, PutOther, Reap, Promote,
     RunJob, Start, Succeed, Fail, Requeue, GiveUp, vars
<1>3. CalmJob(j)
  BY <1>2 DEF Calm
<1>4. CASE PutOther \/ UNCHANGED vars
  BY <1>2, <1>3, <1>4, CalmElsewhere DEF PutOther, vars
<1> QED BY <1>1, <1>2, <1>3, <1>4, RequestCalm, ClaimCalm, TimeoutCalm, ReapCalm, PromoteCalm,
           RunJobCalm DEF Next

LEMMA StartsCalm == Init => Calm
BY DEF Init, Calm, CalmJob, Untouched, Marked, Timely, OneRun, Present, RunsOf

(* Until a claim outlives JOB_TIMEOUT, a replica is promoted or the node   *)
(* restarts, a job is executed by one pool thread at a time, from its      *)
(* claim to the end of its back-off, for any number of jobs and threads    *)
(* (_try_claim, _run_job).  The invariant ties the status of a record to   *)
(* the step of its only open thread.                                       *)
THEOREM SingleExecutor == Spec => []OneExecutor
<1>1. Calm => OneExecutor
  BY DEF Calm, CalmJob, OneRun, OneExecutor, Undisturbed
<1> QED BY <1>1, StartsCalm, StaysCalm, TypeCorrect, PTL DEF Spec

(* ... and till then no thread takes back a final status: _run_job writes  *)
(* RUNNING, PENDING or FAILED without looking at the record, but nobody    *)
(* runs a job that is DONE or FAILED.                                      *)
THEOREM FinalStatusStays == Spec => FinalStaysFinal
<1>1. TypeOK /\ Calm /\ [Next]_vars =>
        [\A j \in Jobs : Undisturbed(j) /\ store[j].status \in Final
           => \/ store'[j] = Absent \/ store'[j].status = store[j].status
              \/ lives' # lives]_vars
  <2> SUFFICES ASSUME TypeOK, Calm, Next, NEW j \in Jobs,
                      Undisturbed(j), store[j].status \in Final
               PROVE  \/ store'[j] = Absent \/ store'[j].status = store[j].status
                      \/ lives' # lives
    OBVIOUS
  <2>1. CalmJob(j) /\ OneRun(j) /\ Present(j) /\ store[j].age # "old"
    BY DEF Calm, CalmJob, Undisturbed, Timely
  <2>2. store[j].status \notin Active
    BY DEF Active, Final
  <2>3. \A r \in RunsOf(j) : ~Open(r)
    BY <2>1 DEF OneRun, StatusAt, Final
  <2>4. ASSUME NEW i \in Jobs, Submit(i) \/ Remove(i) \/ Claim(i) \/ Timeout(i)
        PROVE  store'[j] = Absent \/ store'[j] = store[j]
    <3>1. CASE i # j
      BY <2>4, <3>1 DEF Submit, Remove, Claim, Timeout, TypeOK
    <3>2. CASE i = j
      <4>1. ~Submit(i)
        BY <2>1, <3>2 DEF Submit, CalmJob, Untouched, Present
      <4>2. ~Claim(i) /\ ~Timeout(i)
        BY <2>2, <3>2 DEF Claim, Timeout, Active
      <4> QED BY <2>4, <3>2, <4>1, <4>2 DEF Remove, TypeOK
    <3> QED BY <3>1, <3>2
  <2>5. CASE PutOther
    BY <2>5 DEF PutOther
  <2>6. CASE Restart
    BY <2>6, WorkerAssumption DEF Restart, TypeOK
  <2>7. CASE Reap
    BY <2>1, <2>7 DEF Reap, Reaped, TimedOut
  <2>8. CASE Promote
    BY <2>2, <2>8 DEF Promote, Promoted
  <2>9. ASSUME NEW r \in DOMAIN runs, RunJob(r) PROVE store'[j] = store[j]
    <3>1. j # runs[r].job
      BY <2>3, <2>9, RunJobEffect DEF RunsOf
    <3> QED BY <2>9, <3>1, RunJobEffect
  <2> QED BY <2>4, <2>5, <2>6, <2>7, <2>8, <2>9 DEF Next
<1> QED BY <1>1, StartsCalm, StaysCalm, TypeCorrect, PTL DEF Spec, FinalStaysFinal
=============================================================================
