------------------------------ MODULE JobWorker ------------------------------
(***************************************************************************)
(* The jobs of one node: the "job:" records of its data store, the thread  *)
(* that claims and reaps them, the pool that runs them, the promotion of   *)
(* replicas, and the snapshot on disk a restart begins from.  One step per *)
(* region under the node's lock; the pool threads run between them.        *)
(* A job is an element of Jobs; its record keeps the fields the worker     *)
(* reads.  Counters, results and messages are left out.                    *)
(***************************************************************************)
EXTENDS Integers, Sequences, FiniteSets

CONSTANTS Jobs,
          Replicas,      \* the jobs stored here as replicas of another node's
          Absent,        \* no record under the job's key
          MaxRetries,    \* MAX_JOB_RETRIES
          PoolSize,      \* max_workers of the thread pool
          MaxTimeouts,   \* bound: claims that grow older than JOB_TIMEOUT
          MaxRestarts    \* bound: crashes of the node

Active == {"pending", "claimed", "running"}
Final == {"done", "failed"}

(* age is the state of started_at: unset, set, or set JOB_TIMEOUT ago.     *)
Records == [status : Active \cup Final, retries : Nat,
            age : {"unset", "fresh", "old"}, replica : BOOLEAN]

ASSUME WorkerAssumption ==
  /\ Replicas \subseteq Jobs /\ Absent \notin Records
  /\ MaxRetries \in Nat /\ PoolSize \in Nat \ {0}
  /\ MaxTimeouts \in Nat /\ MaxRestarts \in Nat

VARIABLES new,     \* the jobs not submitted yet: a job id is a fresh uuid4
          store,   \* data_store, restricted to the jobs
          disk,    \* the snapshot _save_to_disk wrote last
          runs,    \* the executions submitted to the pool, oldest first
          ticks,   \* timeouts still to come
          lives    \* restarts still to come

vars == <<new, store, disk, runs, ticks, lives>>

(* A pool thread: waiting for a thread, inside _execute, asleep before a   *)
(* retry with the retry count it read, about to record the failure, over.  *)
Runs == [job : Jobs, step : {"queued", "executing", "backoff", "giveup", "over"},
         seen : Nat]

TypeOK ==
  /\ new \in SUBSET Jobs
  /\ store \in [Jobs -> Records \cup {Absent}]
  /\ disk \in [Jobs -> Records \cup {Absent}]
  /\ runs \in Seq(Runs)
  /\ ticks \in 0 .. MaxTimeouts /\ lives \in 0 .. MaxRestarts

Init ==
  /\ new = Jobs
  /\ store = [j \in Jobs |-> Absent]
  /\ disk = store
  /\ runs = <<>>
  /\ ticks = MaxTimeouts /\ lives = MaxRestarts

Present(j) == store[j] # Absent

(* Write a record only if the key is still there: `if entry:`.             *)
Update(j, record) ==
  store' = IF Present(j) THEN [store EXCEPT ![j] = record] ELSE store

SetRun(r, step, seen) ==
  runs' = [runs EXCEPT ![r].step = step, ![r].seen = seen]

(***************************************************************************)
(* The data store's own operations                                         *)
(***************************************************************************)
(* _save_to_disk: the whole store.  A snapshot that no restart will read   *)
(* is not kept track of.                                                   *)
Snapshot == disk' = IF lives > 0 THEN store' ELSE disk

(* submit_job -> _store_job -> node.put.                                   *)
Submit(j) ==
  /\ j \in new
  /\ new' = new \ {j}
  /\ store' = [store EXCEPT ![j] = [status |-> "pending", retries |-> 0,
                                    age |-> "unset", replica |-> j \in Replicas]]
  /\ Snapshot
  /\ UNCHANGED <<runs, ticks, lives>>

(* A put of some other key, with its snapshot.                             *)
PutOther ==
  /\ UNCHANGED <<new, store, runs, ticks, lives>>
  /\ Snapshot

(* Mutant of Remove: delete does not save.                                 *)
RemoveUnsaved(j) ==
  /\ Present(j)
  /\ store' = [store EXCEPT ![j] = Absent]
  /\ UNCHANGED <<new, disk, runs, ticks, lives>>

(* DELETE /data/<key>.                                                     *)
Remove(j) ==
  /\ Present(j)
  /\ store' = [store EXCEPT ![j] = Absent]
  /\ Snapshot
  /\ UNCHANGED <<new, runs, ticks, lives>>

(* The process dies with its threads and is started on its snapshot.       *)
Restart ==
  /\ lives > 0
  /\ lives' = lives - 1
  /\ store' = disk
  /\ runs' = <<>>
  /\ UNCHANGED <<new, disk, ticks>>

(***************************************************************************)
(* The worker thread                                                       *)
(***************************************************************************)
(* Mutants of Claim: the status is not looked at; finished jobs are        *)
(* claimed too; a job on its last retry is left alone.                     *)
Claiming(j) ==
  /\ store' = [store EXCEPT ![j].status = "claimed", ![j].age = "fresh"]
  /\ runs' = Append(runs, [job |-> j, step |-> "queued", seen |-> 0])
  /\ UNCHANGED <<new, disk, ticks, lives>>
ClaimAnything(j) == Present(j) /\ Claiming(j)
ClaimDoneToo(j) ==
  Present(j) /\ store[j].status \in {"pending", "done"} /\ Claiming(j)
ClaimBelowBudget(j) ==
  /\ Present(j) /\ store[j].status = "pending" /\ store[j].retries < MaxRetries
  /\ Claiming(j)

(* _try_claim, and the submission to the pool.                             *)
Claim(j) ==
  /\ Present(j) /\ store[j].status = "pending"
  /\ store' = [store EXCEPT ![j].status = "claimed", ![j].age = "fresh"]
  /\ runs' = Append(runs, [job |-> j, step |-> "queued", seen |-> 0])
  /\ UNCHANGED <<new, disk, ticks, lives>>

(* JOB_TIMEOUT passes since started_at.                                    *)
Timeout(j) ==
  /\ Present(j) /\ store[j].age = "fresh" /\ store[j].status \in Active
  /\ ticks > 0
  /\ ticks' = ticks - 1
  /\ store' = [store EXCEPT ![j].age = "old"]
  /\ UNCHANGED <<new, disk, runs, lives>>

TimedOut(v) == v # Absent /\ v.status = "running" /\ v.age = "old"

(* Mutants of Reaped: the count goes down; one retry too many.             *)
ReapedCountsDown(v) ==
  IF ~TimedOut(v) THEN v
  ELSE IF v.retries < MaxRetries
  THEN [v EXCEPT !.status = "pending", !.retries = @ - 1, !.age = "unset"]
  ELSE [v EXCEPT !.status = "failed"]
ReapedOnceMore(v) ==
  IF ~TimedOut(v) THEN v
  ELSE IF v.retries <= MaxRetries
  THEN [v EXCEPT !.status = "pending", !.retries = @ + 1, !.age = "unset"]
  ELSE [v EXCEPT !.status = "failed"]

(* _reap_timed_out_jobs, for one record.                                   *)
Reaped(v) ==
  IF ~TimedOut(v) THEN v
  ELSE IF v.retries < MaxRetries
  THEN [v EXCEPT !.status = "pending", !.retries = @ + 1, !.age = "unset"]
  ELSE [v EXCEPT !.status = "failed"]

Reap ==
  /\ \E j \in Jobs : TimedOut(store[j])
  /\ store' = [j \in Jobs |-> Reaped(store[j])]
  /\ UNCHANGED <<new, disk, runs, ticks, lives>>

(* FailureWatcherThread._recover, path 1: after a predecessor died every   *)
(* active replica here is made a primary and queued again.                 *)
Promoted(v) ==
  IF v # Absent /\ v.replica /\ v.status \in Active
  THEN [v EXCEPT !.status = "pending", !.age = "unset", !.replica = FALSE]
  ELSE v

Promote ==
  /\ store' = [j \in Jobs |-> Promoted(store[j])]
  /\ store' # store
  /\ UNCHANGED <<new, disk, runs, ticks, lives>>

(***************************************************************************)
(* _run_job, on a pool thread                                              *)
(***************************************************************************)
Busy == {r \in DOMAIN runs : runs[r].step \in {"executing", "backoff", "giveup"}}
Queued == {r \in DOMAIN runs : runs[r].step = "queued"}

(* The pool takes the oldest submission; the record is marked RUNNING      *)
(* whatever it says.                                                       *)
Start(r) ==
  /\ r \in Queued /\ \A q \in Queued : r <= q
  /\ Cardinality(Busy) < PoolSize
  /\ Update(runs[r].job, [store[runs[r].job] EXCEPT !.status = "running"])
  /\ SetRun(r, "executing", 0)
  /\ UNCHANGED <<new, disk, ticks, lives>>

(* _execute returned.                                                      *)
Succeed(r) ==
  /\ runs[r].step = "executing"
  /\ Update(runs[r].job, [store[runs[r].job] EXCEPT !.status = "done"])
  /\ SetRun(r, "over", 0)
  /\ UNCHANGED <<new, disk, ticks, lives>>

(* _execute raised: the retry count is read (a missing record counts as    *)
(* one without budget) and the lock released.                              *)
Fail(r) ==
  LET j == runs[r].job
      count == IF Present(j) THEN store[j].retries ELSE MaxRetries
  IN /\ runs[r].step = "executing"
     /\ IF count < MaxRetries THEN SetRun(r, "backoff", count)
                              ELSE SetRun(r, "giveup", 0)
     /\ UNCHANGED <<new, store, disk, ticks, lives>>

(* Mutant of Requeue: the status is not set back.                          *)
RequeueKeepsStatus(r) ==
  /\ runs[r].step = "backoff"
  /\ Update(runs[r].job, [store[runs[r].job] EXCEPT
       !.retries = runs[r].seen + 1, !.age = "unset"])
  /\ SetRun(r, "over", 0)
  /\ UNCHANGED <<new, disk, ticks, lives>>

(* After the sleep: back to PENDING, one more than the count read then.    *)
Requeue(r) ==
  /\ runs[r].step = "backoff"
  /\ Update(runs[r].job, [store[runs[r].job] EXCEPT
       !.status = "pending", !.retries = runs[r].seen + 1, !.age = "unset"])
  /\ SetRun(r, "over", 0)
  /\ UNCHANGED <<new, disk, ticks, lives>>

GiveUp(r) ==
  /\ runs[r].step = "giveup"
  /\ Update(runs[r].job, [store[runs[r].job] EXCEPT !.status = "failed"])
  /\ SetRun(r, "over", 0)
  /\ UNCHANGED <<new, disk, ticks, lives>>

(***************************************************************************)
(* Specification                                                           *)
(***************************************************************************)
RunJob(r) == Start(r) \/ Succeed(r) \/ Fail(r) \/ Requeue(r) \/ GiveUp(r)

Next ==
  \/ \E j \in Jobs : Submit(j) \/ Remove(j) \/ Claim(j) \/ Timeout(j)
  \/ PutOther \/ Restart \/ Reap \/ Promote
  \/ \E r \in DOMAIN runs : RunJob(r)

(* The worker thread scans for ever, executions end and time passes.       *)
Fairness ==
  /\ WF_vars(\E j \in Jobs : Claim(j)) /\ WF_vars(Reap)
  /\ WF_vars(\E r \in DOMAIN runs : RunJob(r))
  /\ WF_vars(\E j \in Jobs : Timeout(j))

Spec == Init /\ [][Next]_vars /\ Fairness

(***************************************************************************)
(* Properties                                                              *)
(***************************************************************************)
RunsOf(j) == {r \in DOMAIN runs : runs[r].job = j}
Open(r) == runs[r].step # "over"

(* The retry count of a record never exceeds MAX_JOB_RETRIES, although     *)
(* _run_job writes a count it read before a sleep and the reaper writes    *)
(* its own meanwhile.                                                      *)
RetriesWithinBudget ==
  \A j \in Jobs : store[j] # Absent => store[j].retries <= MaxRetries

(* Until the node restarts, a job that is CLAIMED or RUNNING has a pool    *)
(* thread that will still write its record: however _run_job, the reaper   *)
(* and the promotion of replicas interleave, no job is orphaned.           *)
ActiveHasExecutor ==
  lives = MaxRestarts =>
    \A j \in Jobs : store[j] # Absent /\ store[j].status \in {"claimed", "running"}
      => \E r \in RunsOf(j) : Open(r)

(* A restart neither loses a job the node has accepted nor brings back one *)
(* it has removed: put and delete write the snapshot before they return,   *)
(* and the worker's own writes, which are not saved, add or remove no key. *)
JobsSurviveRestart ==
  [][lives' # lives => \A j \in Jobs : store'[j] = Absent <=> store[j] = Absent]_vars

(* Every accepted job ends as DONE or FAILED and stays so.                 *)
EveryJobSettles ==
  <>[](\A j \in Jobs : store[j] # Absent => store[j].status \in Final)

(* ... at least if the node is never restarted: time-outs and promotions   *)
(* of jobs in execution do not keep one from ending.                       *)
SettlesUnlessRestarted == [](lives = MaxRestarts) => EveryJobSettles

(* No claim has outlived JOB_TIMEOUT, the node has not restarted, and the  *)
(* job is still here, not promoted.                                        *)
Undisturbed(j) ==
  /\ ticks = MaxTimeouts /\ lives = MaxRestarts
  /\ Present(j) /\ store[j].replica = (j \in Replicas)

(* Until then a job is executed by one thread at a time, from its claim to *)
(* the end of its back-off (_try_claim, _run_job) ...                      *)
OneExecutor ==
  \A j \in Jobs : \A q, r \in RunsOf(j) :
    Undisturbed(j) /\ Open(q) /\ Open(r) => q = r

(* ... and a final status is never taken back (_run_job writes RUNNING and *)
(* PENDING without looking at the status).                                 *)
FinalStaysFinal ==
  [][\A j \in Jobs : Undisturbed(j) /\ store[j].status \in Final
       => \/ store'[j] = Absent \/ store'[j].status = store[j].status
          \/ lives' # lives]_vars
=============================================================================
