---------------------------- MODULE TaskLifecycle ----------------------------
(***************************************************************************)
(* A task from /createTask to its result: the frontend that writes HT1     *)
(* (the record) and then HT2 (the list of its worker), the task runner     *)
(* that polls HT2 and reports, the registry of heartbeats, the recovery    *)
(* manager, the rebalancer and the two clean-up endpoints.                 *)
(* HT1 and HT2 are shared tables; one step is one call of a storage        *)
(* service or one lock region.  Scores, results, times and texts are left  *)
(* out: the best-scored worker is any live one.                            *)
(***************************************************************************)
EXTENDS Integers, FiniteSets

CONSTANTS Tasks, Workers,
          Requests,      \* the /createTask requests a client may send
          Scanners,      \* the recovery loop and the trigger threads
          None,
          MaxAttempts,   \* max_attempts of build_result_record
          MaxRetries,    \* MAX_RETRIES and RESULT_REPORT_RETRIES
          Concurrency,   \* --concurrency of the task runner
          Started,       \* the workers that run at first
          Kinds,         \* bound: the kinds of trouble that happen
          MaxTroubles    \* bound: troubles of all kinds in one behaviour

(* A worker process dies, is started again, or is silent for longer than   *)
(* the heartbeat time-out; a call fails; the frontend is started again; an *)
(* operator clears finished tasks or resets the tables.                    *)
Troubles == {"stop", "start", "silence", "fault", "reboot", "clear"}

Records == [status : {"PENDING", "SUCCESS", "FAILURE"}, worker : Workers,
            attempts : Nat, waiting : BOOLEAN, givenUp : BOOLEAN]

(* The calls that change a table.                                          *)
Puts == [op : {"put"}, task : Tasks, record : Records \cup {None}]
Lists == [op : {"append", "remove"}, task : Tasks, worker : Workers]
Calls == Puts \cup Lists

ASSUME TaskAssumption ==
  /\ None \notin Records \cup Workers \cup Tasks
  /\ Started \subseteq Workers /\ Kinds \subseteq Troubles
  /\ MaxAttempts \in Nat /\ MaxRetries \in Nat
  /\ Concurrency \in Nat \ {0} /\ MaxTroubles \in Nat

VARIABLES ht1,       \* result:<task_id>, None when there is no record
          ht2,       \* worker:<worker_id>, the tasks in it
          late,      \* calls that timed out and are still to be carried out
          known,     \* the workers in the registry
          live,      \* those heard of within the time-out
          request,   \* the createTask handlers
          up,        \* the worker processes that run
          seen,      \* seen_task_ids
          booting,   \* the workers still in _recover_pending_tasks
          todo,      \* the assigned list a worker works through
          exec,      \* _execute_and_report, by worker and task
          posts,     \* the result_complete handlers
          cleanup,   \* the delayed HT2 clean-ups
          scan,      \* the recoveries in progress
          mover,     \* the task _do_rebalance moves
          janitor,   \* the keys a clear or reset is still to delete
          ended,     \* history: how executions and budgets of a task ended
          raced,     \* history: tasks moved, or written twice during createTask
          left,      \* troubles still to come
          used       \* how often each kind of trouble has happened

tables == <<ht1, ht2, late>>
registry == <<known, live>>
runner == <<up, seen, booting, todo>>
history == <<ended, raced>>
troubles == <<left, used>>
vars == <<tables, registry, request, runner, exec, posts, cleanup, scan, mover,
          janitor, history, troubles>>

(***************************************************************************)
(* State                                                                   *)
(***************************************************************************)
Outcomes == {"SUCCESS", "FAILURE"}
Request == [step : {"new", "ht1", "ht2", "rollback", "accepted", "exists",
                    "rejected", "lost"},
            task : Tasks \cup {None}, worker : Workers \cup {None}, tries : Nat]
Execution == [step : {"idle", "running", "report", "posted"},
              outcome : Outcomes, tries : Nat]
Post == [worker : Workers, task : Tasks, tries : Nat, outcome : Outcomes,
         record : Records]
Scan == [step : {"idle", "clear", "found", "put", "remove", "append"},
         task : Tasks \cup {None}, reason : {"worker_crash", "task_failure"},
         record : Records \cup {None}, old : Workers \cup {None}]
Move == [step : {"idle", "put", "remove", "append"}, task : Tasks \cup {None},
         record : Records \cup {None}, old : Workers \cup {None}]

NoRequest == [step |-> "new", task |-> None, worker |-> None, tries |-> 0]
Idle == [step |-> "idle", outcome |-> "SUCCESS", tries |-> 0]
NoScan == [step |-> "idle", task |-> None, reason |-> "worker_crash",
           record |-> None, old |-> None]
NoMove == [step |-> "idle", task |-> None, record |-> None, old |-> None]

TypeOK ==
  /\ ht1 \in [Tasks -> Records \cup {None}]
  /\ ht2 \in [Workers -> SUBSET Tasks]
  /\ late \in SUBSET Calls
  /\ known \in SUBSET Workers /\ live \in SUBSET Workers
  /\ request \in [Requests -> Request]
  /\ up \in SUBSET Workers /\ booting \in SUBSET Workers
  /\ seen \in [Workers -> SUBSET Tasks] /\ todo \in [Workers -> SUBSET Tasks]
  /\ exec \in [Workers -> [Tasks -> Execution]]
  /\ posts \in SUBSET Post
  /\ cleanup \in SUBSET Lists
  /\ scan \in [Scanners -> Scan]
  /\ mover \in Move
  /\ janitor \in SUBSET (Tasks \cup Workers)
  /\ ended \in [Tasks -> SUBSET (Outcomes \cup {"EXHAUSTED"})]
  /\ raced \in SUBSET Tasks
  /\ left \in 0 .. MaxTroubles /\ used \in [Troubles -> Nat]

Init ==
  /\ ht1 = [t \in Tasks |-> None]
  /\ ht2 = [w \in Workers |-> {}]
  /\ late = {} /\ known = Started /\ live = Started
  /\ request = [q \in Requests |-> NoRequest]
  /\ up = Started /\ booting = {}
  /\ seen = [w \in Workers |-> {}] /\ todo = [w \in Workers |-> {}]
  /\ exec = [w \in Workers |-> [t \in Tasks |-> Idle]]
  /\ posts = {} /\ cleanup = {}
  /\ scan = [s \in Scanners |-> NoScan]
  /\ mover = NoMove /\ janitor = {}
  /\ ended = [t \in Tasks |-> {}] /\ raced = {}
  /\ left = MaxTroubles /\ used = [k \in Troubles |-> 0]

(* One more trouble of kind k, within the bound.                           *)
Trouble(k) ==
  /\ k \in Kinds /\ left > 0
  /\ left' = left - 1
  /\ used' = [used EXCEPT ![k] = @ + 1]

(***************************************************************************)
(* The tables                                                              *)
(***************************************************************************)
Put(t, r) == [op |-> "put", task |-> t, record |-> r]
AppendTo(w, t) == [op |-> "append", task |-> t, worker |-> w]
RemoveFrom(w, t) == [op |-> "remove", task |-> t, worker |-> w]

(* ResultService.put and delete, WorkerAssignmentService.append and remove *)
Apply(c) ==
  /\ ht1' = IF c.op = "put" THEN [ht1 EXCEPT ![c.task] = c.record] ELSE ht1
  /\ ht2' = CASE c.op = "append" -> [ht2 EXCEPT ![c.worker] = @ \cup {c.task}]
              [] c.op = "remove" -> [ht2 EXCEPT ![c.worker] = @ \ {c.task}]
              [] OTHER -> ht2

(* A call that raises has not been carried out, or not yet.                *)
Call(c, ok) ==
  IF ok THEN Apply(c) /\ UNCHANGED <<late, troubles>>
  ELSE /\ Trouble("fault")
       /\ late' \in {late, late \cup {c}}
       /\ UNCHANGED <<ht1, ht2>>

(* A call its caller has given up on is carried out.                       *)
Deliver(c) ==
  /\ c \in late
  /\ Apply(c) /\ late' = late \ {c}
  /\ UNCHANGED <<registry, request, runner, exec, posts, cleanup, scan, mover,
                 janitor, history, troubles>>

(***************************************************************************)
(* create_task_v2                                                          *)
(***************************************************************************)
(* build_result_record with its defaults.                                  *)
NewRecord(w) == [status |-> "PENDING", worker |-> w, attempts |-> 0,
                 waiting |-> FALSE, givenUp |-> FALSE]

SetRequest(q, step, tries) ==
  request' = [request EXCEPT ![q].step = step, ![q].tries = tries]

(* with_timeout_and_retry: once more, or the step taken when all failed.   *)
Again(q, ok, next, failed) ==
  IF ok THEN SetRequest(q, next, 0)
  ELSE IF request[q].tries < MaxRetries
  THEN SetRequest(q, request[q].step, request[q].tries + 1)
  ELSE SetRequest(q, failed, 0)

(* History: somebody writes task t.                                        *)
Writing(t) ==
  {q \in Requests : request[q].task = t /\ request[q].step \in {"ht1", "ht2", "rollback"}}
Touch(t) == raced' = IF Writing(t) # {} THEN raced \cup {t} ELSE raced

Proceed(q, t, w) ==
  /\ request' = [request EXCEPT ![q] = [step |-> "ht1", task |-> t, worker |-> w,
                                        tries |-> 0]]
  /\ Touch(t)

(* Mutant of Check: the existing record is not looked at.                  *)
CheckNothing(q, t) ==
  /\ request[q].step = "new"
  /\ \E w \in Workers : Proceed(q, t, w)
  /\ UNCHANGED <<tables, troubles, registry, runner, exec, posts, cleanup, scan,
                 mover, janitor, ended>>

(* The idempotency check, where a read that fails counts as no record, and *)
(* the choice of the worker: the one the client names, unchecked, or the   *)
(* best live one.  Without either the record cannot be built.              *)
Check(q, t) ==
  /\ request[q].step = "new"
  /\ \/ /\ ht1[t] # None
        /\ request' = [request EXCEPT ![q].step = "exists", ![q].task = t]
        /\ UNCHANGED <<raced, troubles>>
     \/ /\ IF ht1[t] = None THEN UNCHANGED troubles ELSE Trouble("fault")
        /\ \/ \E w \in Workers : Proceed(q, t, w)
           \/ /\ live = {}
              /\ request' = [request EXCEPT ![q].step = "rejected", ![q].task = t]
              /\ UNCHANGED raced
  /\ UNCHANGED <<tables, registry, runner, exec, posts, cleanup, scan, mover,
                 janitor, ended>>

WriteHT1(q, ok) ==
  /\ request[q].step = "ht1"
  /\ Call(Put(request[q].task, NewRecord(request[q].worker)), ok)
  /\ Again(q, ok, "ht2", "rejected")
  /\ UNCHANGED <<registry, runner, exec, posts, cleanup, scan, mover, janitor, history>>

AppendHT2(q, ok) ==
  /\ request[q].step = "ht2"
  /\ Call(AppendTo(request[q].worker, request[q].task), ok)
  /\ Again(q, ok, "accepted", "rollback")
  /\ UNCHANGED <<registry, runner, exec, posts, cleanup, scan, mover, janitor, history>>

(* Best effort: the answer is 503 either way.                              *)
Rollback(q, ok) ==
  /\ request[q].step = "rollback"
  /\ Call(Put(request[q].task, None), ok)
  /\ SetRequest(q, "rejected", 0)
  /\ UNCHANGED <<registry, runner, exec, posts, cleanup, scan, mover, janitor, history>>

(***************************************************************************)
(* The registry and the worker processes                                   *)
(***************************************************************************)
Heartbeat(w) ==
  /\ w \in up \ live
  /\ known' = known \cup {w} /\ live' = live \cup {w}
  /\ UNCHANGED <<tables, troubles, request, runner, exec, posts, cleanup, scan,
                 mover, janitor, history>>

(* No heartbeat for longer than the time-out, of a process that is gone or *)
(* of one that is only slow.                                               *)
Expire(w) ==
  /\ w \in live
  /\ live' = live \ {w}
  /\ IF w \in up THEN Trouble("silence") ELSE UNCHANGED troubles
  /\ UNCHANGED <<tables, known, request, runner, exec, posts, cleanup, scan,
                 mover, janitor, history>>

(* The handlers of a worker that is gone go on; nobody waits for them.     *)
Abandoned(w) ==
  {IF p.worker = w THEN [p EXCEPT !.tries = MaxRetries + 1] ELSE p : p \in posts}

(* A worker process dies; /api/workers/<wid>/kill also drops it from the   *)
(* registry and starts a scan.                                             *)
Stop(w, killed) ==
  /\ w \in up /\ Trouble("stop")
  /\ up' = up \ {w} /\ booting' = booting \ {w}
  /\ seen' = [seen EXCEPT ![w] = {}] /\ todo' = [todo EXCEPT ![w] = {}]
  /\ exec' = [exec EXCEPT ![w] = [t \in Tasks |-> Idle]]
  /\ posts' = Abandoned(w)
  /\ IF killed THEN known' = known \ {w} /\ live' = live \ {w}
               ELSE UNCHANGED registry
  /\ UNCHANGED <<tables, request, cleanup, scan, mover, janitor, history>>

(* It is started again: heartbeat, then the list of _recover_pending_tasks *)
Boot(w) ==
  /\ w \notin up /\ Trouble("start")
  /\ up' = up \cup {w} /\ booting' = booting \cup {w}
  /\ known' = known \cup {w} /\ live' = live \cup {w}
  /\ todo' = [todo EXCEPT ![w] = ht2[w]]
  /\ UNCHANGED <<tables, request, seen, exec, posts, cleanup, scan, mover,
                 janitor, history>>

Booted(w) ==
  /\ w \in booting /\ todo[w] = {} /\ \A t \in Tasks : exec[w][t] = Idle
  /\ booting' = booting \ {w}
  /\ UNCHANGED <<tables, troubles, registry, request, up, seen, todo, exec, posts,
                 cleanup, scan, mover, janitor, history>>

(***************************************************************************)
(* The task runner                                                         *)
(***************************************************************************)
Busy(w) == {t \in Tasks : exec[w][t].step # "idle"}

(* The main thread executes inline while it boots, or without a pool.      *)
MainFree(w) == (w \in booting \/ Concurrency = 1) => Busy(w) = {}

FetchAssigned(w) ==
  /\ w \in up \ booting /\ MainFree(w)
  /\ todo[w] = {} /\ ht2[w] # {}
  /\ todo' = [todo EXCEPT ![w] = ht2[w]]
  /\ UNCHANGED <<tables, troubles, registry, request, up, seen, booting, exec,
                 posts, cleanup, scan, mover, janitor, history>>

(* The next task of the list, from _fetch_record to the claim.  A record   *)
(* that cannot be read is skipped, yet claimed while booting; with a pool  *)
(* the rest of the list is dropped when no slot is free.                   *)
Take(w, t) ==
  /\ t \in todo[w] /\ MainFree(w)
  /\ IF w \notin booting /\ Cardinality(Busy(w)) >= Concurrency
     THEN /\ todo' = [todo EXCEPT ![w] = {}]
          /\ UNCHANGED <<seen, exec, troubles>>
     ELSE /\ todo' = [todo EXCEPT ![w] = @ \ {t}]
          /\ \/ /\ IF ht1[t] = None THEN UNCHANGED troubles ELSE Trouble("fault")
                /\ seen' = IF w \in booting THEN [seen EXCEPT ![w] = @ \cup {t}]
                           ELSE seen
                /\ UNCHANGED exec
             \/ /\ ht1[t] # None
                /\ seen' = [seen EXCEPT ![w] = @ \cup {t}]
                /\ exec' = IF ht1[t].status = "PENDING" /\ t \notin seen[w]
                           THEN [exec EXCEPT ![w][t].step = "running"] ELSE exec
                /\ UNCHANGED troubles
  /\ UNCHANGED <<tables, registry, request, up, booting, posts, cleanup, scan,
                 mover, janitor, history>>

(* run_task returns, raises or times out.                                  *)
RunTask(w, t, outcome) ==
  /\ exec[w][t].step = "running"
  /\ exec' = [exec EXCEPT ![w][t] = [step |-> "report", outcome |-> outcome, tries |-> 0]]
  /\ ended' = [ended EXCEPT ![t] = @ \cup {outcome}]
  /\ UNCHANGED <<raced, tables, troubles, registry, request, runner, posts, cleanup, scan,
                 mover, janitor>>

(* Mutant of Retried: the attempts are counted down.                       *)
RetriedDown(e) == [e EXCEPT !.step = "report", !.tries = @ - 1]

(* _report: once more, or the result is dropped.                           *)
Retried(e) ==
  IF e.tries < MaxRetries THEN [e EXCEPT !.step = "report", !.tries = @ + 1] ELSE Idle

(* The request reaches the frontend, whose handler reads the record, finds *)
(* none (404), or fails.                                                   *)
Report(w, t) ==
  /\ exec[w][t].step = "report"
  /\ \/ /\ ht1[t] # None
        /\ posts' = posts \cup {[worker |-> w, task |-> t, tries |-> exec[w][t].tries,
                                 outcome |-> exec[w][t].outcome, record |-> ht1[t]]}
        /\ exec' = [exec EXCEPT ![w][t].step = "posted"]
        /\ UNCHANGED troubles
     \/ /\ IF ht1[t] = None THEN UNCHANGED troubles ELSE Trouble("fault")
        /\ exec' = [exec EXCEPT ![w][t] = Retried(@)]
        /\ UNCHANGED posts
  /\ UNCHANGED <<tables, registry, request, runner, cleanup, scan, mover, janitor, history>>

(* The worker stops waiting for the answer; the handler goes on.           *)
ReportTimeout(w, t) ==
  /\ exec[w][t].step = "posted" /\ Trouble("fault")
  /\ exec' = [exec EXCEPT ![w][t] = Retried(@)]
  /\ UNCHANGED <<tables, registry, request, runner, posts, cleanup, scan, mover,
                 janitor, history>>

Awaited(p) ==
  LET e == exec[p.worker][p.task] IN e.step = "posted" /\ e.tries = p.tries

(* Mutant of Complete: the outcome of the report is not looked at.         *)
CompleteLosesOutcome(p, ok) ==
  /\ Call(Put(p.task, [p.record EXCEPT !.status = "SUCCESS"]), ok)
  /\ posts' = posts \ {p}
  /\ exec' = IF Awaited(p)
             THEN [exec EXCEPT ![p.worker][p.task] = IF ok THEN Idle ELSE Retried(@)]
             ELSE exec
  /\ UNCHANGED <<registry, request, runner, cleanup, scan, mover, janitor, history>>

(* result_complete writes the record it read, with the outcome.            *)
Complete(p, ok) ==
  /\ Call(Put(p.task, [p.record EXCEPT !.status = p.outcome]), ok)
  /\ posts' = posts \ {p}
  /\ exec' = IF Awaited(p)
             THEN [exec EXCEPT ![p.worker][p.task] = IF ok THEN Idle ELSE Retried(@)]
             ELSE exec
  /\ cleanup' = IF ok /\ p.outcome = "SUCCESS"
                THEN cleanup \cup {RemoveFrom(p.record.worker, p.task)} ELSE cleanup
  /\ UNCHANGED <<registry, request, runner, scan, mover, janitor, history>>

(* _delayed_ht2_cleanup, three seconds later.                              *)
Cleanup(c, ok) ==
  /\ Call(c, ok)
  /\ cleanup' = cleanup \ {c}
  /\ UNCHANGED <<registry, request, runner, exec, posts, scan, mover, janitor, history>>

(***************************************************************************)
(* RecoveryManager                                                         *)
(***************************************************************************)
Pending(t) == ht1[t] # None /\ ht1[t].status = "PENDING"

(* Mutant of Orphaned: only the workers of the registry are looked at.     *)
OrphanedOfKnown(t) == Pending(t) /\ \E w \in known \ live : t \in ht2[w]

(* _detect_worker_crashes and _detect_stuck_tasks; _detect_failed_tasks.   *)
(* timed_out is never set, so _detect_timed_out_tasks finds nothing.       *)
Orphaned(t) ==
  /\ Pending(t)
  /\ ht1[t].worker \notin live \/ \E w \in known \ live : t \in ht2[w]
Failed(t) ==
  ht1[t] # None /\ ht1[t].status = "FAILURE" /\ ~ht1[t].waiting /\ ~ht1[t].givenUp

(* A scan finds a task, or one whose wait is over.                         *)
Detect(s, t) ==
  /\ scan[s].step = "idle"
  /\ \/ /\ Orphaned(t)
        /\ scan' = [scan EXCEPT ![s] = [NoScan EXCEPT !.step = "found", !.task = t]]
     \/ /\ Failed(t)
        /\ scan' = [scan EXCEPT ![s] = [NoScan EXCEPT !.step = "found", !.task = t,
                                                      !.reason = "task_failure"]]
     \/ /\ ht1[t] # None /\ ht1[t].waiting
        /\ scan' = [scan EXCEPT ![s] = [NoScan EXCEPT !.step = "clear", !.task = t,
                                                      !.record = ht1[t]]]
  /\ UNCHANGED <<tables, troubles, registry, request, runner, exec, posts, cleanup,
                 mover, janitor, history>>

(* _retry_waiting_tasks writes the record it listed, no longer waiting.    *)
ClearWaiting(s, ok) ==
  /\ scan[s].step = "clear"
  /\ Call(Put(scan[s].task, [scan[s].record EXCEPT !.waiting = FALSE]), ok)
  /\ scan' = [scan EXCEPT ![s].step = "found", ![s].record = None]
  /\ UNCHANGED <<registry, request, runner, exec, posts, cleanup, mover, janitor, history>>

InProgress == {scan[s].task : s \in {s \in Scanners : scan[s].step \in {"put", "remove", "append"}}}

Exhausted(fresh) == fresh.attempts >= MaxAttempts

(* Mutant of GiveUp: a task that failed is retried.                        *)
GiveUpIfExhausted(fresh, reason) == Exhausted(fresh)

(* choose_recovery_path; retry_on_failure is never set.                    *)
GiveUp(fresh, reason) == Exhausted(fresh) \/ reason = "task_failure"

(* The worker of RETRY_DIFFERENT: the best other one, else the same.       *)
Candidates(fresh) == IF live \ {fresh.worker} # {} THEN live \ {fresh.worker} ELSE live

(* Mutant of Recovered: the budget is not looked at.                       *)
RecoveredForEver(fresh, reason) ==
  IF reason = "task_failure"
  THEN {[fresh EXCEPT !.status = "FAILURE", !.givenUp = TRUE]}
  ELSE {[fresh EXCEPT !.attempts = @ + 1, !.worker = w, !.status = "PENDING",
                      !.waiting = FALSE] : w \in Candidates(fresh)}

(* _execute: the records it may write.                                     *)
Recovered(fresh, reason) ==
  IF GiveUp(fresh, reason)
  THEN {[fresh EXCEPT !.status = "FAILURE", !.givenUp = TRUE]}
  ELSE IF live = {} THEN {[fresh EXCEPT !.waiting = TRUE]}
  ELSE {[fresh EXCEPT !.attempts = @ + 1, !.worker = w, !.status = "PENDING",
                      !.waiting = FALSE] : w \in Candidates(fresh)}

(* The in-progress guard and the early returns of _attempt_recovery.       *)
Recoverable(t) ==
  /\ t \notin InProgress
  /\ ht1[t] # None /\ ~ht1[t].waiting /\ ht1[t].status # "SUCCESS"

(* _attempt_recovery up to the decision, on a fresh read; one that fails   *)
(* counts as no record.                                                    *)
Decide(s) ==
  LET t == scan[s].task
      fresh == ht1[t]
  IN /\ scan[s].step = "found"
     /\ \/ /\ IF ~Recoverable(t) THEN UNCHANGED troubles ELSE Trouble("fault")
           /\ scan' = [scan EXCEPT ![s] = NoScan]
           /\ UNCHANGED history
        \/ /\ Recoverable(t)
           /\ \E r \in Recovered(fresh, scan[s].reason) :
                scan' = [scan EXCEPT ![s].step = "put", ![s].record = r,
                           ![s].old = IF r.status = "PENDING" /\ ~r.waiting THEN fresh.worker ELSE None]
           /\ ended' = IF Exhausted(fresh)
                       THEN [ended EXCEPT ![t] = @ \cup {"EXHAUSTED"}] ELSE ended
           /\ UNCHANGED <<raced, troubles>>
     /\ UNCHANGED <<tables, registry, request, runner, exec, posts, cleanup, mover, janitor>>

(* The write, whatever the record has become, and for a retry the two HT2  *)
(* calls.  Errors are logged.                                              *)
PutRecovered(s, ok) ==
  /\ scan[s].step = "put"
  /\ Call(Put(scan[s].task, scan[s].record), ok)
  /\ Touch(scan[s].task)
  /\ scan' = IF scan[s].old = None THEN [scan EXCEPT ![s] = NoScan]
             ELSE IF scan[s].old # scan[s].record.worker
             THEN [scan EXCEPT ![s].step = "remove"] ELSE [scan EXCEPT ![s].step = "append"]
  /\ UNCHANGED <<registry, request, runner, exec, posts, cleanup, mover, janitor, ended>>

RemoveOld(s, ok) ==
  /\ scan[s].step = "remove"
  /\ Call(RemoveFrom(scan[s].old, scan[s].task), ok)
  /\ scan' = [scan EXCEPT ![s].step = "append"]
  /\ UNCHANGED <<registry, request, runner, exec, posts, cleanup, mover, janitor, history>>

(* Mutant of AppendNew: the task goes back to the list it came from.       *)
AppendNewToOld(s, ok) ==
  /\ scan[s].step = "append"
  /\ Call(AppendTo(scan[s].old, scan[s].task), ok)
  /\ scan' = [scan EXCEPT ![s] = NoScan]
  /\ UNCHANGED <<registry, request, runner, exec, posts, cleanup, mover, janitor, history>>

AppendNew(s, ok) ==
  /\ scan[s].step = "append"
  /\ Call(AppendTo(scan[s].record.worker, scan[s].task), ok)
  /\ scan' = [scan EXCEPT ![s] = NoScan]
  /\ UNCHANGED <<registry, request, runner, exec, posts, cleanup, mover, janitor, history>>

(***************************************************************************)
(* _do_rebalance, one move of a pass                                       *)
(***************************************************************************)
PendingTasks == {t \in Tasks : Pending(t)}
Load(w) == Cardinality({t \in PendingTasks : ht1[t].worker = w})
Target == LET share == Cardinality(PendingTasks) \div Cardinality(live)
          IN IF share > 1 THEN share ELSE 1

Rebalance(t, w) ==
  LET src == ht1[t].worker
  IN /\ mover = NoMove /\ Cardinality(live) >= 2 /\ Pending(t)
     /\ w \in live /\ \A v \in live : Load(w) <= Load(v)
     /\ src \in live => Load(src) > Target /\ Load(w) < Load(src)
     /\ mover' = [step |-> "put", task |-> t, record |-> [ht1[t] EXCEPT !.worker = w],
                  old |-> IF src \in live THEN src ELSE None]
     /\ UNCHANGED <<tables, troubles, registry, request, runner, exec, posts, cleanup,
                    scan, janitor, history>>

(* The record is put into the local store; one try covers the two calls.   *)
MovePut ==
  /\ mover.step = "put"
  /\ ht1' = [ht1 EXCEPT ![mover.task] = mover.record]
  /\ raced' = raced \cup {mover.task}
  /\ mover' = [mover EXCEPT !.step = IF mover.old = None THEN "append" ELSE "remove"]
  /\ UNCHANGED <<ht2, late, troubles, registry, request, runner, exec, posts, cleanup,
                 scan, janitor, ended>>

MoveRemove(ok) ==
  /\ mover.step = "remove"
  /\ Call(RemoveFrom(mover.old, mover.task), ok)
  /\ mover' = IF ok THEN [mover EXCEPT !.step = "append"] ELSE NoMove
  /\ UNCHANGED <<registry, request, runner, exec, posts, cleanup, scan, janitor, history>>

MoveAppend(ok) ==
  /\ mover.step = "append"
  /\ Call(AppendTo(mover.record.worker, mover.task), ok)
  /\ mover' = NoMove
  /\ UNCHANGED <<registry, request, runner, exec, posts, cleanup, scan, janitor, history>>

(***************************************************************************)
(* The operator, and the frontend process                                  *)
(***************************************************************************)
(* _clear_completed_local reads a finished record and takes the task off   *)
(* its worker's list; _clear_all_local lists every key.                    *)
ClearCompleted(t) ==
  /\ janitor = {} /\ Trouble("clear")
  /\ ht1[t] # None /\ ht1[t].status \in Outcomes
  /\ Apply(RemoveFrom(ht1[t].worker, t)) \/ UNCHANGED <<ht1, ht2>>
  /\ late' = late
  /\ janitor' = {t}
  /\ UNCHANGED <<registry, request, runner, exec, posts, cleanup, scan, mover, history>>

ResetAll ==
  /\ janitor = {} /\ Trouble("clear")
  /\ janitor' = {t \in Tasks : ht1[t] # None} \cup {w \in Workers : ht2[w] # {}}
  /\ UNCHANGED <<tables, registry, request, runner, exec, posts, cleanup, scan,
                 mover, history>>

(* node.delete of one of the keys.                                         *)
DeleteKey(k) ==
  /\ k \in janitor
  /\ janitor' = janitor \ {k}
  /\ ht1' = IF k \in Tasks THEN [ht1 EXCEPT ![k] = None] ELSE ht1
  /\ ht2' = IF k \in Workers THEN [ht2 EXCEPT ![k] = {}] ELSE ht2
  /\ UNCHANGED <<late, troubles, registry, request, runner, exec, posts, cleanup,
                 scan, mover, history>>

(* The frontend process is started again: its handlers, its threads and    *)
(* the registry are gone, the tables are not.                              *)
Reboot ==
  /\ Trouble("reboot")
  /\ known' = {} /\ live' = {}
  /\ request' = [q \in Requests |->
                   IF request[q].step \in {"ht1", "ht2", "rollback"}
                   THEN [request[q] EXCEPT !.step = "lost"] ELSE request[q]]
  /\ exec' = [w \in Workers |-> [t \in Tasks |->
                IF exec[w][t].step = "posted" THEN Retried(exec[w][t]) ELSE exec[w][t]]]
  /\ posts' = {} /\ cleanup' = {}
  /\ scan' = [s \in Scanners |-> NoScan] /\ mover' = NoMove /\ janitor' = {}
  /\ UNCHANGED <<tables, runner, history>>

(***************************************************************************)
(* Specification                                                           *)
(***************************************************************************)
Creating(q) ==
  \/ \E t \in Tasks : Check(q, t)
  \/ \E ok \in BOOLEAN : WriteHT1(q, ok) \/ AppendHT2(q, ok) \/ Rollback(q, ok)

Polling(w) ==
  \/ Booted(w) \/ FetchAssigned(w)
  \/ \E t \in Tasks : Take(w, t) \/ Report(w, t) \/ ReportTimeout(w, t)
                      \/ \E o \in Outcomes : RunTask(w, t, o)

Recovering(s) ==
  \/ \E t \in Tasks : Detect(s, t)
  \/ Decide(s)
  \/ \E ok \in BOOLEAN : \/ ClearWaiting(s, ok) \/ PutRecovered(s, ok)
                         \/ RemoveOld(s, ok) \/ AppendNew(s, ok)

Moving ==
  \/ \E t \in Tasks, w \in Workers : Rebalance(t, w)
  \/ MovePut \/ \E ok \in BOOLEAN : MoveRemove(ok) \/ MoveAppend(ok)

Cleaning ==
  \/ \E t \in Tasks : ClearCompleted(t)
  \/ ResetAll
  \/ \E k \in Tasks \cup Workers : DeleteKey(k)

Next ==
  \/ \E q \in Requests : Creating(q)
  \/ \E w \in Workers : Polling(w) \/ Heartbeat(w) \/ Expire(w) \/ Boot(w)
  \/ \E w \in Workers, killed \in BOOLEAN : Stop(w, killed)
  \/ \E p \in posts, ok \in BOOLEAN : Complete(p, ok)
  \/ \E c \in cleanup, ok \in BOOLEAN : Cleanup(c, ok)
  \/ \E c \in late : Deliver(c)
  \/ \E s \in Scanners : Recovering(s)
  \/ Moving \/ Cleaning \/ Reboot

(* Threads and handlers go on, executions end, heartbeats are sent, a scan *)
(* looks at every task and time passes; troubles need not come.            *)
Main(w) == Booted(w) \/ FetchAssigned(w) \/ \E t \in Tasks : Take(w, t)
Handler(q) == \E ok \in BOOLEAN : WriteHT1(q, ok) \/ AppendHT2(q, ok) \/ Rollback(q, ok)

Fairness ==
  /\ \A q \in Requests : WF_vars(Handler(q))
  /\ \A w \in Workers : /\ WF_vars(Main(w)) /\ WF_vars(Heartbeat(w))
                        /\ WF_vars(w \notin up /\ Expire(w))
  /\ \A w \in Workers, t \in Tasks :
       WF_vars(Report(w, t) \/ \E o \in Outcomes : RunTask(w, t, o))
  /\ WF_vars(\E p \in posts, ok \in BOOLEAN : Complete(p, ok))
  /\ \A s \in Scanners : WF_vars(Recovering(s))
  /\ \A s \in Scanners, t \in Tasks : SF_vars(Detect(s, t))
  /\ WF_vars(Moving)

Spec == Init /\ [][Next]_vars /\ Fairness

(***************************************************************************)
(* Properties                                                              *)
(***************************************************************************)
(* However reports, recoveries and clears overwrite each other with        *)
(* records they read earlier, no record counts more attempts than          *)
(* max_attempts (choose_recovery_path).                                    *)
AttemptsWithinBudget ==
  \A t \in Tasks : ht1[t] # None => ht1[t].attempts <= MaxAttempts

Only(kinds) == \A k \in Troubles \ kinds : used[k] = 0
Accepted(t) == \E q \in Requests : request[q].task = t /\ request[q].step = "accepted"

(* An accepted task keeps its record: after one failure, no rollback of a  *)
(* rejected request for the same task, sent before or after, takes it away *)
(* (create_task_v2).                                                       *)
AcceptedKeepsRecord ==
  \A t \in Tasks : Accepted(t) /\ t \notin raced /\ used["fault"] <= 1 /\ used["clear"] = 0
    => ht1[t] # None

(* Nobody else wrote the task while createTask did, it was given to a      *)
(* worker that runs at first and was not rebalanced.                       *)
Orderly(t) ==
  /\ t \notin raced
  /\ \A q \in Requests : request[q].task = t => request[q].worker \in Started \cup {None}

(* Somebody will still act on the task: a worker executes it or will find  *)
(* it in its list, a report, a recovery or a move is under way, its worker *)
(* is not alive, or it waits for a retry.                                  *)
Attended(t) ==
  \/ \E w \in Workers : exec[w][t] # Idle
  \/ \E w \in up : t \in (ht2[w] \cup todo[w]) \ seen[w]
  \/ \E p \in posts : p.task = t
  \/ \E s \in Scanners : scan[s].task = t
  \/ mover.task = t
  \/ ht1[t].worker \notin up \cap live \/ ht1[t].waiting

(* One worker that dies or falls silent: whatever the runner, the report   *)
(* and the recovery do in between, an accepted task that is PENDING is     *)
(* not one that every component believes to be another's.                  *)
OneTrouble == left >= MaxTroubles - 1 /\ Only({"stop", "silence"})
NeverForgotten ==
  \A t \in Tasks : Accepted(t) /\ Orderly(t) /\ Pending(t) /\ OneTrouble => Attended(t)

(* ... and every accepted task ends with a result.                         *)
EveryTaskEnds ==
  \A t \in Tasks :
    [](Orderly(t) /\ OneTrouble)
      => (Accepted(t) ~> ht1[t] # None /\ ht1[t].status \in Outcomes)

(* While nothing goes wrong a result is final: neither a repeated request  *)
(* nor a recovery reopens the task (create_task_v2, result_complete).      *)
ResultStands ==
  [][\A t \in Tasks :
       Orderly(t)' /\ Only({})' /\ ht1[t] # None /\ ht1[t].status \in Outcomes
         => ht1'[t] # None /\ ht1'[t].status = ht1[t].status]_vars

(* What a client reads is grounded in what happened: every step of this    *)
(* module is a step of TaskBoard, although results travel through reports, *)
(* copies of records and late calls.                                       *)
Status(t) == IF ht1[t] = None THEN "NONE" ELSE ht1[t].status
Board == INSTANCE TaskBoard WITH status <- [t \in Tasks |-> Status(t)]
ImplementsBoard == Board!Spec

(* recovery.py: "All HT1 writes merge new fields into the existing record  *)
(* dict so that fields written by workers (e.g. result, updated_at) are    *)
(* preserved."                                                             *)
RecoveryPreservesResults ==
  [][\A s \in Scanners, ok \in BOOLEAN : PutRecovered(s, ok) /\ ok
       => Status(scan[s].task) # "SUCCESS"]_vars
=============================================================================
