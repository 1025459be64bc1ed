------------------------------ MODULE TaskProofs ------------------------------
(***************************************************************************)
(* Proofs about TaskLifecycle for every set of tasks, workers, requests    *)
(* and scanners and every bound: the types, the budget of attempts, that   *)
(* the tables implement TaskBoard, that an accepted task keeps its record, *)
(* that a result stands while nothing goes wrong, and that no task is      *)
(* forgotten after one worker died or fell silent.                         *)
(***************************************************************************)
EXTENDS TaskLifecycle, TLAPS

(***************************************************************************)
(* Types                                                                   *)
(***************************************************************************)
(* The types of the variables, grouped as the actions leave them alone.    *)
(* A handler, a recovery and a move that is under way names what it works  *)
(* on, which TypeOK alone does not say.                                    *)
HeldRequest ==
  {r \in Request : r.step \in {"ht1", "ht2", "rollback"} => r.task \in Tasks /\ r.worker \in Workers}
HeldScan ==
  {x \in Scan : /\ x.step # "idle" => x.task \in Tasks
                /\ x.step \in {"clear", "put", "remove", "append"} => x.record \in Records
                /\ x.step = "remove" => x.old \in Workers}
HeldMove ==
  {x \in Move : /\ x.step # "idle" => x.task \in Tasks /\ x.record \in Records
                /\ x.step = "remove" => x.old \in Workers}

TablesType ==
  /\ ht1 \in [Tasks -> Records \cup {None}] /\ ht2 \in [Workers -> SUBSET Tasks]
  /\ late \in SUBSET Calls
RegistryType == known \in SUBSET Workers /\ live \in SUBSET Workers
RequestType == request \in [Requests -> HeldRequest]
RunnerType ==
  /\ up \in SUBSET Workers /\ booting \in SUBSET Workers
  /\ seen \in [Workers -> SUBSET Tasks] /\ todo \in [Workers -> SUBSET Tasks]
ExecType == exec \in [Workers -> [Tasks -> Execution]]
PostsType == posts \in SUBSET Post
CleanupType == cleanup \in SUBSET Lists
ScanType == scan \in [Scanners -> HeldScan]
MoverType == mover \in HeldMove
JanitorType == janitor \in SUBSET (Tasks \cup Workers)
EndedType == ended \in [Tasks -> SUBSET (Outcomes \cup {"EXHAUSTED"})]
RacedType == raced \in SUBSET Tasks
TroublesType == left \in 0 .. MaxTroubles /\ used \in [Troubles -> Nat]

TypeInv ==
  /\ TablesType /\ RegistryType /\ RequestType /\ RunnerType /\ ExecType /\ PostsType
  /\ CleanupType /\ ScanType /\ MoverType /\ JanitorType /\ EndedType /\ RacedType
  /\ TroublesType

(* The inductive types imply the types.                                    *)
LEMMA TypeInvTypes == TypeInv => TypeOK
<1>1. HeldRequest \subseteq Request /\ HeldScan \subseteq Scan /\ HeldMove \subseteq Move
  BY DEF HeldRequest, HeldScan, HeldMove
<1>2. TypeInv => request \in [Requests -> Request] /\ scan \in [Scanners -> Scan] /\ mover \in Move
  BY <1>1 DEF TypeInv, RequestType, ScanType, MoverType
<1> QED BY <1>2 DEF TypeOK, TypeInv, TablesType, RegistryType, RunnerType, ExecType, PostsType,
                    CleanupType, JanitorType, EndedType, RacedType, TroublesType

(* What an action leaves alone keeps its type.                             *)
LEMMA KeptTypes ==
  ASSUME TypeInv
  PROVE  /\ UNCHANGED tables => TablesType'
         /\ UNCHANGED registry => RegistryType'
         /\ UNCHANGED request => RequestType'
         /\ UNCHANGED runner => RunnerType'
         /\ UNCHANGED exec => ExecType'
         /\ UNCHANGED posts => PostsType'
         /\ UNCHANGED cleanup => CleanupType'
         /\ UNCHANGED scan => ScanType'
         /\ UNCHANGED mover => MoverType'
         /\ UNCHANGED janitor => JanitorType'
         /\ UNCHANGED ended => EndedType'
         /\ UNCHANGED raced => RacedType'
         /\ UNCHANGED history => EndedType' /\ RacedType'
         /\ UNCHANGED troubles => TroublesType'
  BY DEF TypeInv, TablesType, RegistryType, RequestType, RunnerType, ExecType, PostsType,
         CleanupType, ScanType, MoverType, JanitorType, EndedType, RacedType, TroublesType,
         tables, registry, runner, history, troubles

(* A trouble is counted within its bound.                                  *)
LEMMA TroubleTypes ==
  ASSUME TypeInv, NEW k, Trouble(k)
  PROVE  TroublesType'
<1>1. left - 1 \in 0 .. MaxTroubles
  BY TaskAssumption DEF Trouble, TypeInv, TroublesType
<1>2. used' \in [Troubles -> Nat]
  BY TaskAssumption DEF Trouble, TypeInv, TroublesType
<1> QED BY <1>1, <1>2 DEF Trouble, TroublesType

(* The calls the actions make.                                             *)
LEMMA CallMembers ==
  /\ \A t \in Tasks, r \in Records \cup {None} : Put(t, r) \in Puts
  /\ \A t \in Tasks, w \in Workers : AppendTo(w, t) \in Lists /\ RemoveFrom(w, t) \in Lists
  /\ Puts \subseteq Calls /\ Lists \subseteq Calls
  BY DEF Calls, Puts, Lists, Put, AppendTo, RemoveFrom

(* A call keeps the tables well formed, whether it is carried out or not.  *)
LEMMA ApplyTypes ==
  ASSUME TypeInv, NEW c \in Calls, Apply(c)
  PROVE  ht1' \in [Tasks -> Records \cup {None}] /\ ht2' \in [Workers -> SUBSET Tasks]
<1>1. ht1' \in [Tasks -> Records \cup {None}]
  BY DEF Apply, Calls, Puts, Lists, TypeInv, TablesType
<1>2. CASE c.op = "put"
  BY <1>1, <1>2 DEF Apply, TypeInv, TablesType
<1>3. CASE c \in Lists
  BY <1>1, <1>3 DEF Apply, Lists, TypeInv, TablesType
<1> QED BY <1>2, <1>3 DEF Calls, Puts

LEMMA CallTypes ==
  ASSUME TypeInv, NEW c \in Calls, NEW ok \in BOOLEAN, Call(c, ok)
  PROVE  TablesType' /\ TroublesType'
<1>1. CASE ok
  <2>1. Apply(c) /\ UNCHANGED late /\ UNCHANGED troubles
    BY <1>1 DEF Call
  <2> QED BY <2>1, ApplyTypes, KeptTypes DEF TablesType, TypeInv
<1>2. CASE ~ok
  <2>1. Trouble("fault") /\ late' \in {late, late \cup {c}} /\ UNCHANGED <<ht1, ht2>>
    BY <1>2 DEF Call
  <2> QED BY <2>1, TroubleTypes DEF TablesType, TypeInv
<1> QED BY <1>1, <1>2

(* A handler's step.                                                       *)
LEMMA RequestTypes ==
  ASSUME TypeInv, NEW q \in Requests
  PROVE  /\ \A step \in {"ht1", "ht2", "rollback", "accepted", "rejected"}, tries \in Nat :
              request[q].step \in {"ht1", "ht2", "rollback"} /\ SetRequest(q, step, tries)
                => RequestType'
         /\ \A ok \in BOOLEAN, next, failed \in {"ht2", "rollback", "accepted", "rejected"} :
              request[q].step \in {"ht1", "ht2"} /\ Again(q, ok, next, failed) => RequestType'
<1>1. \A step \in {"ht1", "ht2", "rollback", "accepted", "rejected"}, tries \in Nat :
        request[q].step \in {"ht1", "ht2", "rollback"} /\ SetRequest(q, step, tries) => RequestType'
  <2> SUFFICES ASSUME NEW step \in {"ht1", "ht2", "rollback", "accepted", "rejected"},
                      NEW tries \in Nat, request[q].step \in {"ht1", "ht2", "rollback"},
                      SetRequest(q, step, tries)
               PROVE  RequestType'
    OBVIOUS
  <2>1. request[q] \in HeldRequest
    BY DEF TypeInv, RequestType
  <2>2. [request[q] EXCEPT !.step = step, !.tries = tries] \in HeldRequest
    BY <2>1 DEF HeldRequest, Request
  <2>3. request' = [request EXCEPT ![q] = [request[q] EXCEPT !.step = step, !.tries = tries]]
    BY DEF SetRequest, TypeInv, RequestType
  <2> QED BY <2>2, <2>3 DEF RequestType, TypeInv
<1>2. request[q].tries + 1 \in Nat /\ 0 \in Nat
  BY DEF TypeInv, RequestType, HeldRequest, Request
<1> QED BY <1>1, <1>2 DEF Again

(* A step of an execution.                                                 *)
LEMMA ExecTypes ==
  ASSUME TypeInv, NEW w \in Workers, NEW t \in Tasks
  PROVE  /\ \A e \in Execution : exec' = [exec EXCEPT ![w][t] = e] => ExecType'
         /\ Idle \in Execution /\ exec[w][t] \in Execution
         /\ Retried(exec[w][t]) \in Execution
<1>1. \A e \in Execution : exec' = [exec EXCEPT ![w][t] = e] => ExecType'
  BY DEF TypeInv, ExecType
<1>2. Idle \in Execution /\ exec[w][t] \in Execution
  BY DEF TypeInv, ExecType, Idle, Execution, Outcomes
<1>3. Retried(exec[w][t]) \in Execution
  <2>1. exec[w][t].tries + 1 \in Nat
    BY <1>2 DEF Execution
  <2>2. \A n \in Nat : [exec[w][t] EXCEPT !.step = "report", !.tries = n] \in Execution
    BY <1>2 DEF Execution
  <2> QED BY <1>2, <2>1, <2>2 DEF Retried
<1> QED BY <1>1, <1>2, <1>3

(* The records of the tables, and what recovery makes of them.             *)
LEMMA RecordTypes ==
  ASSUME TypeInv
  PROVE  /\ \A t \in Tasks : ht1[t] \in Records \cup {None}
         /\ \A w \in Workers : NewRecord(w) \in Records
         /\ \A r \in Records : /\ \A s \in {"SUCCESS", "FAILURE"} : [r EXCEPT !.status = s] \in Records
                               /\ [r EXCEPT !.waiting = FALSE] \in Records
                               /\ \A w \in Workers : [r EXCEPT !.worker = w] \in Records
                               /\ r.worker \in Workers /\ r # None
                               /\ \A reason : Recovered(r, reason) \subseteq Records
<1>1. \A r \in Records : \A reason : Recovered(r, reason) \subseteq Records
  <2> SUFFICES ASSUME NEW r \in Records, NEW reason, NEW x \in Recovered(r, reason)
               PROVE  x \in Records
    OBVIOUS
  <2>1. [r EXCEPT !.status = "FAILURE", !.givenUp = TRUE] \in Records
    BY DEF Records
  <2>2. [r EXCEPT !.waiting = TRUE] \in Records
    BY DEF Records
  <2>3. ASSUME NEW w \in Workers
        PROVE  [r EXCEPT !.attempts = @ + 1, !.worker = w, !.status = "PENDING",
                         !.waiting = FALSE] \in Records
    <3>1. r.attempts + 1 \in Nat
      BY DEF Records
    <3>2. \A n \in Nat : [r EXCEPT !.attempts = n, !.worker = w, !.status = "PENDING",
                                    !.waiting = FALSE] \in Records
      BY DEF Records
    <3> QED BY <3>1, <3>2
  <2>4. Candidates(r) \subseteq Workers
    BY DEF Candidates, TypeInv, RegistryType
  <2> QED BY <2>1, <2>2, <2>3, <2>4 DEF Recovered
<1>2. /\ \A t \in Tasks : ht1[t] \in Records \cup {None}
      /\ \A w \in Workers : NewRecord(w) \in Records
  BY DEF TypeInv, TablesType, NewRecord, Records
<1>3. \A r \in Records : /\ \A s \in {"SUCCESS", "FAILURE"} : [r EXCEPT !.status = s] \in Records
                         /\ [r EXCEPT !.waiting = FALSE] \in Records
                         /\ \A w \in Workers : [r EXCEPT !.worker = w] \in Records
                         /\ r.worker \in Workers
  BY DEF Records
<1> QED BY <1>1, <1>2, <1>3, TaskAssumption

(* create_task_v2.                                                         *)
LEMMA CreatingTypes ==
  ASSUME TypeInv, NEW q \in Requests, Creating(q)
  PROVE  TypeInv'
<1>t. /\ request[q] \in HeldRequest
      /\ request[q].step \in {"ht1", "ht2", "rollback"} =>
           request[q].task \in Tasks /\ request[q].worker \in Workers
  BY DEF TypeInv, RequestType, HeldRequest
<1>1. ASSUME NEW t \in Tasks, Check(q, t) PROVE TypeInv'
  <2>1. TroublesType'
    BY <1>1, TroubleTypes, KeptTypes DEF Check, troubles
  <2>2. ASSUME NEW w \in Workers, Proceed(q, t, w) PROVE RequestType' /\ RacedType'
    <3>1. [step |-> "ht1", task |-> t, worker |-> w, tries |-> 0] \in HeldRequest
      BY DEF HeldRequest, Request
    <3> QED BY <2>2, <3>1 DEF Proceed, Touch, RequestType, RacedType, TypeInv
  <2>3. ASSUME NEW step \in {"exists", "rejected"},
               request' = [request EXCEPT ![q].step = step, ![q].task = t]
        PROVE  RequestType'
    <3>1. [request[q] EXCEPT !.step = step, !.task = t] \in HeldRequest
      BY <1>t DEF HeldRequest, Request
    <3>2. request' = [request EXCEPT ![q] = [request[q] EXCEPT !.step = step, !.task = t]]
      BY <2>3 DEF TypeInv, RequestType
    <3> QED BY <3>1, <3>2 DEF RequestType, TypeInv
  <2>4. RequestType' /\ RacedType'
    BY <1>1, <2>2, <2>3, KeptTypes DEF Check
  <2> QED BY <1>1, <2>1, <2>4, KeptTypes DEF Check, TypeInv
<1>2. ASSUME NEW ok \in BOOLEAN, WriteHT1(q, ok) PROVE TypeInv'
  <2>1. Put(request[q].task, NewRecord(request[q].worker)) \in Calls
    BY <1>2, <1>t, CallMembers, RecordTypes DEF WriteHT1
  <2> QED BY <1>2, <2>1, CallTypes, RequestTypes, KeptTypes DEF WriteHT1, TypeInv
<1>3. ASSUME NEW ok \in BOOLEAN, AppendHT2(q, ok) PROVE TypeInv'
  <2>1. AppendTo(request[q].worker, request[q].task) \in Calls
    BY <1>3, <1>t, CallMembers DEF AppendHT2
  <2> QED BY <1>3, <2>1, CallTypes, RequestTypes, KeptTypes DEF AppendHT2, TypeInv
<1>4. ASSUME NEW ok \in BOOLEAN, Rollback(q, ok) PROVE TypeInv'
  <2>1. Put(request[q].task, None) \in Calls
    BY <1>4, <1>t, CallMembers DEF Rollback
  <2> QED BY <1>4, <2>1, CallTypes, RequestTypes, KeptTypes DEF Rollback, TypeInv
<1> QED BY <1>1, <1>2, <1>3, <1>4 DEF Creating

(* The task runner.                                                        *)
LEMMA PollingTypes ==
  ASSUME TypeInv, NEW w \in Workers, Polling(w)
  PROVE  TypeInv'
<1>1. CASE Booted(w)
  BY <1>1, KeptTypes DEF Booted, TypeInv, RunnerType
<1>2. CASE FetchAssigned(w)
  BY <1>2, KeptTypes DEF FetchAssigned, TypeInv, RunnerType, TablesType
<1>3. ASSUME NEW t \in Tasks, Take(w, t) PROVE TypeInv'
  <2>1. TroublesType'
    BY <1>3, TroubleTypes, KeptTypes DEF Take, troubles
  <2>2. RunnerType'
    BY <1>3 DEF Take, TypeInv, RunnerType
  <2>3. exec' = [exec EXCEPT ![w][t].step = "running"] => ExecType'
    <3>1. [exec[w][t] EXCEPT !.step = "running"] \in Execution
      BY ExecTypes DEF Execution
    <3> QED BY <3>1 DEF ExecType, TypeInv
  <2>4. ExecType'
    BY <1>3, <2>3, KeptTypes DEF Take
  <2> QED BY <1>3, <2>1, <2>2, <2>4, KeptTypes DEF Take, TypeInv
<1>4. ASSUME NEW t \in Tasks, Report(w, t) PROVE TypeInv'
  <2>1. TroublesType'
    BY <1>4, TroubleTypes, KeptTypes DEF Report, troubles
  <2>2. PostsType'
    <3>1. ht1[t] # None => [worker |-> w, task |-> t, tries |-> exec[w][t].tries,
                            outcome |-> exec[w][t].outcome, record |-> ht1[t]] \in Post
      BY ExecTypes, RecordTypes DEF Execution, Post
    <3> QED BY <1>4, <3>1 DEF Report, PostsType, TypeInv
  <2>3. ExecType'
    <3>1. [exec[w][t] EXCEPT !.step = "posted"] \in Execution
      BY ExecTypes DEF Execution
    <3>2. exec' = [exec EXCEPT ![w][t].step = "posted"] => ExecType'
      BY <3>1 DEF ExecType, TypeInv
    <3> QED BY <1>4, <3>2, ExecTypes DEF Report
  <2> QED BY <1>4, <2>1, <2>2, <2>3, KeptTypes DEF Report, TypeInv
<1>5. ASSUME NEW t \in Tasks, ReportTimeout(w, t) PROVE TypeInv'
  <2>1. ExecType'
    BY <1>5, ExecTypes DEF ReportTimeout
  <2> QED BY <1>5, <2>1, TroubleTypes, KeptTypes DEF ReportTimeout, TypeInv
<1>6. ASSUME NEW t \in Tasks, NEW o \in Outcomes, RunTask(w, t, o) PROVE TypeInv'
  <2>1. [step |-> "report", outcome |-> o, tries |-> 0] \in Execution
    BY DEF Execution
  <2>2. ExecType'
    BY <1>6, <2>1, ExecTypes DEF RunTask
  <2>3. EndedType'
    BY <1>6 DEF RunTask, EndedType, TypeInv
  <2> QED BY <1>6, <2>2, <2>3, KeptTypes DEF RunTask, TypeInv
<1> QED BY <1>1, <1>2, <1>3, <1>4, <1>5, <1>6 DEF Polling

(* The registry, the worker processes and the calls they leave behind.     *)
LEMMA WorkerTypes ==
  ASSUME TypeInv, NEW w \in Workers
  PROVE  /\ Heartbeat(w) => TypeInv'
         /\ Expire(w) => TypeInv'
         /\ Boot(w) => TypeInv'
         /\ \A killed \in BOOLEAN : Stop(w, killed) => TypeInv'
<1>1. ASSUME Heartbeat(w) PROVE TypeInv'
  BY <1>1, KeptTypes DEF Heartbeat, TypeInv, RegistryType
<1>2. ASSUME Expire(w) PROVE TypeInv'
  <2>1. TroublesType'
    BY <1>2, TroubleTypes, KeptTypes DEF Expire
  <2> QED BY <1>2, <2>1, KeptTypes DEF Expire, TypeInv, RegistryType
<1>3. ASSUME Boot(w) PROVE TypeInv'
  BY <1>3, TroubleTypes, KeptTypes DEF Boot, TypeInv, RegistryType, RunnerType, TablesType
<1>4. ASSUME NEW killed \in BOOLEAN, Stop(w, killed) PROVE TypeInv'
  <2>1. RegistryType'
    BY <1>4, KeptTypes DEF Stop, TypeInv, RegistryType
  <2>2. RunnerType'
    BY <1>4 DEF Stop, TypeInv, RunnerType
  <2>3. ExecType'
    <3>1. Idle \in Execution
      BY DEF Idle, Execution, Outcomes
    <3> QED BY <1>4, <3>1 DEF Stop, TypeInv, ExecType
  <2>4. PostsType'
    <3>1. \A p \in Post : [p EXCEPT !.tries = MaxRetries + 1] \in Post
      <4>1. MaxRetries + 1 \in Nat
        BY TaskAssumption
      <4> QED BY <4>1 DEF Post
    <3> QED BY <1>4, <3>1 DEF Stop, Abandoned, TypeInv, PostsType
  <2> QED BY <1>4, <2>1, <2>2, <2>3, <2>4, TroubleTypes, KeptTypes DEF Stop, TypeInv
<1> QED BY <1>1, <1>2, <1>3, <1>4

(* result_complete, its delayed clean-up, and calls carried out late.      *)
LEMMA HandlerTypes ==
  ASSUME TypeInv
  PROVE  /\ \A p \in posts, ok \in BOOLEAN : Complete(p, ok) => TypeInv'
         /\ \A c \in cleanup, ok \in BOOLEAN : Cleanup(c, ok) => TypeInv'
         /\ \A c \in late : Deliver(c) => TypeInv'
<1>1. ASSUME NEW p \in posts, NEW ok \in BOOLEAN, Complete(p, ok) PROVE TypeInv'
  <2>1. p \in Post
    BY DEF TypeInv, PostsType
  <2>2. /\ p.worker \in Workers /\ p.task \in Tasks /\ p.record \in Records
        /\ p.outcome \in {"SUCCESS", "FAILURE"}
    BY <2>1 DEF Post, Outcomes
  <2>3. Put(p.task, [p.record EXCEPT !.status = p.outcome]) \in Calls
    BY <2>2, CallMembers, RecordTypes
  <2>4. RemoveFrom(p.record.worker, p.task) \in Lists
    BY <2>2, CallMembers, RecordTypes
  <2>5. CleanupType'
    BY <1>1, <2>4 DEF Complete, CleanupType, TypeInv
  <2>6. PostsType'
    BY <1>1 DEF Complete, PostsType, TypeInv
  <2>7. ExecType'
    BY <1>1, <2>2, ExecTypes, KeptTypes DEF Complete
  <2> QED BY <1>1, <2>3, <2>5, <2>6, <2>7, CallTypes, KeptTypes DEF Complete, TypeInv
<1>2. ASSUME NEW c \in cleanup, NEW ok \in BOOLEAN, Cleanup(c, ok) PROVE TypeInv'
  <2>1. c \in Calls
    BY CallMembers DEF TypeInv, CleanupType
  <2> QED BY <1>2, <2>1, CallTypes, KeptTypes DEF Cleanup, TypeInv, CleanupType
<1>3. ASSUME NEW c \in late, Deliver(c) PROVE TypeInv'
  <2>1. c \in Calls
    BY DEF TypeInv, TablesType
  <2> QED BY <1>3, <2>1, ApplyTypes, KeptTypes DEF Deliver, TypeInv, TablesType
<1> QED BY <1>1, <1>2, <1>3

(* One recovery thread's state.                                            *)
LEMMA ScanUpdate ==
  ASSUME TypeInv, NEW s \in Scanners, NEW x \in HeldScan, scan' = [scan EXCEPT ![s] = x]
  PROVE  ScanType'
  BY DEF TypeInv, ScanType

(* RecoveryManager.                                                        *)
LEMMA RecoveringTypes ==
  ASSUME TypeInv, NEW s \in Scanners, Recovering(s)
  PROVE  TypeInv'
<1>t. /\ scan[s] \in HeldScan /\ scan[s] \in Scan
      /\ scan[s].step # "idle" => scan[s].task \in Tasks
      /\ scan[s].step \in {"clear", "put", "remove", "append"} => scan[s].record \in Records
      /\ scan[s].step = "remove" => scan[s].old \in Workers
      /\ scan[s].old \in Workers \cup {None}
  BY DEF TypeInv, ScanType, HeldScan, Scan
<1>n. NoScan \in HeldScan
  BY DEF NoScan, HeldScan, Scan
<1>1. ASSUME NEW t \in Tasks, Detect(s, t) PROVE TypeInv'
  <2>1. /\ [NoScan EXCEPT !.step = "found", !.task = t] \in HeldScan
        /\ [NoScan EXCEPT !.step = "found", !.task = t, !.reason = "task_failure"] \in HeldScan
    BY DEF NoScan, HeldScan, Scan
  <2>2. ht1[t] # None => [NoScan EXCEPT !.step = "clear", !.task = t, !.record = ht1[t]] \in HeldScan
    BY RecordTypes DEF NoScan, HeldScan, Scan
  <2>3. ScanType'
    BY <1>1, <2>1, <2>2, ScanUpdate DEF Detect
  <2> QED BY <1>1, <2>3, KeptTypes DEF Detect, TypeInv
<1>2. CASE Decide(s)
  <2> DEFINE t == scan[s].task
  <2>1. TroublesType'
    BY <1>2, TroubleTypes, KeptTypes DEF Decide, troubles
  <2>2. t \in Tasks
    BY <1>2, <1>t DEF Decide
  <2>3. EndedType' /\ RacedType'
    BY <1>2, <2>2, KeptTypes, ZenonT(60) DEF Decide, EndedType, TypeInv
  <2>4. ASSUME Recoverable(t), NEW r \in Recovered(ht1[t], scan[s].reason),
               scan' = [scan EXCEPT ![s].step = "put", ![s].record = r,
                          ![s].old = IF r.status = "PENDING" /\ ~r.waiting THEN ht1[t].worker ELSE None]
        PROVE  ScanType'
    <3> DEFINE old == IF r.status = "PENDING" /\ ~r.waiting THEN ht1[t].worker ELSE None
    <3>1. ht1[t] \in Records
      BY <2>2, <2>4, RecordTypes DEF Recoverable
    <3>2. r \in Records /\ old \in Workers \cup {None}
      BY <2>4, <3>1, RecordTypes
    <3> HIDE DEF old
    <3>3. [scan[s] EXCEPT !.step = "put", !.record = r, !.old = old] \in HeldScan
      BY <1>t, <2>2, <3>2 DEF HeldScan, Scan
    <3>4. scan' = [scan EXCEPT ![s] = [scan[s] EXCEPT !.step = "put", !.record = r, !.old = old]]
      BY <2>4 DEF TypeInv, ScanType, old
    <3> QED BY <3>3, <3>4, ScanUpdate
  <2>5. ScanType'
    BY <1>2, <1>n, <2>4, ScanUpdate DEF Decide
  <2> QED BY <1>2, <2>1, <2>3, <2>5, KeptTypes DEF Decide, TypeInv
<1>3. ASSUME NEW ok \in BOOLEAN, ClearWaiting(s, ok) PROVE TypeInv'
  <2>1. Put(scan[s].task, [scan[s].record EXCEPT !.waiting = FALSE]) \in Calls
    BY <1>3, <1>t, RecordTypes, CallMembers DEF ClearWaiting
  <2>2. [scan[s] EXCEPT !.step = "found", !.record = None] \in HeldScan
    BY <1>3, <1>t DEF ClearWaiting, HeldScan, Scan
  <2>3. scan' = [scan EXCEPT ![s] = [scan[s] EXCEPT !.step = "found", !.record = None]]
    BY <1>3 DEF ClearWaiting, TypeInv, ScanType
  <2> QED BY <1>3, <2>1, <2>2, <2>3, ScanUpdate, CallTypes, KeptTypes DEF ClearWaiting, TypeInv
<1>4. ASSUME NEW ok \in BOOLEAN, PutRecovered(s, ok) PROVE TypeInv'
  <2>1. Put(scan[s].task, scan[s].record) \in Calls
    BY <1>4, <1>t, CallMembers DEF PutRecovered
  <2>2. RacedType'
    BY <1>4, <1>t DEF PutRecovered, Touch, RacedType, TypeInv
  <2>3. /\ [scan[s] EXCEPT !.step = "append"] \in HeldScan
        /\ scan[s].old # None => [scan[s] EXCEPT !.step = "remove"] \in HeldScan
    BY <1>4, <1>t DEF PutRecovered, HeldScan, Scan
  <2>4. \E x \in HeldScan : scan' = [scan EXCEPT ![s] = x]
    BY <1>4, <1>n, <2>3 DEF PutRecovered, TypeInv, ScanType
  <2> QED BY <1>4, <2>1, <2>2, <2>4, ScanUpdate, CallTypes, KeptTypes DEF PutRecovered, TypeInv
<1>5. ASSUME NEW ok \in BOOLEAN, RemoveOld(s, ok) PROVE TypeInv'
  <2>1. RemoveFrom(scan[s].old, scan[s].task) \in Calls
    BY <1>5, <1>t, CallMembers DEF RemoveOld
  <2>2. [scan[s] EXCEPT !.step = "append"] \in HeldScan
    BY <1>5, <1>t DEF RemoveOld, HeldScan, Scan
  <2>3. scan' = [scan EXCEPT ![s] = [scan[s] EXCEPT !.step = "append"]]
    BY <1>5 DEF RemoveOld, TypeInv, ScanType
  <2> QED BY <1>5, <2>1, <2>2, <2>3, ScanUpdate, CallTypes, KeptTypes DEF RemoveOld, TypeInv
<1>6. ASSUME NEW ok \in BOOLEAN, AppendNew(s, ok) PROVE TypeInv'
  <2>1. AppendTo(scan[s].record.worker, scan[s].task) \in Calls
    BY <1>6, <1>t, CallMembers, RecordTypes DEF AppendNew
  <2> QED BY <1>6, <1>n, <2>1, ScanUpdate, CallTypes, KeptTypes DEF AppendNew, TypeInv
<1> QED BY <1>1, <1>2, <1>3, <1>4, <1>5, <1>6 DEF Recovering

(* _do_rebalance.                                                          *)
LEMMA MovingTypes ==
  ASSUME TypeInv, Moving
  PROVE  TypeInv'
<1>t. /\ mover \in Move
      /\ mover.step # "idle" => mover.task \in Tasks /\ mover.record \in Records
      /\ mover.step = "remove" => mover.old \in Workers
  BY DEF TypeInv, MoverType, HeldMove
<1>n. NoMove \in HeldMove
  BY DEF NoMove, HeldMove, Move
<1>1. ASSUME NEW t \in Tasks, NEW w \in Workers, Rebalance(t, w) PROVE TypeInv'
  <2>1. ht1[t] \in Records
    BY <1>1, RecordTypes DEF Rebalance, Pending
  <2>2. [ht1[t] EXCEPT !.worker = w] \in Records /\ ht1[t].worker \in Workers
    BY <2>1, RecordTypes
  <2>3. \A r \in Records, old \in Workers \cup {None} :
          [step |-> "put", task |-> t, record |-> r, old |-> old] \in HeldMove
    BY DEF HeldMove, Move
  <2>4. MoverType'
    BY <1>1, <2>2, <2>3 DEF Rebalance, MoverType
  <2> QED BY <1>1, <2>4, KeptTypes DEF Rebalance, TypeInv
<1>2. CASE MovePut
  <2>1. TablesType'
    BY <1>2, <1>t DEF MovePut, TablesType, TypeInv
  <2>2. RacedType'
    BY <1>2, <1>t DEF MovePut, RacedType, TypeInv
  <2>3. MoverType'
    BY <1>2, <1>t DEF MovePut, MoverType, HeldMove, Move
  <2> QED BY <1>2, <2>1, <2>2, <2>3, KeptTypes DEF MovePut, TypeInv
<1>3. ASSUME NEW ok \in BOOLEAN, MoveRemove(ok) PROVE TypeInv'
  <2>1. RemoveFrom(mover.old, mover.task) \in Calls
    BY <1>3, <1>t, CallMembers DEF MoveRemove
  <2>2. [mover EXCEPT !.step = "append"] \in HeldMove
    BY <1>3, <1>t DEF MoveRemove, HeldMove, Move
  <2>3. MoverType'
    BY <1>3, <1>n, <2>2 DEF MoveRemove, MoverType
  <2> QED BY <1>3, <2>1, <2>3, CallTypes, KeptTypes DEF MoveRemove, TypeInv
<1>4. ASSUME NEW ok \in BOOLEAN, MoveAppend(ok) PROVE TypeInv'
  <2>1. AppendTo(mover.record.worker, mover.task) \in Calls
    BY <1>4, <1>t, CallMembers, RecordTypes DEF MoveAppend
  <2>2. MoverType'
    BY <1>4, <1>n DEF MoveAppend, MoverType
  <2> QED BY <1>4, <2>1, <2>2, CallTypes, KeptTypes DEF MoveAppend, TypeInv
<1> QED BY <1>1, <1>2, <1>3, <1>4 DEF Moving

(* The operator's endpoints, and the start of the frontend.                *)
LEMMA CleaningTypes ==
  ASSUME TypeInv, Cleaning \/ Reboot
  PROVE  TypeInv'
<1>1. ASSUME NEW t \in Tasks, ClearCompleted(t) PROVE TypeInv'
  <2>1. RemoveFrom(ht1[t].worker, t) \in Calls
    BY <1>1, CallMembers, RecordTypes DEF ClearCompleted
  <2>2. TablesType'
    BY <1>1, <2>1, ApplyTypes DEF ClearCompleted, TablesType, TypeInv
  <2>3. JanitorType'
    BY <1>1 DEF ClearCompleted, JanitorType
  <2> QED BY <1>1, <2>2, <2>3, TroubleTypes, KeptTypes DEF ClearCompleted, TypeInv
<1>2. CASE ResetAll
  BY <1>2, TroubleTypes, KeptTypes DEF ResetAll, TypeInv, JanitorType
<1>3. ASSUME NEW k \in Tasks \cup Workers, DeleteKey(k) PROVE TypeInv'
  <2>1. TablesType'
    BY <1>3 DEF DeleteKey, TablesType, TypeInv
  <2> QED BY <1>3, <2>1, KeptTypes DEF DeleteKey, TypeInv, JanitorType
<1>4. CASE Reboot
  <2>1. RequestType'
    <3>1. \A r \in HeldRequest : [r EXCEPT !.step = "lost"] \in HeldRequest
      BY DEF HeldRequest, Request
    <3> QED BY <1>4, <3>1 DEF Reboot, RequestType, TypeInv
  <2>2. ExecType'
    BY <1>4, ExecTypes DEF Reboot, ExecType
  <2>3. RegistryType' /\ PostsType' /\ CleanupType' /\ JanitorType'
    BY <1>4 DEF Reboot, RegistryType, PostsType, CleanupType, JanitorType
  <2>4. ScanType' /\ MoverType'
    BY <1>4 DEF Reboot, ScanType, MoverType, NoScan, HeldScan, Scan, NoMove, HeldMove, Move
  <2> QED BY <1>4, <2>1, <2>2, <2>3, <2>4, TroubleTypes, KeptTypes DEF Reboot, TypeInv
<1> QED BY <1>1, <1>2, <1>3, <1>4 DEF Cleaning

(* Every step keeps the types.                                             *)
LEMMA TypeStep == TypeInv /\ [Next]_vars => TypeInv'
<1> SUFFICES ASSUME TypeInv, [Next]_vars PROVE TypeInv'
  OBVIOUS
<1>1. CASE UNCHANGED vars
  BY <1>1, KeptTypes DEF vars, TypeInv, tables, registry, runner, history, troubles
<1>2. CASE Next
  BY <1>2, CreatingTypes, PollingTypes, WorkerTypes, HandlerTypes, RecoveringTypes,
     MovingTypes, CleaningTypes DEF Next
<1> QED BY <1>1, <1>2

LEMMA TypeInit == Init => TypeInv
<1> SUFFICES ASSUME Init PROVE TypeInv
  OBVIOUS
<1>1. TablesType /\ RegistryType /\ RunnerType /\ PostsType /\ CleanupType /\ JanitorType
      /\ EndedType /\ RacedType
  BY TaskAssumption DEF Init, TablesType, RegistryType, RunnerType, PostsType, CleanupType,
     JanitorType, EndedType, RacedType
<1>2. TroublesType
  BY TaskAssumption DEF Init, TroublesType
<1>3. RequestType
  <2>1. NoRequest \in HeldRequest
    BY DEF NoRequest, HeldRequest, Request
  <2> QED BY <2>1 DEF Init, RequestType
<1>4. ExecType
  <2>1. Idle \in Execution
    BY DEF Idle, Execution, Outcomes
  <2> QED BY <2>1 DEF Init, ExecType
<1>5. ScanType /\ MoverType
  BY DEF Init, ScanType, MoverType, NoScan, HeldScan, Scan, NoMove, HeldMove, Move
<1> QED BY <1>1, <1>2, <1>3, <1>4, <1>5 DEF TypeInv

(* Every table, thread and history of TaskLifecycle keeps its type.        *)
THEOREM TaskTypeCorrect == Spec => []TypeOK
<1>1. Spec => []TypeInv
  BY TypeInit, TypeStep, PTL DEF Spec
<1> QED BY <1>1, TypeInvTypes, PTL

(***************************************************************************)
(* Every copy of a record is sound                                         *)
(***************************************************************************)
(* e holds a reason for status s of task t.                                *)
Justified(e, t, s) ==
  /\ s = "SUCCESS" => "SUCCESS" \in e[t]
  /\ s = "FAILURE" => "FAILURE" \in e[t] \/ "EXHAUSTED" \in e[t]

Sound(e, t, r) == r # None => r.attempts <= MaxAttempts /\ Justified(e, t, r.status)

(* Records are read, kept and written back later, so the invariant is      *)
(* about every copy: in the table, in a late call, in a report, in a       *)
(* recovery and in a move.  A report carries an outcome that happened.     *)
TableSound == \A t \in Tasks : Sound(ended, t, ht1[t])
LateSound == \A c \in late : c.op = "put" => Sound(ended, c.task, c.record)
ExecSound ==
  \A w \in Workers, t \in Tasks :
    exec[w][t].step \in {"report", "posted"} => exec[w][t].outcome \in ended[t]
PostsSound == \A p \in posts : Sound(ended, p.task, p.record) /\ p.outcome \in ended[p.task]
ScanSound ==
  \A s \in Scanners : scan[s].step # "idle" =>
    /\ Sound(ended, scan[s].task, scan[s].record)
    /\ scan[s].reason = "task_failure" => Justified(ended, scan[s].task, "FAILURE")
MoverSound == mover.step # "idle" => Sound(ended, mover.task, mover.record)

SoundInv == TableSound /\ LateSound /\ ExecSound /\ PostsSound /\ ScanSound /\ MoverSound

(* What a step may do to the table and to the history: one record, or one  *)
(* more outcome.                                                           *)
WriteStep == UNCHANGED ended /\ \E t, r : ht1' = [ht1 EXCEPT ![t] = r]
EndStep ==
  UNCHANGED ht1 /\ \E t \in Tasks, o \in Outcomes \cup {"EXHAUSTED"} :
                     ended' = [ended EXCEPT ![t] = @ \cup {o}]

LEMMA CallWrites ==
  ASSUME NEW c, NEW ok, Call(c, ok) \/ Apply(c)
  PROVE  UNCHANGED ht1 \/ \E t, r : ht1' = [ht1 EXCEPT ![t] = r]
  BY DEF Call, Apply

LEMMA StepShape ==
  ASSUME TypeInv, [Next]_vars
  PROVE  UNCHANGED <<ht1, ended>> \/ WriteStep \/ EndStep
<1>1. CASE UNCHANGED vars
  BY <1>1 DEF vars, tables, history
<1>2. ASSUME NEW q \in Requests, Creating(q) PROVE UNCHANGED <<ht1, ended>> \/ WriteStep
  BY <1>2, CallWrites DEF Creating, Check, WriteHT1, AppendHT2, Rollback, WriteStep, tables, history
<1>3. ASSUME NEW w \in Workers, Polling(w) PROVE UNCHANGED <<ht1, ended>> \/ EndStep
  <2>1. ASSUME NEW t \in Tasks, NEW o \in Outcomes, RunTask(w, t, o) PROVE EndStep
    BY <2>1 DEF RunTask, EndStep, tables
  <2> QED BY <1>3, <2>1 DEF Polling, Booted, FetchAssigned, Take, Report, ReportTimeout,
                            tables, history
<1>4. ASSUME NEW w \in Workers,
             Heartbeat(w) \/ Expire(w) \/ Boot(w) \/ \E killed \in BOOLEAN : Stop(w, killed)
      PROVE  UNCHANGED <<ht1, ended>>
  BY <1>4 DEF Heartbeat, Expire, Boot, Stop, tables, history
<1>5. ASSUME \/ \E p \in posts, ok \in BOOLEAN : Complete(p, ok)
             \/ \E c \in cleanup, ok \in BOOLEAN : Cleanup(c, ok)
             \/ \E c \in late : Deliver(c)
      PROVE  UNCHANGED <<ht1, ended>> \/ WriteStep
  BY <1>5, CallWrites DEF Complete, Cleanup, Deliver, WriteStep, history
<1>6. ASSUME NEW s \in Scanners, Recovering(s)
      PROVE  UNCHANGED <<ht1, ended>> \/ WriteStep \/ EndStep
  <2>1. CASE Decide(s)
    <3>1. scan[s].task \in Tasks
      BY <2>1 DEF Decide, TypeInv, ScanType, HeldScan
    <3> QED BY <2>1, <3>1 DEF Decide, EndStep, tables, history
  <2>2. ASSUME NEW ok \in BOOLEAN,
               ClearWaiting(s, ok) \/ PutRecovered(s, ok) \/ RemoveOld(s, ok) \/ AppendNew(s, ok)
        PROVE  UNCHANGED <<ht1, ended>> \/ WriteStep
    BY <2>2, CallWrites DEF ClearWaiting, PutRecovered, RemoveOld, AppendNew, WriteStep, history
  <2> QED BY <1>6, <2>1, <2>2 DEF Recovering, Detect, tables, history
<1>7. ASSUME Moving PROVE UNCHANGED <<ht1, ended>> \/ WriteStep
  BY <1>7, CallWrites DEF Moving, Rebalance, MovePut, MoveRemove, MoveAppend, WriteStep,
                          tables, history
<1>8. ASSUME Cleaning \/ Reboot PROVE UNCHANGED <<ht1, ended>> \/ WriteStep
  BY <1>8, CallWrites DEF Cleaning, ClearCompleted, ResetAll, DeleteKey, Reboot, WriteStep,
                          tables, history
<1> QED BY <1>1, <1>2, <1>3, <1>4, <1>5, <1>6, <1>7, <1>8 DEF Next

(* Outcomes are never forgotten, so what is justified stays so.            *)
LEMMA JustifiedStays ==
  ASSUME TypeInv, [Next]_vars
  PROVE  /\ \A t \in Tasks : ended[t] \subseteq ended'[t]
         /\ \A t \in Tasks : \A s : Justified(ended, t, s) => Justified(ended', t, s)
         /\ \A t \in Tasks : \A r : Sound(ended, t, r) => Sound(ended', t, r)
<1>1. \A t \in Tasks : ended[t] \subseteq ended'[t]
  <2>1. CASE UNCHANGED ended
    BY <2>1
  <2>2. CASE EndStep
    BY <2>2 DEF EndStep, TypeInv, EndedType
  <2> QED BY <2>1, <2>2, StepShape DEF WriteStep
<1>2. \A t \in Tasks : \A s : Justified(ended, t, s) => Justified(ended', t, s)
  BY <1>1 DEF Justified
<1> QED BY <1>1, <1>2 DEF Sound

(* The copies a step leaves alone stay sound.                              *)
LEMMA KeptSound ==
  ASSUME TypeInv, SoundInv, [Next]_vars
  PROVE  /\ UNCHANGED ht1 => TableSound'
         /\ UNCHANGED late => LateSound'
         /\ UNCHANGED exec => ExecSound'
         /\ UNCHANGED posts => PostsSound'
         /\ UNCHANGED scan => ScanSound'
         /\ UNCHANGED mover => MoverSound'
<1>1. UNCHANGED ht1 => TableSound'
  BY JustifiedStays DEF SoundInv, TableSound
<1>2. UNCHANGED late => LateSound'
  <2>1. \A c \in late : c.op = "put" => c.task \in Tasks
    BY DEF TypeInv, TablesType, Calls, Puts, Lists
  <2> QED BY <2>1, JustifiedStays DEF SoundInv, LateSound
<1>3. UNCHANGED exec => ExecSound'
  BY JustifiedStays DEF SoundInv, ExecSound
<1>4. UNCHANGED posts => PostsSound'
  <2>1. \A p \in posts : p.task \in Tasks
    BY DEF TypeInv, PostsType, Post
  <2> QED BY <2>1, JustifiedStays DEF SoundInv, PostsSound
<1>5. UNCHANGED scan => ScanSound'
  <2>1. \A s \in Scanners : scan[s].step # "idle" => scan[s].task \in Tasks
    BY DEF TypeInv, ScanType, HeldScan
  <2> QED BY <2>1, JustifiedStays DEF SoundInv, ScanSound
<1>6. UNCHANGED mover => MoverSound'
  <2>1. mover.step # "idle" => mover.task \in Tasks
    BY DEF TypeInv, MoverType, HeldMove
  <2> QED BY <2>1, JustifiedStays DEF SoundInv, MoverSound
<1> QED BY <1>1, <1>2, <1>3, <1>4, <1>5, <1>6

(* A call whose record is sound keeps the table and the late calls sound.  *)
LEMMA CallSound ==
  ASSUME TypeInv, SoundInv, [Next]_vars, NEW c,
         c.op = "put" => Sound(ended', c.task, c.record)
  PROVE  /\ Apply(c) => TableSound'
         /\ \A ok \in BOOLEAN : Call(c, ok) => TableSound' /\ LateSound'
<1>1. ASSUME Apply(c) PROVE TableSound'
  <2>1. CASE c.op = "put"
    <3>1. ht1' = [ht1 EXCEPT ![c.task] = c.record]
      BY <1>1, <2>1 DEF Apply
    <3>2. \A t \in Tasks : ht1'[t] = IF t = c.task THEN c.record ELSE ht1[t]
      BY <3>1 DEF TypeInv, TablesType
    <3> QED BY <2>1, <3>2, JustifiedStays DEF TableSound, SoundInv
  <2>2. CASE c.op # "put"
    BY <1>1, <2>2, KeptSound DEF Apply
  <2> QED BY <2>1, <2>2
<1>2. ASSUME NEW ok \in BOOLEAN, Call(c, ok) PROVE TableSound' /\ LateSound'
  <2>1. CASE ok
    BY <1>1, <1>2, <2>1, KeptSound DEF Call
  <2>2. CASE ~ok
    <3>1. UNCHANGED ht1 /\ late' \in {late, late \cup {c}}
      BY <1>2, <2>2 DEF Call
    <3>2. \A x \in late : x.op = "put" => Sound(ended', x.task, x.record)
      <4>1. \A x \in late : x.op = "put" => x.task \in Tasks
        BY DEF TypeInv, TablesType, Calls, Puts, Lists
      <4> QED BY <4>1, JustifiedStays DEF SoundInv, LateSound
    <3> QED BY <3>1, <3>2, KeptSound DEF LateSound
  <2> QED BY <2>1, <2>2
<1> QED BY <1>1, <1>2

(* Calls that write no record.                                             *)
LEMMA ListCallSound ==
  ASSUME TypeInv, SoundInv, [Next]_vars, NEW c, c.op # "put"
  PROVE  /\ Apply(c) => TableSound'
         /\ \A ok \in BOOLEAN : Call(c, ok) => TableSound' /\ LateSound'
  BY CallSound

LEMMA CallFields ==
  /\ \A t, r : Put(t, r).op = "put" /\ Put(t, r).task = t /\ Put(t, r).record = r
  /\ \A w, t : AppendTo(w, t).op # "put" /\ RemoveFrom(w, t).op # "put"
  BY DEF Put, AppendTo, RemoveFrom

LEMMA CreatingSound ==
  ASSUME TypeInv, SoundInv, [Next]_vars, NEW q \in Requests, Creating(q)
  PROVE  SoundInv'
<1>1. ASSUME NEW t \in Tasks, Check(q, t) PROVE SoundInv'
  BY <1>1, KeptSound DEF Check, SoundInv, tables
<1>2. ASSUME NEW ok \in BOOLEAN, WriteHT1(q, ok) PROVE SoundInv'
  <2> DEFINE c == Put(request[q].task, NewRecord(request[q].worker))
  <2>1. c.op = "put" => Sound(ended', c.task, c.record)
    BY CallFields, TaskAssumption DEF NewRecord, Sound, Justified
  <2>2. Call(c, ok)
    BY <1>2 DEF WriteHT1
  <2> HIDE DEF c
  <2>3. TableSound' /\ LateSound'
    BY <2>1, <2>2, CallSound
  <2> QED BY <1>2, <2>3, KeptSound DEF WriteHT1, SoundInv
<1>3. ASSUME NEW ok \in BOOLEAN, AppendHT2(q, ok) PROVE SoundInv'
  <2>1. TableSound' /\ LateSound'
    BY <1>3, ListCallSound, CallFields DEF AppendHT2
  <2> QED BY <1>3, <2>1, KeptSound DEF AppendHT2, SoundInv
<1>4. ASSUME NEW ok \in BOOLEAN, Rollback(q, ok) PROVE SoundInv'
  <2> DEFINE c == Put(request[q].task, None)
  <2>1. c.op = "put" => Sound(ended', c.task, c.record)
    BY CallFields DEF Sound
  <2>2. Call(c, ok)
    BY <1>4 DEF Rollback
  <2> HIDE DEF c
  <2>3. TableSound' /\ LateSound'
    BY <2>1, <2>2, CallSound
  <2> QED BY <1>4, <2>3, KeptSound DEF Rollback, SoundInv
<1> QED BY <1>1, <1>2, <1>3, <1>4 DEF Creating

(* Only executions that ended are reported.                                *)
LEMMA ExecKeepsSound ==
  ASSUME TypeInv, SoundInv, [Next]_vars, NEW w \in Workers, NEW t \in Tasks, NEW e,
         e.step \in {"report", "posted"} => e.outcome \in ended'[t],
         exec' = [exec EXCEPT ![w][t] = e]
  PROVE  ExecSound'
<1>1. \A v \in Workers, u \in Tasks :
        exec'[v][u] = IF v = w /\ u = t THEN e ELSE exec[v][u]
  BY DEF TypeInv, ExecType
<1> QED BY <1>1, JustifiedStays DEF ExecSound, SoundInv

LEMMA PollingSound ==
  ASSUME TypeInv, SoundInv, [Next]_vars, NEW w \in Workers, Polling(w)
  PROVE  SoundInv'
<1>r. ASSUME NEW t \in Tasks, exec[w][t].step \in {"report", "posted"}
      PROVE  LET e == Retried(exec[w][t])
             IN  e.step \in {"report", "posted"} => e.outcome \in ended'[t]
  <2>1. exec[w][t].outcome \in ended'[t] /\ exec[w][t] \in Execution
    BY <1>r, JustifiedStays, ExecTypes DEF SoundInv, ExecSound
  <2> QED BY <2>1 DEF Retried, Idle, Execution
<1>1. CASE Booted(w) \/ FetchAssigned(w)
  BY <1>1, KeptSound DEF Booted, FetchAssigned, SoundInv, tables
<1>3. ASSUME NEW t \in Tasks, Take(w, t) PROVE SoundInv'
  <2> DEFINE e == [exec[w][t] EXCEPT !.step = "running"]
  <2>1. e.step \notin {"report", "posted"}
    BY ExecTypes DEF Execution
  <2>2. exec' = [exec EXCEPT ![w][t] = e] \/ UNCHANGED exec
    BY <1>3 DEF Take
  <2> HIDE DEF e
  <2>3. ExecSound'
    BY <2>1, <2>2, ExecKeepsSound, KeptSound
  <2> QED BY <1>3, <2>3, KeptSound DEF Take, SoundInv, tables
<1>4. ASSUME NEW t \in Tasks, Report(w, t) PROVE SoundInv'
  <2>0. exec[w][t].step = "report" /\ exec[w][t].outcome \in ended'[t] /\ exec[w][t] \in Execution
    BY <1>4, JustifiedStays, ExecTypes DEF Report, SoundInv, ExecSound
  <2>1. PostsSound'
    <3>1. \A p \in posts : Sound(ended', p.task, p.record) /\ p.outcome \in ended'[p.task]
      <4>1. \A p \in posts : p.task \in Tasks
        BY DEF TypeInv, PostsType, Post
      <4> QED BY <4>1, JustifiedStays DEF SoundInv, PostsSound
    <3>2. Sound(ended', t, ht1[t])
      BY JustifiedStays DEF SoundInv, TableSound
    <3> QED BY <1>4, <2>0, <3>1, <3>2 DEF Report, PostsSound
  <2>2. ExecSound'
    <3> DEFINE e == [exec[w][t] EXCEPT !.step = "posted"]
               f == Retried(exec[w][t])
    <3>1. /\ e.step \in {"report", "posted"} => e.outcome \in ended'[t]
          /\ f.step \in {"report", "posted"} => f.outcome \in ended'[t]
      BY <1>r, <2>0 DEF Execution
    <3>2. exec' = [exec EXCEPT ![w][t] = e] \/ exec' = [exec EXCEPT ![w][t] = f]
      BY <1>4 DEF Report
    <3> HIDE DEF e, f
    <3> QED BY <3>1, <3>2, ExecKeepsSound
  <2> QED BY <1>4, <2>1, <2>2, KeptSound DEF Report, SoundInv, tables
<1>5. ASSUME NEW t \in Tasks, ReportTimeout(w, t) PROVE SoundInv'
  <2> DEFINE f == Retried(exec[w][t])
  <2>1. f.step \in {"report", "posted"} => f.outcome \in ended'[t]
    BY <1>r, <1>5 DEF ReportTimeout
  <2>2. exec' = [exec EXCEPT ![w][t] = f]
    BY <1>5 DEF ReportTimeout
  <2> HIDE DEF f
  <2>3. ExecSound'
    BY <2>1, <2>2, ExecKeepsSound
  <2> QED BY <1>5, <2>3, KeptSound DEF ReportTimeout, SoundInv, tables
<1>6. ASSUME NEW t \in Tasks, NEW o \in Outcomes, RunTask(w, t, o) PROVE SoundInv'
  <2> DEFINE e == [step |-> "report", outcome |-> o, tries |-> 0]
  <2>1. o \in ended'[t]
    BY <1>6 DEF RunTask, TypeInv, EndedType
  <2>2. exec' = [exec EXCEPT ![w][t] = e] /\ e.outcome \in ended'[t]
    BY <1>6, <2>1 DEF RunTask
  <2> HIDE DEF e
  <2>3. ExecSound'
    BY <2>2, ExecKeepsSound
  <2> QED BY <1>6, <2>3, KeptSound DEF RunTask, SoundInv, tables
<1> QED BY <1>1, <1>3, <1>4, <1>5, <1>6 DEF Polling

LEMMA WorkerSound ==
  ASSUME TypeInv, SoundInv, [Next]_vars, NEW w \in Workers,
         Heartbeat(w) \/ Expire(w) \/ Boot(w) \/ \E killed \in BOOLEAN : Stop(w, killed)
  PROVE  SoundInv'
<1>1. CASE Heartbeat(w) \/ Expire(w) \/ Boot(w)
  BY <1>1, KeptSound DEF Heartbeat, Expire, Boot, SoundInv, tables
<1>2. ASSUME NEW killed \in BOOLEAN, Stop(w, killed) PROVE SoundInv'
  <2>1. PostsSound'
    <3>1. \A p \in posts : p \in Post /\ p.task \in Tasks
      BY DEF TypeInv, PostsType, Post
    <3>2. \A p \in Post : LET x == [p EXCEPT !.tries = MaxRetries + 1]
                          IN  x.task = p.task /\ x.record = p.record /\ x.outcome = p.outcome
      BY DEF Post
    <3>3. \A p \in posts : Sound(ended', p.task, p.record) /\ p.outcome \in ended'[p.task]
      BY <3>1, JustifiedStays DEF SoundInv, PostsSound
    <3>4. \A x \in posts' : \E p \in posts :
            x.task = p.task /\ x.record = p.record /\ x.outcome = p.outcome
      <4>1. ASSUME NEW x \in posts'
            PROVE  \E p \in posts : x = p \/ x = [p EXCEPT !.tries = MaxRetries + 1]
        BY <1>2 DEF Stop, Abandoned
      <4>2. ASSUME NEW x \in posts'
            PROVE  \E p \in posts :
                     x.task = p.task /\ x.record = p.record /\ x.outcome = p.outcome
        <5>1. PICK p \in posts : x = p \/ x = [p EXCEPT !.tries = MaxRetries + 1]
          BY <4>1
        <5>2. x.task = p.task /\ x.record = p.record /\ x.outcome = p.outcome
          BY <3>1, <3>2, <5>1
        <5> QED BY <5>2
      <4> QED BY <4>2
    <3> QED BY <3>3, <3>4 DEF PostsSound
  <2>2. ExecSound'
    <3>1. \A v \in Workers, t \in Tasks : exec'[v][t] = IF v = w THEN Idle ELSE exec[v][t]
      BY <1>2 DEF Stop, TypeInv, ExecType
    <3>2. Idle.step = "idle"
      BY DEF Idle
    <3> QED BY <3>1, <3>2, JustifiedStays DEF ExecSound, SoundInv
  <2> QED BY <1>2, <2>1, <2>2, KeptSound DEF Stop, SoundInv, tables
<1> QED BY <1>1, <1>2

LEMMA HandlerSound ==
  ASSUME TypeInv, SoundInv, [Next]_vars
  PROVE  /\ \A p \in posts, ok \in BOOLEAN : Complete(p, ok) => SoundInv'
         /\ \A c \in cleanup, ok \in BOOLEAN : Cleanup(c, ok) => SoundInv'
         /\ \A c \in late : Deliver(c) => SoundInv'
<1>1. ASSUME NEW p \in posts, NEW ok \in BOOLEAN, Complete(p, ok) PROVE SoundInv'
  <2>1. /\ p.worker \in Workers /\ p.task \in Tasks /\ p.record \in Records
        /\ p.outcome \in {"SUCCESS", "FAILURE"}
    BY DEF TypeInv, PostsType, Post, Outcomes
  <2> DEFINE r == [p.record EXCEPT !.status = p.outcome]
             c == Put(p.task, r)
  <2>2. c.op = "put" => Sound(ended', c.task, c.record)
    <3>1. p.outcome \in ended'[p.task] /\ p.record.attempts <= MaxAttempts
      BY <2>1, JustifiedStays, TaskAssumption DEF SoundInv, PostsSound, Sound
    <3>2. r.status = p.outcome /\ r.attempts = p.record.attempts
      BY <2>1 DEF Records
    <3>3. Sound(ended', p.task, r)
      BY <2>1, <3>1, <3>2 DEF Sound, Justified
    <3> QED BY <3>3, CallFields
  <2>3. Call(c, ok)
    BY <1>1 DEF Complete
  <2> HIDE DEF c
  <2>4. TableSound' /\ LateSound'
    BY <2>2, <2>3, CallSound
  <2>5. PostsSound'
    <3>1. \A x \in posts : x.task \in Tasks
      BY DEF TypeInv, PostsType, Post
    <3> QED BY <1>1, <3>1, JustifiedStays DEF Complete, SoundInv, PostsSound
  <2>6. ExecSound'
    <3> DEFINE e == exec[p.worker][p.task]
               f == IF ok THEN Idle ELSE Retried(e)
    <3>1. e \in Execution
      BY <2>1, ExecTypes
    <3>2. Awaited(p) => e.outcome \in ended'[p.task]
      BY <2>1, JustifiedStays DEF Awaited, SoundInv, ExecSound
    <3>3. Awaited(p) => (f.step \in {"report", "posted"} => f.outcome \in ended'[p.task])
      BY <3>1, <3>2 DEF Retried, Idle, Execution
    <3>4. UNCHANGED exec \/ (Awaited(p) /\ exec' = [exec EXCEPT ![p.worker][p.task] = f])
      BY <1>1 DEF Complete
    <3> HIDE DEF f
    <3> QED BY <2>1, <3>3, <3>4, ExecKeepsSound, KeptSound
  <2> QED BY <1>1, <2>4, <2>5, <2>6, KeptSound DEF Complete, SoundInv
<1>2. ASSUME NEW c \in cleanup, NEW ok \in BOOLEAN, Cleanup(c, ok) PROVE SoundInv'
  <2>1. c.op # "put"
    BY DEF TypeInv, CleanupType, Lists
  <2>2. TableSound' /\ LateSound'
    BY <1>2, <2>1, ListCallSound DEF Cleanup
  <2> QED BY <1>2, <2>2, KeptSound DEF Cleanup, SoundInv
<1>3. ASSUME NEW c \in late, Deliver(c) PROVE SoundInv'
  <2>1. \A x \in late : x.op = "put" => Sound(ended', x.task, x.record)
    <3>1. \A x \in late : x.op = "put" => x.task \in Tasks
      BY DEF TypeInv, TablesType, Calls, Puts, Lists
    <3> QED BY <3>1, JustifiedStays DEF SoundInv, LateSound
  <2>2. TableSound'
    BY <1>3, <2>1, CallSound DEF Deliver
  <2>3. LateSound'
    BY <1>3, <2>1 DEF Deliver, LateSound
  <2> QED BY <1>3, <2>2, <2>3, KeptSound DEF Deliver, SoundInv
<1> QED BY <1>1, <1>2, <1>3

(* One recovery's copy is replaced.                                        *)
LEMMA ScanKeepsSound ==
  ASSUME TypeInv, SoundInv, [Next]_vars, NEW s \in Scanners, NEW x,
         x.step # "idle" =>
           /\ Sound(ended', x.task, x.record)
           /\ x.reason = "task_failure" => Justified(ended', x.task, "FAILURE"),
         scan' = [scan EXCEPT ![s] = x]
  PROVE  ScanSound'
<1>1. \A v \in Scanners : scan'[v] = IF v = s THEN x ELSE scan[v]
  BY DEF TypeInv, ScanType
<1>2. \A v \in Scanners : scan[v].step # "idle" => scan[v].task \in Tasks
  BY DEF TypeInv, ScanType, HeldScan
<1>3. \A v \in Scanners : scan[v].step # "idle" =>
        /\ Sound(ended', scan[v].task, scan[v].record)
        /\ scan[v].reason = "task_failure" => Justified(ended', scan[v].task, "FAILURE")
  BY <1>2, JustifiedStays DEF ScanSound, SoundInv
<1> QED BY <1>1, <1>3 DEF ScanSound

(* What _execute makes of a sound record is sound: the count is increased  *)
(* below the budget only, and a FAILURE is justified by the one found or   *)
(* by the budget.                                                          *)
LEMMA RecoveredSound ==
  ASSUME NEW fresh \in Records, NEW reason, NEW r \in Recovered(fresh, reason), NEW t, NEW e,
         Sound(e, t, fresh), reason = "task_failure" => Justified(e, t, "FAILURE"),
         Exhausted(fresh) => "EXHAUSTED" \in e[t]
  PROVE  Sound(e, t, r)
<1>0. /\ fresh.attempts \in Nat /\ fresh.attempts <= MaxAttempts /\ MaxAttempts \in Nat
      /\ Justified(e, t, fresh.status)
  BY TaskAssumption DEF Records, Sound
<1>1. CASE GiveUp(fresh, reason)
  <2>1. r = [fresh EXCEPT !.status = "FAILURE", !.givenUp = TRUE]
    BY <1>1 DEF Recovered
  <2>2. r.status = "FAILURE" /\ r.attempts = fresh.attempts
    BY <2>1 DEF Records
  <2> QED BY <1>0, <1>1, <2>2 DEF Sound, Justified, GiveUp
<1>2. CASE ~GiveUp(fresh, reason) /\ live = {}
  <2>1. r = [fresh EXCEPT !.waiting = TRUE]
    BY <1>2 DEF Recovered
  <2>2. r.status = fresh.status /\ r.attempts = fresh.attempts
    BY <2>1 DEF Records
  <2> QED BY <1>0, <2>2 DEF Sound
<1>3. CASE ~GiveUp(fresh, reason) /\ live # {}
  <2>1. PICK w : r = [fresh EXCEPT !.attempts = @ + 1, !.worker = w, !.status = "PENDING",
                                   !.waiting = FALSE]
    BY <1>3 DEF Recovered
  <2>2. r.status = "PENDING" /\ r.attempts = fresh.attempts + 1
    BY <2>1 DEF Records
  <2>3. fresh.attempts + 1 <= MaxAttempts
    BY <1>0, <1>3 DEF GiveUp, Exhausted
  <2> QED BY <2>2, <2>3 DEF Sound, Justified
<1> QED BY <1>1, <1>2, <1>3

LEMMA RecoveringSound ==
  ASSUME TypeInv, SoundInv, [Next]_vars, NEW s \in Scanners, Recovering(s)
  PROVE  SoundInv'
<1>t. /\ scan[s] \in Scan
      /\ scan[s].step # "idle" =>
           /\ scan[s].task \in Tasks /\ Sound(ended', scan[s].task, scan[s].record)
           /\ scan[s].reason = "task_failure" => Justified(ended', scan[s].task, "FAILURE")
      /\ scan[s].step \in {"clear", "put", "remove", "append"} => scan[s].record \in Records
  <2>1. /\ scan[s] \in Scan
        /\ scan[s].step # "idle" => scan[s].task \in Tasks
        /\ scan[s].step \in {"clear", "put", "remove", "append"} => scan[s].record \in Records
    BY DEF TypeInv, ScanType, HeldScan
  <2> QED BY <2>1, JustifiedStays DEF SoundInv, ScanSound
<1>n. NoScan.step = "idle"
  BY DEF NoScan
<1>1. ASSUME NEW t \in Tasks, Detect(s, t) PROVE SoundInv'
  <2>1. Sound(ended', t, ht1[t]) /\ Sound(ended', t, None)
    BY JustifiedStays DEF SoundInv, TableSound, Sound
  <2> DEFINE x == [NoScan EXCEPT !.step = "found", !.task = t]
             y == [NoScan EXCEPT !.step = "found", !.task = t, !.reason = "task_failure"]
             z == [NoScan EXCEPT !.step = "clear", !.task = t, !.record = ht1[t]]
  <2>2. /\ x.task = t /\ x.record = None /\ x.reason = "worker_crash"
        /\ y.task = t /\ y.record = None
        /\ z.task = t /\ z.record = ht1[t] /\ z.reason = "worker_crash"
    BY DEF NoScan
  <2>3. Failed(t) => Justified(ended', t, "FAILURE")
    BY <2>1 DEF Failed, Sound
  <2>4. \/ scan' = [scan EXCEPT ![s] = x]
        \/ Failed(t) /\ scan' = [scan EXCEPT ![s] = y]
        \/ scan' = [scan EXCEPT ![s] = z]
    BY <1>1 DEF Detect
  <2> HIDE DEF x, y, z
  <2>5. ScanSound'
    <3>1. CASE scan' = [scan EXCEPT ![s] = x]
      BY <2>1, <2>2, <3>1, ScanKeepsSound
    <3>2. CASE Failed(t) /\ scan' = [scan EXCEPT ![s] = y]
      BY <2>1, <2>2, <2>3, <3>2, ScanKeepsSound
    <3>3. CASE scan' = [scan EXCEPT ![s] = z]
      BY <2>1, <2>2, <3>3, ScanKeepsSound
    <3> QED BY <2>4, <3>1, <3>2, <3>3
  <2> QED BY <1>1, <2>5, KeptSound DEF Detect, SoundInv, tables
<1>2. CASE Decide(s)
  <2> DEFINE t == scan[s].task
  <2>1. t \in Tasks /\ scan[s].step # "idle"
    BY <1>2, <1>t DEF Decide
  <2>2. ASSUME Recoverable(t), NEW r \in Recovered(ht1[t], scan[s].reason), NEW old,
               scan' = [scan EXCEPT ![s].step = "put", ![s].record = r, ![s].old = old],
               ended' = IF Exhausted(ht1[t])
                        THEN [ended EXCEPT ![t] = @ \cup {"EXHAUSTED"}] ELSE ended
        PROVE  ScanSound'
    <3>1. ht1[t] \in Records
      BY <2>1, <2>2, RecordTypes DEF Recoverable
    <3>2. Exhausted(ht1[t]) => "EXHAUSTED" \in ended'[t]
      BY <2>1, <2>2 DEF TypeInv, EndedType
    <3>3. Sound(ended', t, ht1[t])
      BY <2>1, JustifiedStays DEF SoundInv, TableSound
    <3>4. Sound(ended', t, r)
      <4>1. scan[s].reason = "task_failure" => Justified(ended', t, "FAILURE")
        BY <1>t, <2>1
      <4>2. r \in Recovered(ht1[t], scan[s].reason)
        BY <2>2
      <4> HIDE DEF t
      <4> QED BY <3>1, <3>2, <3>3, <4>1, <4>2, RecoveredSound
    <3> DEFINE x == [scan[s] EXCEPT !.step = "put", !.record = r, !.old = old]
    <3>5. x.task = t /\ x.record = r /\ x.reason = scan[s].reason
      BY <1>t DEF Scan
    <3>6. scan' = [scan EXCEPT ![s] = x]
      BY <2>2 DEF TypeInv, ScanType
    <3> HIDE DEF x
    <3> QED BY <1>t, <2>1, <3>4, <3>5, <3>6, ScanKeepsSound
  <2>3. ScanSound'
    <3>1. CASE scan' = [scan EXCEPT ![s] = NoScan]
      BY <1>n, <3>1, ScanKeepsSound
    <3> QED BY <1>2, <2>2, <3>1 DEF Decide
  <2> QED BY <1>2, <2>3, KeptSound DEF Decide, SoundInv, tables
<1>3. ASSUME NEW ok \in BOOLEAN, ClearWaiting(s, ok) PROVE SoundInv'
  <2> DEFINE r == [scan[s].record EXCEPT !.waiting = FALSE]
             c == Put(scan[s].task, r)
  <2>0. scan[s].step = "clear" /\ Call(c, ok)
    BY <1>3 DEF ClearWaiting
  <2>1. Sound(ended', scan[s].task, r)
    <3>1. scan[s].record \in Records /\ scan[s].record # None
      BY <1>t, <2>0, TaskAssumption
    <3>2. r.status = scan[s].record.status /\ r.attempts = scan[s].record.attempts
      BY <3>1 DEF Records
    <3> QED BY <1>t, <2>0, <3>1, <3>2 DEF Sound
  <2>2. c.op = "put" => Sound(ended', c.task, c.record)
    BY <2>1, CallFields
  <2> HIDE DEF c
  <2>3. TableSound' /\ LateSound'
    BY <2>0, <2>2, CallSound
  <2> DEFINE x == [scan[s] EXCEPT !.step = "found", !.record = None]
  <2>4. x.task = scan[s].task /\ x.record = None /\ x.reason = scan[s].reason
    BY <1>t DEF Scan
  <2>5. scan' = [scan EXCEPT ![s] = x]
    BY <1>3 DEF ClearWaiting, TypeInv, ScanType
  <2> HIDE DEF x
  <2>6. Sound(ended', scan[s].task, None)
    BY DEF Sound
  <2>7. ScanSound'
    BY <1>t, <2>0, <2>4, <2>5, <2>6, ScanKeepsSound
  <2> QED BY <1>3, <2>3, <2>7, KeptSound DEF ClearWaiting, SoundInv
<1>4. ASSUME NEW step \in {"remove", "append"}, scan[s].step # "idle",
             scan' = [scan EXCEPT ![s].step = step]
      PROVE  ScanSound'
  <2> DEFINE x == [scan[s] EXCEPT !.step = step]
  <2>1. x.task = scan[s].task /\ x.record = scan[s].record /\ x.reason = scan[s].reason
    BY <1>t DEF Scan
  <2>2. scan' = [scan EXCEPT ![s] = x]
    BY <1>4 DEF TypeInv, ScanType
  <2> HIDE DEF x
  <2> QED BY <1>4, <1>t, <2>1, <2>2, ScanKeepsSound
<1>5. ASSUME scan' = [scan EXCEPT ![s] = NoScan] PROVE ScanSound'
  BY <1>5, <1>n, ScanKeepsSound
<1>6. ASSUME NEW ok \in BOOLEAN, PutRecovered(s, ok) PROVE SoundInv'
  <2> DEFINE c == Put(scan[s].task, scan[s].record)
  <2>0. scan[s].step = "put" /\ Call(c, ok)
    BY <1>6 DEF PutRecovered
  <2>1. c.op = "put" => Sound(ended', c.task, c.record)
    BY <1>t, <2>0, CallFields
  <2> HIDE DEF c
  <2>2. TableSound' /\ LateSound'
    BY <2>0, <2>1, CallSound
  <2>3. ScanSound'
    BY <1>4, <1>5, <1>6, <2>0 DEF PutRecovered
  <2> QED BY <1>6, <2>2, <2>3, KeptSound DEF PutRecovered, SoundInv
<1>7. ASSUME NEW ok \in BOOLEAN, RemoveOld(s, ok) PROVE SoundInv'
  <2>1. TableSound' /\ LateSound'
    BY <1>7, ListCallSound, CallFields DEF RemoveOld
  <2>2. ScanSound'
    BY <1>4, <1>7 DEF RemoveOld
  <2> QED BY <1>7, <2>1, <2>2, KeptSound DEF RemoveOld, SoundInv
<1>8. ASSUME NEW ok \in BOOLEAN, AppendNew(s, ok) PROVE SoundInv'
  <2>1. TableSound' /\ LateSound'
    BY <1>8, ListCallSound, CallFields DEF AppendNew
  <2>2. ScanSound'
    BY <1>5, <1>8 DEF AppendNew
  <2> QED BY <1>8, <2>1, <2>2, KeptSound DEF AppendNew, SoundInv
<1> QED BY <1>1, <1>2, <1>3, <1>6, <1>7, <1>8 DEF Recovering

LEMMA MovingSound ==
  ASSUME TypeInv, SoundInv, [Next]_vars, Moving
  PROVE  SoundInv'
<1>t. /\ mover \in Move
      /\ mover.step # "idle" => mover.task \in Tasks /\ Sound(ended', mover.task, mover.record)
  <2>1. mover \in Move /\ (mover.step # "idle" => mover.task \in Tasks)
    BY DEF TypeInv, MoverType, HeldMove
  <2> QED BY <2>1, JustifiedStays DEF SoundInv, MoverSound
<1>n. NoMove.step = "idle"
  BY DEF NoMove
<1>1. ASSUME NEW t \in Tasks, NEW w \in Workers, Rebalance(t, w) PROVE SoundInv'
  <2> DEFINE r == [ht1[t] EXCEPT !.worker = w]
  <2>1. ht1[t] \in Records /\ ht1[t] # None
    BY <1>1, RecordTypes DEF Rebalance, Pending
  <2>2. r.status = ht1[t].status /\ r.attempts = ht1[t].attempts
    BY <2>1 DEF Records
  <2>3. Sound(ended', t, ht1[t])
    BY JustifiedStays DEF SoundInv, TableSound
  <2>4. Sound(ended', t, r)
    BY <2>1, <2>2, <2>3 DEF Sound
  <2>5. mover'.task = t /\ mover'.record = r
    BY <1>1 DEF Rebalance
  <2> HIDE DEF r
  <2>6. MoverSound'
    BY <2>4, <2>5 DEF MoverSound
  <2> QED BY <1>1, <2>6, KeptSound DEF Rebalance, SoundInv, tables
<1>2. CASE MovePut
  <2>1. \A t \in Tasks : ht1'[t] = IF t = mover.task THEN mover.record ELSE ht1[t]
    BY <1>2 DEF MovePut, TypeInv, TablesType
  <2>2. TableSound'
    BY <1>2, <1>t, <2>1, JustifiedStays DEF MovePut, SoundInv, TableSound
  <2>3. mover'.task = mover.task /\ mover'.record = mover.record
    BY <1>2, <1>t DEF MovePut, Move
  <2>4. MoverSound'
    BY <1>2, <1>t, <2>3 DEF MovePut, MoverSound
  <2> QED BY <1>2, <2>2, <2>4, KeptSound DEF MovePut, SoundInv
<1>3. ASSUME NEW ok \in BOOLEAN, MoveRemove(ok) PROVE SoundInv'
  <2>1. TableSound' /\ LateSound'
    BY <1>3, ListCallSound, CallFields DEF MoveRemove
  <2>2. [mover EXCEPT !.step = "append"].task = mover.task
        /\ [mover EXCEPT !.step = "append"].record = mover.record
    BY <1>t DEF Move
  <2>3. MoverSound'
    BY <1>3, <1>t, <1>n, <2>2 DEF MoveRemove, MoverSound
  <2> QED BY <1>3, <2>1, <2>3, KeptSound DEF MoveRemove, SoundInv
<1>4. ASSUME NEW ok \in BOOLEAN, MoveAppend(ok) PROVE SoundInv'
  <2>1. TableSound' /\ LateSound'
    BY <1>4, ListCallSound, CallFields DEF MoveAppend
  <2>2. MoverSound'
    BY <1>4, <1>n DEF MoveAppend, MoverSound
  <2> QED BY <1>4, <2>1, <2>2, KeptSound DEF MoveAppend, SoundInv
<1> QED BY <1>1, <1>2, <1>3, <1>4 DEF Moving

LEMMA CleaningSound ==
  ASSUME TypeInv, SoundInv, [Next]_vars, Cleaning \/ Reboot
  PROVE  SoundInv'
<1>1. ASSUME NEW t \in Tasks, ClearCompleted(t) PROVE SoundInv'
  <2>1. TableSound'
    BY <1>1, ListCallSound, CallFields, KeptSound DEF ClearCompleted
  <2> QED BY <1>1, <2>1, KeptSound DEF ClearCompleted, SoundInv
<1>2. CASE ResetAll
  BY <1>2, KeptSound DEF ResetAll, SoundInv, tables
<1>3. ASSUME NEW k \in Tasks \cup Workers, DeleteKey(k) PROVE SoundInv'
  <2>1. \A t \in Tasks : ht1'[t] \in {None, ht1[t]}
    BY <1>3 DEF DeleteKey, TypeInv, TablesType
  <2>2. TableSound'
    BY <2>1, JustifiedStays DEF SoundInv, TableSound, Sound
  <2> QED BY <1>3, <2>2, KeptSound DEF DeleteKey, SoundInv
<1>4. CASE Reboot
  <2>1. ExecSound'
    <3> SUFFICES ASSUME NEW w \in Workers, NEW t \in Tasks,
                        exec'[w][t].step \in {"report", "posted"}
                 PROVE  exec'[w][t].outcome \in ended'[t]
      BY DEF ExecSound
    <3>1. exec'[w][t] = IF exec[w][t].step = "posted" THEN Retried(exec[w][t]) ELSE exec[w][t]
      BY <1>4 DEF Reboot
    <3>2. exec[w][t] \in Execution
      BY ExecTypes
    <3>3. exec[w][t].step \in {"report", "posted"} /\ exec'[w][t].outcome = exec[w][t].outcome
      BY <3>1, <3>2 DEF Retried, Idle, Execution
    <3> QED BY <3>3, JustifiedStays DEF SoundInv, ExecSound
  <2>2. PostsSound'
    BY <1>4 DEF Reboot, PostsSound
  <2>3. ScanSound' /\ MoverSound'
    BY <1>4 DEF Reboot, ScanSound, MoverSound, NoScan, NoMove
  <2> QED BY <1>4, <2>1, <2>2, <2>3, KeptSound DEF Reboot, SoundInv, tables
<1> QED BY <1>1, <1>2, <1>3, <1>4 DEF Cleaning

(* Every step keeps every copy sound.                                      *)
LEMMA SoundStep == TypeInv /\ SoundInv /\ [Next]_vars => SoundInv'
<1> SUFFICES ASSUME TypeInv, SoundInv, [Next]_vars PROVE SoundInv'
  OBVIOUS
<1>1. CASE UNCHANGED vars
  BY <1>1, KeptSound DEF vars, tables, SoundInv
<1>2. CASE Next
  BY <1>2, CreatingSound, PollingSound, WorkerSound, HandlerSound, RecoveringSound,
     MovingSound, CleaningSound DEF Next
<1> QED BY <1>1, <1>2

LEMMA SoundInit == Init => SoundInv
  BY DEF Init, SoundInv, TableSound, LateSound, ExecSound, PostsSound, ScanSound, MoverSound,
         Sound, Idle, NoScan, NoMove

LEMMA AlwaysSound == Spec => [](TypeInv /\ SoundInv)
  BY TypeInit, TypeStep, SoundInit, SoundStep, PTL DEF Spec

(* No record, however stale the copies that are written back, counts more  *)
(* attempts than max_attempts (choose_recovery_path).                      *)
THEOREM AttemptBudget == Spec => []AttemptsWithinBudget
<1>1. TypeInv /\ SoundInv => AttemptsWithinBudget
  BY DEF SoundInv, TableSound, Sound, AttemptsWithinBudget
<1> QED BY <1>1, AlwaysSound, PTL

(***************************************************************************)
(* The tables implement TaskBoard                                          *)
(***************************************************************************)
LEMMA BoardInit == Init => Board!Init
  BY DEF Init, Board!Init, Status

(* A step that writes one sound record publishes or resets one status, and *)
(* one more outcome is an End.                                             *)
LEMMA BoardStep ==
  TypeInv /\ SoundInv' /\ TypeInv' /\ [Next]_vars
    => [Board!Next]_<<[t \in Tasks |-> Status(t)], ended>>
<1> SUFFICES ASSUME TypeInv, SoundInv', TypeInv', [Next]_vars
             PROVE  \/ Board!Next
                    \/ UNCHANGED <<[t \in Tasks |-> Status(t)], ended>>
  OBVIOUS
<1>1. CASE UNCHANGED <<ht1, ended>>
  BY <1>1 DEF Status
<1>2. CASE EndStep
  <2>1. UNCHANGED [t \in Tasks |-> Status(t)]
    BY <1>2 DEF EndStep, Status
  <2>2. PICK t \in Tasks, o \in {"SUCCESS", "FAILURE", "EXHAUSTED"} :
          ended' = [ended EXCEPT ![t] = @ \cup {o}]
    BY <1>2 DEF EndStep, Outcomes
  <2> QED BY <2>1, <2>2 DEF Board!Next, Board!End
<1>3. CASE WriteStep
  <2>1. PICK t, r : ht1' = [ht1 EXCEPT ![t] = r]
    BY <1>3 DEF WriteStep
  <2>2. CASE t \notin Tasks
    <3>1. ht1' = ht1
      BY <2>1, <2>2 DEF TypeInv, TablesType
    <3> QED BY <1>3, <3>1 DEF WriteStep, Status
  <2>3. CASE t \in Tasks
    <3> DEFINE st == Status(t)'
    <3>1. ([u \in Tasks |-> Status(u)])' = [[u \in Tasks |-> Status(u)] EXCEPT ![t] = st]
      BY <2>1, <2>3 DEF Status, TypeInv, TablesType
    <3>2. ht1'[t] \in Records \cup {None} /\ Sound(ended', t, ht1'[t])
      BY <2>3 DEF TypeInv, TablesType, SoundInv, TableSound
    <3>3. UNCHANGED ended
      BY <1>3 DEF WriteStep
    <3>4. st \in {"NONE", "PENDING", "SUCCESS", "FAILURE"}
      BY <3>2 DEF Status, Records
    <3>5. st \in {"SUCCESS", "FAILURE"} => Board!Grounds(st) \cap ended[t] # {}
      BY <3>2, <3>3 DEF Status, Sound, Justified, Board!Grounds
    <3> HIDE DEF st
    <3> QED BY <2>3, <3>1, <3>3, <3>4, <3>5 DEF Board!Next, Board!Publish, Board!Reset
  <2> QED BY <2>2, <2>3
<1> QED BY <1>1, <1>2, <1>3, StepShape

(* Whatever a client reads, something really led to it: the tables with    *)
(* all their threads implement TaskBoard.                                  *)
THEOREM TablesImplementBoard == Spec => ImplementsBoard
<1>1. Spec => [](TypeInv /\ SoundInv)
  BY AlwaysSound
<1>2. Spec => Init /\ [][Next]_vars
  BY PTL DEF Spec
<1>3. ImplementsBoard <=> Board!Init /\ [][Board!Next]_<<[t \in Tasks |-> Status(t)], ended>>
  BY PTL DEF ImplementsBoard, Board!Spec
<1> QED BY <1>1, <1>2, <1>3, BoardInit, BoardStep, PTL

(***************************************************************************)
(* Accepted tasks keep their record                                        *)
(***************************************************************************)
(* At most one call failed and no operator cleared a table.                *)
Gentle == used["fault"] <= 1 /\ used["clear"] = 0

(* Two handlers that write the same task at the same time are noticed, and *)
(* a rollback follows a call that failed.                                  *)
OneWriter ==
  \A t \in Tasks : \A q, p \in Writing(t) : q # p => t \in raced
RollbackFollowsFault ==
  \A q \in Requests : request[q].step = "rollback" => used["fault"] >= 1

(* A deletion is not under way anywhere.                                   *)
NothingDeletes ==
  janitor = {} /\ \A c \in late : c.op = "put" => c.record # None

(* The record is there from the write of HT1 on, and a handler that goes   *)
(* on although the task has been accepted was misled by the only fault, so *)
(* that it will not roll back.                                             *)
Acknowledged(t) ==
  Accepted(t) \/ \E q \in Requests : request[q].task = t /\ request[q].step = "ht2"
RecordThere == \A t \in Tasks : t \notin raced /\ Acknowledged(t) => ht1[t] # None
NoRollback ==
  \A t \in Tasks : t \notin raced /\ Accepted(t) =>
    \A q \in Writing(t) : request[q].step # "rollback" /\ used["fault"] = 1

KeptInv ==
  /\ OneWriter /\ RollbackFollowsFault
  /\ Gentle => NothingDeletes /\ RecordThere /\ NoRollback

(* Histories only grow.                                                    *)
Grows == raced \subseteq raced' /\ \A k \in Troubles : used'[k] >= used[k]

LEMMA TroublesGrow ==
  ASSUME TypeInv
  PROVE  /\ UNCHANGED troubles => \A k \in Troubles : used'[k] >= used[k]
         /\ \A x : Trouble(x) => \A k \in Troubles : used'[k] >= used[k]
         /\ \A c : \A ok \in BOOLEAN : Call(c, ok) => \A k \in Troubles : used'[k] >= used[k]
<1>1. ASSUME UNCHANGED troubles PROVE \A k \in Troubles : used'[k] >= used[k]
  BY <1>1 DEF TypeInv, TroublesType, troubles
<1>2. ASSUME NEW x, Trouble(x) PROVE \A k \in Troubles : used'[k] >= used[k]
  BY <1>2 DEF Trouble, TypeInv, TroublesType
<1> QED BY <1>1, <1>2 DEF Call

LEMMA HistoryGrows ==
  ASSUME TypeInv, [Next]_vars
  PROVE  Grows
<1>1. CASE UNCHANGED vars
  BY <1>1, TroublesGrow DEF vars, history, Grows
<1>2. ASSUME NEW q \in Requests, Creating(q) PROVE Grows
  <2>1. ASSUME NEW t \in Tasks, Check(q, t) PROVE Grows
    BY <2>1, TroublesGrow DEF Check, Proceed, Touch, Grows
  <2>2. ASSUME NEW ok \in BOOLEAN, WriteHT1(q, ok) \/ AppendHT2(q, ok) \/ Rollback(q, ok)
        PROVE  Grows
    BY <2>2, TroublesGrow DEF WriteHT1, AppendHT2, Rollback, history, Grows
  <2> QED BY <1>2, <2>1, <2>2 DEF Creating
<1>3. ASSUME NEW w \in Workers, Polling(w) PROVE Grows
  <2>1. raced' = raced
    BY <1>3 DEF Polling, Booted, FetchAssigned, Take, Report, ReportTimeout, RunTask, history
  <2>2. UNCHANGED troubles \/ \E x : Trouble(x)
    BY <1>3 DEF Polling, Booted, FetchAssigned, Take, Report, ReportTimeout, RunTask
  <2> QED BY <2>1, <2>2, TroublesGrow DEF Grows
<1>4. ASSUME NEW w \in Workers,
             Heartbeat(w) \/ Expire(w) \/ Boot(w) \/ \E killed \in BOOLEAN : Stop(w, killed)
      PROVE  Grows
  BY <1>4, TroublesGrow DEF Heartbeat, Expire, Boot, Stop, history, Grows
<1>5. ASSUME \/ \E p \in posts, ok \in BOOLEAN : Complete(p, ok)
             \/ \E c \in cleanup, ok \in BOOLEAN : Cleanup(c, ok)
             \/ \E c \in late : Deliver(c)
      PROVE  Grows
  BY <1>5, TroublesGrow DEF Complete, Cleanup, Deliver, history, Grows
<1>6. ASSUME NEW s \in Scanners, Recovering(s) PROVE Grows
  <2>1. CASE Decide(s) \/ \E t \in Tasks : Detect(s, t)
    <3>1. raced' = raced /\ (UNCHANGED troubles \/ Trouble("fault"))
      BY <2>1 DEF Decide, Detect, history
    <3> QED BY <3>1, TroublesGrow DEF Grows
  <2>2. ASSUME NEW ok \in BOOLEAN,
               ClearWaiting(s, ok) \/ PutRecovered(s, ok) \/ RemoveOld(s, ok) \/ AppendNew(s, ok)
        PROVE  Grows
    BY <2>2, TroublesGrow DEF ClearWaiting, PutRecovered, RemoveOld, AppendNew, Touch, history, Grows
  <2> QED BY <1>6, <2>1, <2>2 DEF Recovering
<1>7. ASSUME Moving PROVE Grows
  BY <1>7, TroublesGrow DEF Moving, Rebalance, MovePut, MoveRemove, MoveAppend, history, Grows
<1>8. ASSUME Cleaning \/ Reboot PROVE Grows
  BY <1>8, TroublesGrow DEF Cleaning, ClearCompleted, ResetAll, DeleteKey, Reboot, history, Grows
<1> QED BY <1>1, <1>2, <1>3, <1>4, <1>5, <1>6, <1>7, <1>8 DEF Next

LEMMA GentleBefore == ASSUME TypeInv, TypeInv', Grows, Gentle' PROVE Gentle
<1>1. /\ used["fault"] \in Nat /\ used["clear"] \in Nat
      /\ used'["fault"] \in Nat /\ used'["clear"] \in Nat
  BY DEF TypeInv, TroublesType, Troubles
<1>2. used'["fault"] >= used["fault"] /\ used'["clear"] >= used["clear"]
  BY DEF Grows, Troubles
<1> QED BY <1>1, <1>2 DEF Gentle

(* Calls that delete no record.                                            *)
Safe(c) == c.op = "put" => c.record # None
KeepsRecords == \A t \in Tasks : ht1[t] # None => ht1'[t] # None
LateSafe == \A c \in late : Safe(c)

LEMMA SafeCalls ==
  ASSUME TypeInv, LateSafe, NEW c, Safe(c)
  PROVE  /\ Apply(c) => KeepsRecords
         /\ \A ok \in BOOLEAN : Call(c, ok) => KeepsRecords /\ LateSafe'
<1>1. ASSUME Apply(c) PROVE KeepsRecords
  BY <1>1 DEF Apply, Safe, KeepsRecords, TypeInv, TablesType
<1>2. ASSUME NEW ok \in BOOLEAN, Call(c, ok) PROVE KeepsRecords /\ LateSafe'
  <2>1. CASE ok
    BY <1>1, <1>2, <2>1 DEF Call, LateSafe
  <2>2. CASE ~ok
    BY <1>2, <2>2 DEF Call, LateSafe, KeepsRecords
  <2> QED BY <2>1, <2>2
<1> QED BY <1>1, <1>2

LEMMA ListsAreSafe == \A w, t : Safe(AppendTo(w, t)) /\ Safe(RemoveFrom(w, t))
  BY CallFields DEF Safe

LEMMA RecordsAreSafe == \A t : \A r \in Records : Safe(Put(t, r)) /\ r # None
  BY CallFields, TaskAssumption DEF Safe

(* No step but a rollback deletes a record, when nothing is late and no    *)
(* operator deletes.                                                       *)
LEMMA OthersKeepRecords ==
  ASSUME TypeInv, NothingDeletes, [Next]_vars, Gentle',
         \A q \in Requests, ok \in BOOLEAN : ~Rollback(q, ok)
  PROVE  KeepsRecords /\ NothingDeletes'
<1>0. LateSafe /\ janitor = {}
  BY DEF NothingDeletes, LateSafe, Safe
<1>i. ASSUME UNCHANGED <<ht1, late>> PROVE KeepsRecords /\ LateSafe'
  BY <1>i, <1>0 DEF KeepsRecords, LateSafe
<1>1. CASE UNCHANGED vars
  BY <1>1, <1>i, <1>0 DEF vars, tables, NothingDeletes, LateSafe, Safe
<1>2. ASSUME NEW q \in Requests, Creating(q) PROVE KeepsRecords /\ LateSafe' /\ janitor' = {}
  <2>1. ASSUME NEW t \in Tasks, Check(q, t) PROVE KeepsRecords /\ LateSafe' /\ janitor' = {}
    BY <2>1, <1>i, <1>0 DEF Check, tables
  <2>2. ASSUME NEW ok \in BOOLEAN, WriteHT1(q, ok) PROVE KeepsRecords /\ LateSafe' /\ janitor' = {}
    <3>1. request[q].worker \in Workers
      BY <2>2 DEF WriteHT1, TypeInv, RequestType, HeldRequest
    <3>2. NewRecord(request[q].worker) \in Records
      BY <3>1 DEF NewRecord, Records
    <3> QED BY <2>2, <3>2, <1>0, SafeCalls, RecordsAreSafe DEF WriteHT1
  <2>3. ASSUME NEW ok \in BOOLEAN, AppendHT2(q, ok) PROVE KeepsRecords /\ LateSafe' /\ janitor' = {}
    BY <2>3, <1>0, SafeCalls, ListsAreSafe DEF AppendHT2
  <2> QED BY <1>2, <2>1, <2>2, <2>3 DEF Creating
<1>3. ASSUME NEW w \in Workers, Polling(w) PROVE KeepsRecords /\ LateSafe' /\ janitor' = {}
  <2>1. UNCHANGED <<ht1, late, janitor>>
    BY <1>3 DEF Polling, Booted, FetchAssigned, Take, Report, ReportTimeout, RunTask, tables
  <2> QED BY <2>1, <1>i, <1>0
<1>4. ASSUME NEW w \in Workers,
             Heartbeat(w) \/ Expire(w) \/ Boot(w) \/ \E killed \in BOOLEAN : Stop(w, killed)
      PROVE  KeepsRecords /\ LateSafe' /\ janitor' = {}
  BY <1>4, <1>i, <1>0 DEF Heartbeat, Expire, Boot, Stop, tables
<1>5. ASSUME NEW p \in posts, NEW ok \in BOOLEAN, Complete(p, ok)
      PROVE  KeepsRecords /\ LateSafe' /\ janitor' = {}
  <2>1. [p.record EXCEPT !.status = p.outcome] \in Records
    BY DEF TypeInv, PostsType, Post, Records, Outcomes
  <2> QED BY <1>5, <2>1, <1>0, SafeCalls, RecordsAreSafe DEF Complete
<1>6. ASSUME NEW c \in cleanup, NEW ok \in BOOLEAN, Cleanup(c, ok)
      PROVE  KeepsRecords /\ LateSafe' /\ janitor' = {}
  <2>1. Safe(c)
    BY DEF TypeInv, CleanupType, Lists, Safe
  <2> QED BY <1>6, <2>1, <1>0, SafeCalls DEF Cleanup
<1>7. ASSUME NEW c \in late, Deliver(c) PROVE KeepsRecords /\ LateSafe' /\ janitor' = {}
  <2>1. Safe(c)
    BY <1>0 DEF LateSafe
  <2> QED BY <1>7, <2>1, <1>0, SafeCalls DEF Deliver, LateSafe
<1>8. ASSUME NEW s \in Scanners, Recovering(s) PROVE KeepsRecords /\ LateSafe' /\ janitor' = {}
  <2>t. scan[s].step \in {"clear", "put", "remove", "append"} => scan[s].record \in Records
    BY DEF TypeInv, ScanType, HeldScan
  <2>1. CASE Decide(s) \/ \E t \in Tasks : Detect(s, t)
    BY <2>1, <1>i, <1>0 DEF Decide, Detect, tables
  <2>2. ASSUME NEW ok \in BOOLEAN, ClearWaiting(s, ok)
        PROVE  KeepsRecords /\ LateSafe' /\ janitor' = {}
    <3>1. [scan[s].record EXCEPT !.waiting = FALSE] \in Records
      BY <2>2, <2>t DEF ClearWaiting, Records
    <3> QED BY <2>2, <3>1, <1>0, SafeCalls, RecordsAreSafe DEF ClearWaiting
  <2>3. ASSUME NEW ok \in BOOLEAN, PutRecovered(s, ok)
        PROVE  KeepsRecords /\ LateSafe' /\ janitor' = {}
    BY <2>3, <2>t, <1>0, SafeCalls, RecordsAreSafe DEF PutRecovered
  <2>4. ASSUME NEW ok \in BOOLEAN, RemoveOld(s, ok) \/ AppendNew(s, ok)
        PROVE  KeepsRecords /\ LateSafe' /\ janitor' = {}
    BY <2>4, <1>0, SafeCalls, ListsAreSafe DEF RemoveOld, AppendNew
  <2> QED BY <1>8, <2>1, <2>2, <2>3, <2>4 DEF Recovering
<1>9. ASSUME Moving PROVE KeepsRecords /\ LateSafe' /\ janitor' = {}
  <2>1. ASSUME NEW t \in Tasks, NEW w \in Workers, Rebalance(t, w)
        PROVE  KeepsRecords /\ LateSafe' /\ janitor' = {}
    BY <2>1, <1>i, <1>0 DEF Rebalance, tables
  <2>2. CASE MovePut
    <3>1. mover.record \in Records
      BY <2>2 DEF MovePut, TypeInv, MoverType, HeldMove
    <3> QED BY <2>2, <3>1, <1>0, RecordsAreSafe
            DEF MovePut, KeepsRecords, LateSafe, TypeInv, TablesType
  <2>3. ASSUME NEW ok \in BOOLEAN, MoveRemove(ok) \/ MoveAppend(ok)
        PROVE  KeepsRecords /\ LateSafe' /\ janitor' = {}
    BY <2>3, <1>0, SafeCalls, ListsAreSafe DEF MoveRemove, MoveAppend
  <2> QED BY <1>9, <2>1, <2>2, <2>3 DEF Moving
<1>10. ASSUME Cleaning PROVE FALSE
  <2>1. ~Trouble("clear")
    <3>1. used["clear"] \in Nat
      BY DEF TypeInv, TroublesType, Troubles
    <3> QED BY <3>1 DEF Trouble, Gentle, TypeInv, TroublesType, Troubles
  <2> QED BY <1>0, <1>10, <2>1 DEF Cleaning, ClearCompleted, ResetAll, DeleteKey
<1>11. CASE Reboot
  BY <1>11, <1>i, <1>0 DEF Reboot, tables, NothingDeletes, LateSafe, Safe
<1>12. LateSafe' /\ janitor' = {} => NothingDeletes'
  BY DEF LateSafe, Safe, NothingDeletes
<1> QED BY <1>1, <1>2, <1>3, <1>4, <1>5, <1>6, <1>7, <1>8, <1>9, <1>10, <1>11, <1>12 DEF Next

(* What a step may do to the handlers without getting one further.         *)
Harmless(q) ==
  \/ request'[q].step = request[q].step /\ request'[q].task = request[q].task
  \/ request'[q].step \in {"lost", "exists", "rejected"}

LEMMA FaultCount == TypeInv => used["fault"] \in Nat
  BY DEF TypeInv, TroublesType, Troubles

LEMMA HarmlessSteps ==
  ASSUME TypeInv, TypeInv', KeptInv, [Next]_vars, \A q \in Requests : Harmless(q),
         \A q \in Requests, ok \in BOOLEAN : ~Rollback(q, ok)
  PROVE  KeptInv'
<1>g. Grows
  BY HistoryGrows
<1>f. used["fault"] \in Nat /\ used'["fault"] \in Nat /\ used'["fault"] >= used["fault"]
  BY <1>g, FaultCount DEF Grows, TypeInv, TroublesType, Troubles
<1>w. \A t \in Tasks : \A q \in Writing(t)' :
        q \in Writing(t) /\ request'[q].step = request[q].step
  BY DEF Writing, Harmless
<1>a. \A t \in Tasks : (Accepted(t)' => Accepted(t)) /\ (Acknowledged(t)' => Acknowledged(t))
  BY DEF Accepted, Acknowledged, Harmless
<1>1. OneWriter'
  BY <1>g, <1>w DEF KeptInv, OneWriter, Grows
<1>2. RollbackFollowsFault'
  <2> SUFFICES ASSUME NEW q \in Requests, request'[q].step = "rollback"
               PROVE  used'["fault"] >= 1
    BY DEF RollbackFollowsFault
  <2>1. request[q].step = "rollback"
    BY DEF Harmless
  <2>2. used["fault"] >= 1
    BY <2>1 DEF KeptInv, RollbackFollowsFault
  <2> QED BY <1>f, <2>2
<1>3. ASSUME Gentle' PROVE NothingDeletes' /\ RecordThere' /\ NoRollback'
  <2>1. Gentle
    BY <1>g, <1>3, GentleBefore
  <2>2. NothingDeletes /\ RecordThere /\ NoRollback
    BY <2>1 DEF KeptInv
  <2>3. KeepsRecords /\ NothingDeletes'
    BY <1>3, <2>2, OthersKeepRecords
  <2>4. RecordThere'
    BY <1>a, <1>g, <2>2, <2>3 DEF RecordThere, Grows, KeepsRecords
  <2>5. NoRollback'
    <3> SUFFICES ASSUME NEW t \in Tasks, t \notin raced', Accepted(t)', NEW q \in Writing(t)'
                 PROVE  request'[q].step # "rollback" /\ used'["fault"] = 1
      BY DEF NoRollback
    <3>1. request[q].step # "rollback" /\ used["fault"] = 1
      BY <1>a, <1>g, <1>w, <2>2 DEF NoRollback, Grows
    <3>2. used'["fault"] <= 1
      BY <1>3 DEF Gentle
    <3> QED BY <1>f, <1>w, <3>1, <3>2
  <2> QED BY <2>3, <2>4, <2>5
<1> QED BY <1>1, <1>2, <1>3 DEF KeptInv

(* A handler gets from the check to the write of HT1.                      *)
LEMMA ProceedKeeps ==
  ASSUME TypeInv, TypeInv', KeptInv, [Next]_vars, NEW q \in Requests, NEW t \in Tasks,
         NEW w \in Workers, request[q].step = "new", Proceed(q, t, w),
         UNCHANGED <<ht1, late, janitor>>,
         ht1[t] # None => used'["fault"] >= 1
  PROVE  KeptInv'
<1>g. Grows
  BY HistoryGrows
<1>f. used["fault"] \in Nat /\ used'["fault"] \in Nat /\ used'["fault"] >= used["fault"]
  BY <1>g, FaultCount DEF Grows, TypeInv, TroublesType, Troubles
<1>r. /\ request'[q].step = "ht1" /\ request'[q].task = t
      /\ \A p \in Requests \ {q} : request'[p] = request[p]
  BY DEF Proceed, TypeInv, RequestType
<1>w. \A u \in Tasks : Writing(u)' = IF u = t THEN Writing(u) \cup {q} ELSE Writing(u)
  <2> SUFFICES ASSUME NEW u \in Tasks, NEW p \in Requests
               PROVE  p \in Writing(u)' <=> p \in Writing(u) \/ (u = t /\ p = q)
    BY DEF Writing
  <2> QED BY <1>r DEF Writing
<1>x. q \notin Writing(t)
  BY DEF Writing
<1>y. Writing(t) # {} => t \in raced'
  BY DEF Proceed, Touch
<1>a. \A u \in Tasks : (Accepted(u)' => Accepted(u)) /\ (Acknowledged(u)' => Acknowledged(u))
  BY <1>r DEF Accepted, Acknowledged
<1>1. OneWriter'
  BY <1>g, <1>w, <1>y DEF KeptInv, OneWriter, Grows
<1>2. RollbackFollowsFault'
  <2> SUFFICES ASSUME NEW p \in Requests, request'[p].step = "rollback"
               PROVE  used'["fault"] >= 1
    BY DEF RollbackFollowsFault
  <2>1. request[p].step = "rollback"
    BY <1>r
  <2>2. used["fault"] >= 1
    BY <2>1 DEF KeptInv, RollbackFollowsFault
  <2> QED BY <1>f, <2>2
<1>3. ASSUME Gentle' PROVE NothingDeletes' /\ RecordThere' /\ NoRollback'
  <2>1. Gentle
    BY <1>g, <1>3, GentleBefore
  <2>2. NothingDeletes /\ RecordThere /\ NoRollback
    BY <2>1 DEF KeptInv
  <2>3. NothingDeletes' /\ RecordThere'
    BY <1>a, <1>g, <2>2 DEF NothingDeletes, RecordThere, Grows
  <2>4. NoRollback'
    <3> SUFFICES ASSUME NEW u \in Tasks, u \notin raced', Accepted(u)', NEW p \in Writing(u)'
                 PROVE  request'[p].step # "rollback" /\ used'["fault"] = 1
      BY DEF NoRollback
    <3>0. used'["fault"] <= 1 /\ u \notin raced /\ Accepted(u) /\ p \in Requests
      BY <1>3, <1>a, <1>g DEF Gentle, Grows, Writing
    <3>1. CASE p = q
      <4>1. u = t
        BY <1>r, <3>1 DEF Writing
      <4>2. ht1[t] # None
        BY <2>2, <3>0, <4>1 DEF RecordThere, Acknowledged
      <4> QED BY <1>f, <1>r, <3>0, <3>1, <4>2
    <3>2. CASE p # q
      <4>1. p \in Writing(u)
        BY <1>w, <3>2
      <4>2. request[p].step # "rollback" /\ used["fault"] = 1
        BY <2>2, <3>0, <4>1 DEF NoRollback
      <4> QED BY <1>f, <1>r, <3>0, <3>2, <4>2
    <3> QED BY <3>1, <3>2
  <2> QED BY <2>3, <2>4
<1> QED BY <1>1, <1>2, <1>3 DEF KeptInv

(* A handler's step that changes its own request only.                     *)
LEMMA SetRequestEffect ==
  ASSUME TypeInv, NEW q \in Requests, NEW step, NEW tries, SetRequest(q, step, tries)
  PROVE  /\ request'[q].step = step /\ request'[q].task = request[q].task
         /\ \A p \in Requests \ {q} : request'[p] = request[p]
<1>1. request[q] \in Request
  BY DEF TypeInv, RequestType, HeldRequest
<1> QED BY <1>1 DEF SetRequest, TypeInv, RequestType, Request

(* A handler gets one step further with the task it writes.                *)
LEMMA AdvanceKeeps ==
  ASSUME TypeInv, TypeInv', KeptInv, [Next]_vars, NEW q \in Requests, NEW t \in Tasks,
         request[q].task = t, request'[q].task = t,
         request[q].step \in {"ht1", "ht2", "rollback"},
         \A p \in Requests \ {q} : request'[p] = request[p],
         request'[q].step \in {"ht2", "rollback", "accepted", "rejected"},
         request'[q].step = "rollback" => used'["fault"] = used["fault"] + 1,
         Gentle' => /\ NothingDeletes'
                    /\ \A u \in Tasks \ {t} : ht1[u] # None => ht1'[u] # None
                    /\ t \notin raced /\ Acknowledged(t)' => ht1'[t] # None
  PROVE  KeptInv'
<1>g. Grows
  BY HistoryGrows
<1>f. used["fault"] \in Nat /\ used'["fault"] \in Nat /\ used'["fault"] >= used["fault"]
  BY <1>g, FaultCount DEF Grows, TypeInv, TroublesType, Troubles
<1>w. \A u \in Tasks : Writing(u)' \subseteq Writing(u) /\ (q \in Writing(u) <=> u = t)
  <2> SUFFICES ASSUME NEW u \in Tasks, NEW p \in Requests, p \in Writing(u)'
               PROVE  p \in Writing(u)
    BY DEF Writing
  <2> QED BY DEF Writing
<1>a. \A u \in Tasks \ {t} : (Accepted(u)' => Accepted(u)) /\ (Acknowledged(u)' => Acknowledged(u))
  BY DEF Accepted, Acknowledged
<1>1. OneWriter'
  BY <1>g, <1>w DEF KeptInv, OneWriter, Grows
<1>2. RollbackFollowsFault'
  <2> SUFFICES ASSUME NEW p \in Requests, request'[p].step = "rollback"
               PROVE  used'["fault"] >= 1
    BY DEF RollbackFollowsFault
  <2>1. CASE p = q
    BY <1>f, <2>1
  <2>2. CASE p # q
    <3>1. used["fault"] >= 1
      BY <2>2 DEF KeptInv, RollbackFollowsFault
    <3> QED BY <1>f, <3>1
  <2> QED BY <2>1, <2>2
<1>3. ASSUME Gentle' PROVE NothingDeletes' /\ RecordThere' /\ NoRollback'
  <2>1. Gentle /\ used'["fault"] <= 1
    BY <1>g, <1>3, GentleBefore DEF Gentle
  <2>2. RecordThere /\ NoRollback
    BY <2>1 DEF KeptInv
  <2>3. RecordThere'
    BY <1>3, <1>a, <1>g, <2>2 DEF RecordThere, Grows
  <2>4. NoRollback'
    <3> SUFFICES ASSUME NEW u \in Tasks, u \notin raced', Accepted(u)', NEW p \in Writing(u)'
                 PROVE  request'[p].step # "rollback" /\ used'["fault"] = 1
      BY DEF NoRollback
    <3>0. u \notin raced /\ p \in Writing(u) /\ p \in Requests
      BY <1>g, <1>w DEF Grows, Writing
    <3>1. ASSUME Accepted(u) PROVE request'[p].step # "rollback" /\ used'["fault"] = 1
      <4>1. request[p].step # "rollback" /\ used["fault"] = 1
        BY <2>2, <3>0, <3>1 DEF NoRollback
      <4>2. used'["fault"] = 1
        BY <1>f, <2>1, <4>1
      <4>3. CASE p = q
        BY <1>f, <4>1, <4>2, <4>3
      <4>4. CASE p # q
        BY <3>0, <4>1, <4>2, <4>4
      <4> QED BY <4>3, <4>4
    <3>2. CASE ~Accepted(u)
      <4>1. u = t /\ request'[q].step = "accepted"
        BY <1>a, <3>2 DEF Accepted
      <4>2. p # q
        BY <4>1 DEF Writing
      <4>3. q \in Writing(t)
        BY <1>w
      <4>4. t \in raced
        BY <3>0, <4>1, <4>2, <4>3 DEF KeptInv, OneWriter
      <4> QED BY <3>0, <4>1, <4>4
    <3> QED BY <3>1, <3>2
  <2> QED BY <1>3, <2>3, <2>4
<1> QED BY <1>1, <1>2, <1>3 DEF KeptInv

LEMMA CreatingKeeps ==
  ASSUME TypeInv, TypeInv', KeptInv, [Next]_vars, NEW q \in Requests, Creating(q)
  PROVE  KeptInv'
<1>1. ASSUME NEW t \in Tasks, Check(q, t) PROVE KeptInv'
  <2>1. UNCHANGED <<ht1, late, janitor>> /\ request[q].step = "new"
    BY <1>1 DEF Check, tables
  <2>2. ASSUME NEW w \in Workers, Proceed(q, t, w),
               IF ht1[t] = None THEN UNCHANGED troubles ELSE Trouble("fault")
        PROVE  KeptInv'
    <3>1. ht1[t] # None => used'["fault"] >= 1
      BY <2>2, FaultCount DEF Trouble, TypeInv, TroublesType, Troubles
    <3> QED BY <2>1, <2>2, <3>1, ProceedKeeps
  <2>3. ASSUME NEW step \in {"exists", "rejected"},
               request' = [request EXCEPT ![q].step = step, ![q].task = t]
        PROVE  KeptInv'
    <3>1. request[q] \in Request
      BY DEF TypeInv, RequestType, HeldRequest
    <3>2. \A p \in Requests : Harmless(p)
      BY <2>3, <3>1 DEF Harmless, TypeInv, RequestType, Request
    <3>3. \A p \in Requests, ok \in BOOLEAN : ~Rollback(p, ok)
      <4> SUFFICES ASSUME NEW p \in Requests, NEW ok \in BOOLEAN, Rollback(p, ok) PROVE FALSE
        OBVIOUS
      <4>1. p # q /\ request[p].step = "rollback"
        BY <2>1 DEF Rollback
      <4>2. request'[p].step = "rejected" /\ request'[q] = request[q]
        BY <4>1, SetRequestEffect DEF Rollback
      <4>3. request'[q].step = step
        BY <2>3, <3>1 DEF TypeInv, RequestType, Request
      <4> QED BY <2>1, <4>2, <4>3
    <3> QED BY <3>2, <3>3, HarmlessSteps
  <2> QED BY <1>1, <2>2, <2>3 DEF Check
<1>t. request[q].step \in {"ht1", "ht2", "rollback"} =>
        request[q].task \in Tasks /\ request[q].worker \in Workers
  BY DEF TypeInv, RequestType, HeldRequest
<1>r. ASSUME request[q].step # "rollback" PROVE \A ok \in BOOLEAN : ~Rollback(q, ok)
  BY <1>r DEF Rollback
<1>n. ASSUME NEW p \in Requests \ {q}, NEW ok \in BOOLEAN, Rollback(p, ok),
             request'[q] # request[q]
      PROVE  FALSE
  BY <1>n, SetRequestEffect DEF Rollback
<1>f. used["fault"] \in Nat /\ used'["fault"] \in Nat
  BY FaultCount DEF TypeInv, TroublesType, Troubles
<1>k. ASSUME Gentle' PROVE Gentle /\ NothingDeletes /\ RecordThere /\ NoRollback
  BY <1>k, HistoryGrows, GentleBefore DEF KeptInv
<1>m. ASSUME Gentle', \A p \in Requests, ok \in BOOLEAN : ~Rollback(p, ok)
      PROVE  KeepsRecords /\ NothingDeletes'
  BY <1>k, <1>m, OthersKeepRecords
<1>2. ASSUME NEW ok \in BOOLEAN, WriteHT1(q, ok) PROVE KeptInv'
  <2> DEFINE t == request[q].task
  <2>0. request[q].step = "ht1" /\ t \in Tasks /\ request[q].worker \in Workers
    BY <1>2, <1>t DEF WriteHT1
  <2>1. CASE ok
    <3>1. /\ request'[q].step = "ht2" /\ request'[q].task = t
          /\ \A p \in Requests \ {q} : request'[p] = request[p]
      BY <1>2, <2>1, SetRequestEffect DEF WriteHT1, Again
    <3>2. ht1'[t] # None
      <4>1. NewRecord(request[q].worker) \in Records
        BY <2>0 DEF NewRecord, Records
      <4>2. ht1' = [ht1 EXCEPT ![t] = NewRecord(request[q].worker)]
        BY <1>2, <2>1, CallFields DEF WriteHT1, Call, Apply
      <4> QED BY <2>0, <4>1, <4>2, RecordsAreSafe DEF TypeInv, TablesType
    <3>3. \A p \in Requests, x \in BOOLEAN : ~Rollback(p, x)
      BY <1>n, <1>r, <2>0, <3>1
    <3> QED BY <1>m, <2>0, <3>1, <3>2, <3>3, AdvanceKeeps DEF KeepsRecords
  <2>2. CASE ~ok
    <3>1. \E k : SetRequest(q, "ht1", k) \/ SetRequest(q, "rejected", k)
      BY <1>2, <2>0, <2>2 DEF WriteHT1, Again
    <3>2. \A p \in Requests : Harmless(p)
      BY <2>0, <3>1, SetRequestEffect DEF Harmless
    <3>3. \A p \in Requests, x \in BOOLEAN : ~Rollback(p, x)
      <4> SUFFICES ASSUME NEW p \in Requests, NEW x \in BOOLEAN, Rollback(p, x) PROVE FALSE
        OBVIOUS
      <4>1. p # q /\ request'[p].step = "rejected" /\ request[p].step = "rollback"
        BY <2>0, SetRequestEffect DEF Rollback
      <4> QED BY <3>1, <4>1, SetRequestEffect
    <3> QED BY <3>2, <3>3, HarmlessSteps
  <2> QED BY <2>1, <2>2
<1>3. ASSUME NEW ok \in BOOLEAN, AppendHT2(q, ok) PROVE KeptInv'
  <2> DEFINE t == request[q].task
  <2>0. request[q].step = "ht2" /\ t \in Tasks
    BY <1>3, <1>t DEF AppendHT2
  <2>1. \E k : \/ SetRequest(q, "accepted", k)
               \/ ~ok /\ SetRequest(q, "ht2", k)
               \/ ~ok /\ SetRequest(q, "rollback", k)
    BY <1>3, <2>0 DEF AppendHT2, Again
  <2>2. \A p \in Requests, x \in BOOLEAN : ~Rollback(p, x)
    <3> SUFFICES ASSUME NEW p \in Requests, NEW x \in BOOLEAN, Rollback(p, x) PROVE FALSE
      OBVIOUS
    <3>1. p # q /\ request'[p].step = "rejected" /\ request[p].step = "rollback"
      BY <2>0, SetRequestEffect DEF Rollback
    <3> QED BY <2>1, <3>1, SetRequestEffect
  <2>3. CASE \E k : ~ok /\ SetRequest(q, "ht2", k)
    <3>1. \A p \in Requests : Harmless(p)
      BY <2>0, <2>3, SetRequestEffect DEF Harmless
    <3> QED BY <2>2, <3>1, HarmlessSteps
  <2>4. CASE \E k : SetRequest(q, "accepted", k) \/ (~ok /\ SetRequest(q, "rollback", k))
    <3>1. /\ request'[q].step \in {"accepted", "rollback"} /\ request'[q].task = t
          /\ request'[q].step = "rollback" => ~ok
          /\ \A p \in Requests \ {q} : request'[p] = request[p]
      BY <2>4, SetRequestEffect
    <3>2. ~ok => used'["fault"] = used["fault"] + 1
      BY <1>3, <1>f DEF AppendHT2, Call, Trouble, TypeInv, TroublesType, Troubles
    <3>3. Acknowledged(t)
      BY <2>0 DEF Acknowledged
    <3>4. Gentle' /\ t \notin raced => ht1'[t] # None
      BY <1>k, <1>m, <2>0, <2>2, <3>3 DEF RecordThere, KeepsRecords
    <3> QED BY <1>m, <2>0, <2>2, <3>1, <3>2, <3>4, AdvanceKeeps DEF KeepsRecords
  <2> QED BY <2>1, <2>3, <2>4
<1>4. ASSUME NEW ok \in BOOLEAN, Rollback(q, ok) PROVE KeptInv'
  <2> DEFINE t == request[q].task
  <2>0. request[q].step = "rollback" /\ t \in Tasks
    BY <1>4, <1>t DEF Rollback
  <2>1. /\ request'[q].step = "rejected" /\ request'[q].task = t
        /\ \A p \in Requests \ {q} : request'[p] = request[p]
    BY <1>4, SetRequestEffect DEF Rollback
  <2>2. ASSUME Gentle'
        PROVE  /\ NothingDeletes'
               /\ \A u \in Tasks \ {t} : ht1[u] # None => ht1'[u] # None
               /\ ~(t \notin raced /\ Acknowledged(t)')
    <3>1. ok
      <4>1. used["fault"] >= 1 /\ used'["fault"] <= 1
        BY <2>0, <2>2 DEF KeptInv, RollbackFollowsFault, Gentle
      <4>2. ~ok => used'["fault"] = used["fault"] + 1
        BY <1>4, <1>f DEF Rollback, Call, Trouble, TypeInv, TroublesType, Troubles
      <4> QED BY <1>f, <4>1, <4>2
    <3>2. ht1' = [ht1 EXCEPT ![t] = None] /\ late' = late /\ janitor' = janitor
      BY <1>4, <3>1, CallFields DEF Rollback, Call, Apply
    <3>3. NothingDeletes' /\ \A u \in Tasks \ {t} : ht1[u] # None => ht1'[u] # None
      BY <1>k, <2>2, <3>2 DEF NothingDeletes, TypeInv, TablesType
    <3>4. ASSUME t \notin raced, Acknowledged(t)' PROVE FALSE
      <4>0. q \in Writing(t)
        BY <2>0 DEF Writing
      <4>1. ~Accepted(t)
        BY <1>k, <2>0, <2>2, <3>4, <4>0 DEF NoRollback
      <4>2. PICK p \in Requests : request'[p].task = t /\ request'[p].step \in {"accepted", "ht2"}
        BY <2>1, <3>4 DEF Acknowledged, Accepted
      <4>3. p # q /\ request[p] = request'[p]
        BY <2>1, <4>2
      <4>4. p \in Writing(t)
        BY <4>1, <4>2, <4>3 DEF Writing, Accepted
      <4> QED BY <3>4, <4>0, <4>3, <4>4, <2>0 DEF KeptInv, OneWriter
    <3> QED BY <3>3, <3>4
  <2> QED BY <2>0, <2>1, <2>2, AdvanceKeeps
<1> QED BY <1>1, <1>2, <1>3, <1>4 DEF Creating

(* Only createTask and a reboot touch the handlers.                        *)
LEMMA OthersLeaveRequests ==
  ASSUME [Next]_vars, \A q \in Requests : ~Creating(q)
  PROVE  request' = request \/ Reboot
<1>1. ASSUME NEW w \in Workers, Polling(w) PROVE request' = request
  BY <1>1 DEF Polling, Booted, FetchAssigned, Take, Report, ReportTimeout, RunTask
<1>2. ASSUME NEW w \in Workers,
             Heartbeat(w) \/ Expire(w) \/ Boot(w) \/ \E killed \in BOOLEAN : Stop(w, killed)
      PROVE  request' = request
  BY <1>2 DEF Heartbeat, Expire, Boot, Stop
<1>3. ASSUME \/ \E p \in posts, ok \in BOOLEAN : Complete(p, ok)
             \/ \E c \in cleanup, ok \in BOOLEAN : Cleanup(c, ok)
             \/ \E c \in late : Deliver(c)
      PROVE  request' = request
  BY <1>3 DEF Complete, Cleanup, Deliver
<1>4. ASSUME NEW s \in Scanners, Recovering(s) PROVE request' = request
  BY <1>4 DEF Recovering, Detect, Decide, ClearWaiting, PutRecovered, RemoveOld, AppendNew
<1>5. ASSUME Moving \/ Cleaning PROVE request' = request
  BY <1>5 DEF Moving, Rebalance, MovePut, MoveRemove, MoveAppend, Cleaning, ClearCompleted,
              ResetAll, DeleteKey
<1>6. CASE UNCHANGED vars
  BY <1>6 DEF vars
<1> QED BY <1>1, <1>2, <1>3, <1>4, <1>5, <1>6 DEF Next

(* Every step keeps what the records of accepted tasks depend on.          *)
LEMMA StepKeeps == TypeInv /\ TypeInv' /\ KeptInv /\ [Next]_vars => KeptInv'
<1> SUFFICES ASSUME TypeInv, TypeInv', KeptInv, [Next]_vars PROVE KeptInv'
  OBVIOUS
<1>1. ASSUME \A q \in Requests : ~Creating(q) PROVE KeptInv'
  <2>1. request' = request \/ Reboot
    BY <1>1, OthersLeaveRequests
  <2>2. ASSUME Reboot, NEW q \in Requests PROVE Harmless(q)
    <3>1. request[q] \in Request
      BY DEF TypeInv, RequestType, HeldRequest
    <3> QED BY <2>2, <3>1 DEF Reboot, Harmless, Request
  <2>3. \A q \in Requests : Harmless(q)
    BY <2>1, <2>2 DEF Harmless
  <2>4. \A q \in Requests, ok \in BOOLEAN : ~Rollback(q, ok)
    BY <1>1 DEF Creating
  <2> QED BY <2>3, <2>4, HarmlessSteps
<1> QED BY <1>1, CreatingKeeps

(* At first nothing has been written.                                      *)
LEMMA InitKept == Init => KeptInv
  BY DEF Init, KeptInv, OneWriter, RollbackFollowsFault, NothingDeletes, RecordThere, NoRollback,
     Writing, Accepted, Acknowledged, NoRequest

(* An accepted task keeps its record, with any number of clients that send *)
(* the same task before, during or after, as long as one call failed at    *)
(* most, nobody cleared the tables and no two handlers wrote the task at   *)
(* the same time: the rollback of create_task_v2 takes away no record but  *)
(* the one its own request wrote.                                          *)
THEOREM AcceptedRecordsStay == Spec => []AcceptedKeepsRecord
<1>1. Init => KeptInv
  BY InitKept
<1>2. KeptInv => AcceptedKeepsRecord
  BY DEF KeptInv, AcceptedKeepsRecord, Gentle, RecordThere, Acknowledged
<1> QED BY <1>1, <1>2, TypeInit, TypeStep, StepKeeps, PTL DEF Spec

(***************************************************************************)
(* While calls succeed                                                     *)
(***************************************************************************)
(* No call is late, nothing is deleted, lists are only cleaned up, and     *)
(* what the rebalancer takes off a list is known to have been moved.       *)
Still ==
  /\ late = {} /\ janitor = {} /\ \A c \in cleanup : c.op = "remove"
  /\ \A q \in Requests : request[q].step = "new" => request[q].task = None
  /\ mover.step \in {"remove", "append"} => mover.task \in raced

(* Workers may stop or fall silent, but every call is carried out at once. *)
CallsSucceed ==
  /\ \A k : Trouble(k) => k \in {"stop", "silence"}
  /\ \A c, ok : Call(c, ok) => ok /\ Apply(c) /\ UNCHANGED late /\ UNCHANGED troubles

(* What a handler works on is fixed once it has started.                   *)
LEMMA RequestsKept ==
  ASSUME TypeInv, [Next]_vars, NEW q \in Requests, request[q].step # "new"
  PROVE  request'[q].task = request[q].task /\ request'[q].worker = request[q].worker
<1>0. request \in [Requests -> Request]
  BY DEF TypeInv, RequestType, HeldRequest
<1>1. ASSUME NEW p \in Requests, Creating(p)
      PROVE  request'[q].task = request[q].task /\ request'[q].worker = request[q].worker
  <2>1. ASSUME NEW t \in Tasks, Check(p, t)
        PROVE  request'[q] = request[q]
    <3>1. p # q /\ \E r : request' = [request EXCEPT ![p] = r]
      BY <2>1, <1>0 DEF Check, Proceed
    <3> QED BY <3>1, <1>0
  <2>2. ASSUME NEW ok \in BOOLEAN, WriteHT1(p, ok) \/ AppendHT2(p, ok) \/ Rollback(p, ok)
        PROVE  request'[q].task = request[q].task /\ request'[q].worker = request[q].worker
    <3>1. \E step, k : SetRequest(p, step, k)
      BY <2>2 DEF WriteHT1, AppendHT2, Rollback, Again
    <3> QED BY <3>1, <1>0 DEF SetRequest, Request
  <2> QED BY <1>1, <2>1, <2>2 DEF Creating
<1>2. (\A p \in Requests : ~Creating(p)) => request' = request \/ Reboot
  BY OthersLeaveRequests
<1>3. ASSUME Reboot
      PROVE  request'[q].task = request[q].task /\ request'[q].worker = request[q].worker
  BY <1>3, <1>0 DEF Reboot, Request
<1> QED BY <1>1, <1>2, <1>3

(* A task that is orderly has always been.                                 *)
LEMMA OrderlyBefore ==
  ASSUME TypeInv, Still, [Next]_vars, NEW t \in Tasks, Orderly(t)'
  PROVE  Orderly(t)
<1>1. t \notin raced
  BY HistoryGrows DEF Grows, Orderly
<1>2. ASSUME NEW q \in Requests, request[q].task = t
      PROVE  request[q].worker \in Started \cup {None}
  <2>1. request[q].step # "new"
    BY <1>2, TaskAssumption DEF Still
  <2> QED BY <1>2, <2>1, RequestsKept DEF Orderly
<1> QED BY <1>1, <1>2 DEF Orderly

LEMMA StillKept ==
  ASSUME TypeInv, CallsSucceed, Still, [Next]_vars
  PROVE  Still'
<1>n. /\ \A k : Trouble(k) => k \in {"stop", "silence"}
      /\ \A c, ok : Call(c, ok) => UNCHANGED late /\ UNCHANGED troubles
  BY DEF CallsSucceed
<1> DEFINE Tables == late' = {} /\ janitor' = {} /\ \A c \in cleanup' : c.op = "remove"
           Fresh == \A q \in Requests : request'[q].step = "new" => request'[q].task = None
           Moved == mover'.step \in {"remove", "append"} => mover'.task \in raced'
<1>g. raced \subseteq raced'
  BY HistoryGrows DEF Grows
<1>k. /\ UNCHANGED <<late, janitor, cleanup>> => Tables
      /\ UNCHANGED request => Fresh
      /\ UNCHANGED mover => Moved
  BY <1>g DEF Still
<1>q. Tables /\ Fresh /\ Moved => Still'
  BY DEF Still
<1> HIDE DEF Tables, Fresh, Moved
<1>1. ASSUME NEW q \in Requests, Creating(q) PROVE Still'
  <2>0. request \in [Requests -> Request]
    BY DEF TypeInv, RequestType, HeldRequest
  <2>1. UNCHANGED <<janitor, cleanup, mover, late>>
    BY <1>1, <1>n DEF Creating, Check, WriteHT1, AppendHT2, Rollback, tables
  <2>2. Fresh
    <3>1. ASSUME NEW u \in Tasks, Check(q, u)
          PROVE  request'[q].step # "new" /\ \A p \in Requests \ {q} : request'[p] = request[p]
      BY <3>1, <2>0 DEF Check, Proceed, Request
    <3>2. ASSUME NEW ok \in BOOLEAN, WriteHT1(q, ok) \/ AppendHT2(q, ok) \/ Rollback(q, ok)
          PROVE  request'[q].step # "new" /\ \A p \in Requests \ {q} : request'[p] = request[p]
      <4>1. \E step, k : step # "new" /\ SetRequest(q, step, k)
        BY <3>2 DEF WriteHT1, AppendHT2, Rollback, Again
      <4> QED BY <4>1, SetRequestEffect
    <3> QED BY <1>1, <3>1, <3>2 DEF Creating, Still, Fresh
  <2> QED BY <1>k, <1>q, <2>1, <2>2
<1>2. ASSUME NEW w \in Workers, Polling(w) PROVE Still'
  <2>1. UNCHANGED <<late, janitor, cleanup, request, mover>>
    BY <1>2 DEF Polling, Booted, FetchAssigned, Take, Report, ReportTimeout, RunTask, tables
  <2> QED BY <1>k, <1>q, <2>1
<1>3. ASSUME NEW w \in Workers,
             Heartbeat(w) \/ Expire(w) \/ Boot(w) \/ \E killed \in BOOLEAN : Stop(w, killed)
      PROVE  Still'
  <2>1. UNCHANGED <<late, janitor, cleanup, request, mover>>
    BY <1>3 DEF Heartbeat, Expire, Boot, Stop, tables
  <2> QED BY <1>k, <1>q, <2>1
<1>4. ASSUME NEW p \in posts, NEW ok \in BOOLEAN, Complete(p, ok) PROVE Still'
  <2>1. UNCHANGED <<janitor, late, request, mover>>
    BY <1>4, <1>n DEF Complete
  <2>2. Tables
    <3>1. \A c \in cleanup' : c \in cleanup \/ \E w : c = RemoveFrom(w, p.task)
      BY <1>4 DEF Complete
    <3> QED BY <2>1, <3>1 DEF Tables, Still, RemoveFrom
  <2> QED BY <1>k, <1>q, <2>1, <2>2
<1>5. ASSUME NEW c \in cleanup, NEW ok \in BOOLEAN, Cleanup(c, ok) PROVE Still'
  <2>1. UNCHANGED <<janitor, late, request, mover>> /\ cleanup' \subseteq cleanup
    BY <1>5, <1>n DEF Cleanup
  <2>2. Tables
    BY <2>1 DEF Tables, Still
  <2> QED BY <1>k, <1>q, <2>1, <2>2
<1>6. ASSUME NEW c \in late, Deliver(c) PROVE Still'
  BY DEF Still
<1>7. ASSUME NEW s \in Scanners, Recovering(s) PROVE Still'
  <2>1. UNCHANGED <<janitor, cleanup, late, request, mover>>
    BY <1>7, <1>n DEF Recovering, Detect, Decide, ClearWaiting, PutRecovered, RemoveOld, AppendNew,
       tables
  <2> QED BY <1>k, <1>q, <2>1
<1>8. CASE Moving
  <2>1. UNCHANGED <<janitor, cleanup, late, request>>
    BY <1>8, <1>n DEF Moving, Rebalance, MovePut, MoveRemove, MoveAppend, tables
  <2>0. mover \in Move
    BY DEF TypeInv, MoverType, HeldMove
  <2>2. Moved
    <3>1. ASSUME NEW u \in Tasks, NEW w \in Workers, Rebalance(u, w) PROVE Moved
      BY <3>1 DEF Rebalance, Moved
    <3>2. CASE MovePut
      BY <3>2, <2>0 DEF MovePut, Moved, Move
    <3>3. ASSUME NEW ok \in BOOLEAN, MoveRemove(ok) \/ MoveAppend(ok) PROVE Moved
      BY <3>3, <2>0, <1>g DEF MoveRemove, MoveAppend, Moved, Move, NoMove, Still
    <3> QED BY <1>8, <3>1, <3>2, <3>3 DEF Moving
  <2> QED BY <1>k, <1>q, <2>1, <2>2
<1>9. CASE Cleaning \/ Reboot
  BY <1>9, <1>n DEF Cleaning, ClearCompleted, ResetAll, DeleteKey, Reboot, Still
<1>10. CASE UNCHANGED vars
  <2>1. UNCHANGED <<janitor, cleanup, late, request, mover>>
    BY <1>10 DEF vars, tables
  <2> QED BY <1>k, <1>q, <2>1
<1> QED BY <1>1, <1>2, <1>3, <1>4, <1>5, <1>6, <1>7, <1>8, <1>9, <1>10 DEF Next

(***************************************************************************)
(* Results stand                                                           *)
(***************************************************************************)
(* Nothing has gone wrong: every worker runs and is heard of.              *)
Peace ==
  /\ up = Started /\ live = Started /\ known = Started /\ booting = {}
  /\ Still

(* Before HT1 is written nobody has heard of the task.                     *)
Unwritten(t) ==
  /\ \A w \in Workers : t \notin ht2[w] \cup todo[w] /\ exec[w][t].step = "idle"
  /\ \A p \in posts : p.task # t
  /\ \A s \in Scanners : scan[s].task = t => scan[s].step = "idle"
  /\ \A q \in Requests : request[q].task = t => request[q].step # "ht2"

(* The report that is under way for a task, and the recovery of one that   *)
(* has failed.                                                             *)
ReportOf(t, w) ==
  [worker |-> w, task |-> t, tries |-> exec[w][t].tries, outcome |-> exec[w][t].outcome,
   record |-> ht1[t]]
GivingUp(x, r) ==
  /\ x.reason = "task_failure" /\ r.status = "FAILURE" /\ x.step \in {"found", "put"}
  /\ x.step = "put" => /\ x.record.status = "FAILURE" /\ ~x.record.waiting
                       /\ x.record.worker = r.worker /\ x.old = None

(* Afterwards only the worker of its record has it, and has it once; it is *)
(* PENDING while it is executed and reported, and only a failure is        *)
(* recovered from.                                                         *)
Written(t) ==
  /\ ht1[t].worker \in Started /\ ~ht1[t].waiting
  /\ \A q \in Requests : request[q].task = t =>
       /\ request[q].step # "ht1"
       /\ request[q].step = "ht2" => request[q].worker = ht1[t].worker
  /\ \A w \in Workers : t \in ht2[w] \cup todo[w] => w = ht1[t].worker
  /\ \A w \in Workers : exec[w][t].step # "idle" =>
       w = ht1[t].worker /\ t \in seen[w] /\ ht1[t].status = "PENDING"
  /\ \A p \in posts : p.task = t =>
       p = ReportOf(t, p.worker) /\ exec[p.worker][t].step = "posted"
  /\ \A s \in Scanners : scan[s].task = t /\ scan[s].step # "idle" => GivingUp(scan[s], ht1[t])

Story(t) == IF ht1[t] = None THEN Unwritten(t) ELSE Written(t)
ResultInv == Only({}) => Peace /\ \A t \in Tasks : Orderly(t) => Story(t)

(* A result that is there stays.                                           *)
Stands(t) ==
  ht1[t] # None /\ ht1[t].status \in Outcomes => ht1'[t] # None /\ ht1'[t].status = ht1[t].status

(* A step that is about other tasks, or brings this one nothing new.       *)
PassesTables(t) ==
  ht1'[t] = ht1[t] /\ \A w \in Workers : t \in ht2'[w] => t \in ht2[w]
PassesRunner(t) ==
  \A w \in Workers : /\ t \in todo'[w] => t \in ht2[w] \cup todo[w]
                     /\ t \in seen[w] => t \in seen'[w]
PassesExec(t) == \A w \in Workers : exec'[w][t] = exec[w][t]
PassesPosts(t) == \A p \in posts' : p.task = t => p \in posts
PassesScan(t) ==
  \A s \in Scanners : scan'[s].task = t /\ scan'[s].step # "idle" => scan'[s] = scan[s]
PassesRequest(t) ==
  \A q \in Requests :
    request'[q].task = t /\ request'[q].step \in {"ht1", "ht2"} =>
      request'[q] = request[q] \/ (request'[q].step = "ht1" /\ ht1[t] = None)
Passes(t) ==
  /\ PassesTables(t) /\ PassesRunner(t) /\ PassesExec(t) /\ PassesPosts(t)
  /\ PassesScan(t) /\ PassesRequest(t)

(* What a step leaves alone brings nothing new.                            *)
LEMMA Unaffected ==
  ASSUME NEW t \in Tasks
  PROVE  /\ UNCHANGED tables => PassesTables(t)
         /\ UNCHANGED runner => PassesRunner(t)
         /\ UNCHANGED exec => PassesExec(t)
         /\ UNCHANGED posts => PassesPosts(t)
         /\ UNCHANGED scan => PassesScan(t)
         /\ UNCHANGED request => PassesRequest(t)
  BY DEF PassesTables, PassesRunner, PassesExec, PassesPosts, PassesScan, PassesRequest,
         tables, runner

(* Such a step keeps the story of the task.                                *)
LEMMA PassesKeeps ==
  ASSUME TypeInv, NEW t \in Tasks, Story(t), Passes(t)
  PROVE  Story(t)' /\ Stands(t)
<1>1. CASE ht1[t] = None
  <2>1. Unwritten(t)'
    BY <1>1 DEF Story, Unwritten, Passes, PassesTables, PassesRunner, PassesExec, PassesPosts,
     PassesScan, PassesRequest
  <2> QED BY <1>1, <2>1 DEF Story, Stands, Passes, PassesTables
<1>2. CASE ht1[t] # None
  <2>0. Written(t)
    BY <1>2 DEF Story
  <2>1. \A q \in Requests : request'[q].task = t =>
          /\ request'[q].step # "ht1"
          /\ request'[q].step = "ht2" => request'[q].worker = ht1'[t].worker
    BY <1>2, <2>0 DEF Written, Passes, PassesTables, PassesRequest
  <2>2. \A w \in Workers : /\ t \in ht2'[w] \cup todo'[w] => w = ht1'[t].worker
                           /\ exec'[w][t].step # "idle" =>
                                w = ht1'[t].worker /\ t \in seen'[w] /\ ht1'[t].status = "PENDING"
    BY <2>0 DEF Written, Passes, PassesTables, PassesRunner, PassesExec
  <2>3. ASSUME NEW p \in posts', p.task = t
        PROVE  p = ReportOf(t, p.worker)' /\ exec'[p.worker][t].step = "posted"
    <3>1. p \in posts /\ p.worker \in Workers
      BY <2>3 DEF Passes, PassesPosts, TypeInv, PostsType, Post
    <3>2. exec'[p.worker][t] = exec[p.worker][t] /\ ht1'[t] = ht1[t]
      BY <3>1 DEF Passes, PassesExec, PassesTables
    <3> QED BY <2>0, <2>3, <3>1, <3>2 DEF Written, ReportOf
  <2>4. \A s \in Scanners : scan'[s].task = t /\ scan'[s].step # "idle" => GivingUp(scan'[s], ht1'[t])
    BY <2>0 DEF Written, Passes, PassesScan, PassesTables
  <2>5. Written(t)'
    BY <2>0, <2>1, <2>2, <2>3, <2>4 DEF Written, Passes, PassesTables
  <2> QED BY <1>2, <2>5 DEF Story, Stands, Passes, PassesTables
<1> QED BY <1>1, <1>2

(* While nothing goes wrong every call is carried out at once.             *)
LEMMA NothingFails ==
  ASSUME TypeInv, Only({})'
  PROVE  /\ \A k : ~Trouble(k)
         /\ \A c, ok : Call(c, ok) => ok /\ Apply(c) /\ UNCHANGED late /\ UNCHANGED troubles
<1>1. ASSUME NEW k, Trouble(k) PROVE FALSE
  <2>1. k \in Troubles /\ used[k] \in Nat
    BY <1>1, TaskAssumption DEF Trouble, TypeInv, TroublesType
  <2>2. used'[k] = used[k] + 1
    BY <1>1, <2>1 DEF Trouble, TypeInv, TroublesType
  <2>3. used'[k] = 0
    BY <2>1 DEF Only
  <2> QED BY <2>1, <2>2, <2>3
<1> QED BY <1>1 DEF Call

(* The steps, one by one: createTask writes HT1 once and then HT2 once.    *)
LEMMA CreatingStory ==
  ASSUME TypeInv, KeptInv, Only({}), Only({})', Peace,
         NEW t \in Tasks, Orderly(t), Orderly(t)', Story(t), NEW q \in Requests, Creating(q)
  PROVE  Story(t)' /\ Stands(t)
<1>0. request \in [Requests -> Request] /\ used["fault"] = 0 /\ t \notin raced
  BY DEF TypeInv, RequestType, HeldRequest, Only, Troubles, Orderly
<1>n. /\ \A k : ~Trouble(k)
      /\ \A c, ok : Call(c, ok) => ok /\ Apply(c) /\ UNCHANGED late /\ UNCHANGED troubles
  BY NothingFails
<1>1. ASSUME NEW u \in Tasks, Check(q, u) PROVE Story(t)' /\ Stands(t)
  <2>1. \A p \in Requests \ {q} : request'[p] = request[p]
    BY <1>1, <1>0 DEF Check, Proceed
  <2>2. request'[q].step \in {"exists", "rejected"} \/ (request'[q].step = "ht1" /\ ht1[u] = None /\ request'[q].task = u)
    BY <1>1, <1>0, <1>n DEF Check, Proceed, Request
  <2>3. PassesRequest(t)
    BY <2>1, <2>2 DEF PassesRequest
  <2>4. Passes(t)
    BY <1>1, <2>3, Unaffected DEF Check, Passes
  <2> QED BY <2>4, PassesKeeps
<1>2. ASSUME NEW ok \in BOOLEAN, WriteHT1(q, ok) PROVE Story(t)' /\ Stands(t)
  <2> DEFINE u == request[q].task
             w == request[q].worker
  <2>0. request[q].step = "ht1" /\ u \in Tasks /\ w \in Workers
    BY <1>2 DEF WriteHT1, TypeInv, RequestType, HeldRequest
  <2>1. ht1' = [ht1 EXCEPT ![u] = NewRecord(w)] /\ UNCHANGED <<ht2, late>>
    BY <1>2, <1>n, CallFields DEF WriteHT1, Apply, Put
  <2>2. /\ \A p \in Requests \ {q} : request'[p] = request[p]
        /\ request'[q].task = u /\ request'[q].step = "ht2" /\ request'[q].worker = w
    <3>1. SetRequest(q, "ht2", 0)
      BY <1>2, <1>n DEF WriteHT1, Again
    <3> QED BY <3>1, <1>0 DEF SetRequest, Request
  <2>3. CASE t # u
    <3>1. Passes(t)
      <4>1. PassesTables(t)
        BY <2>1, <2>3 DEF PassesTables, TypeInv, TablesType
      <4>2. PassesRequest(t)
        BY <2>2, <2>3 DEF PassesRequest
      <4> QED BY <1>2, <4>1, <4>2, Unaffected DEF WriteHT1, Passes
    <3> QED BY <3>1, PassesKeeps
  <2>4. CASE t = u
    <3>1. ht1[t] = None
      BY <2>0, <2>4 DEF Story, Written
    <3>2. ht1'[t] = NewRecord(w) /\ NewRecord(w) \in Records
      BY <2>0, <2>1, <2>4 DEF NewRecord, Records, TypeInv, TablesType
    <3>3. ht1'[t] # None /\ ht1'[t].worker = w /\ ~ht1'[t].waiting
      <4>1. ht1'[t] # None
        BY <3>2, RecordsAreSafe
      <4> QED BY <3>2, <4>1 DEF NewRecord
    <3>4. w \in Started
      BY <2>0, <2>4, TaskAssumption DEF Orderly
    <3>5. \A p \in Requests \ {q} : request[p].task = t => request[p].step \notin {"ht1", "ht2"}
      BY <1>0, <2>0, <2>4 DEF KeptInv, OneWriter, Writing
    <3>6. Unwritten(t)
      BY <3>1 DEF Story
    <3>7. \A p \in Requests : request'[p].task = t =>
            request'[p].step # "ht1" /\ (request'[p].step = "ht2" => request'[p].worker = w)
      BY <2>2, <3>5
    <3>8. Written(t)'
      BY <1>2, <2>1, <3>3, <3>4, <3>6, <3>7 DEF WriteHT1, Written, Unwritten, runner
    <3> QED BY <3>1, <3>3, <3>8 DEF Story, Stands
  <2> QED BY <2>3, <2>4
<1>3. ASSUME NEW ok \in BOOLEAN, AppendHT2(q, ok) PROVE Story(t)' /\ Stands(t)
  <2> DEFINE u == request[q].task
             w == request[q].worker
  <2>0. request[q].step = "ht2" /\ u \in Tasks /\ w \in Workers
    BY <1>3 DEF AppendHT2, TypeInv, RequestType, HeldRequest
  <2>1. ht2' = [ht2 EXCEPT ![w] = @ \cup {u}] /\ UNCHANGED <<ht1, late>>
    BY <1>3, <1>n DEF AppendHT2, Apply, AppendTo
  <2>2. /\ \A p \in Requests \ {q} : request'[p] = request[p]
        /\ request'[q].task = u /\ request'[q].step = "accepted"
    BY <1>3, <1>n, SetRequestEffect DEF AppendHT2, Again
  <2>3. CASE t # u
    <3>1. Passes(t)
      <4>1. PassesTables(t)
        BY <2>1, <2>3 DEF PassesTables, TypeInv, TablesType
      <4>2. PassesRequest(t)
        BY <2>2, <2>3 DEF PassesRequest
      <4> QED BY <1>3, <4>1, <4>2, Unaffected DEF AppendHT2, Passes
    <3> QED BY <3>1, PassesKeeps
  <2>4. CASE t = u
    <3>1. ht1[t] # None /\ Written(t)
      BY <2>0, <2>4 DEF Story, Unwritten
    <3>2. w = ht1[t].worker
      BY <2>0, <2>4, <3>1 DEF Written
    <3>3. \A v \in Workers : t \in ht2'[v] \cup todo'[v] => v = ht1'[t].worker
      BY <1>3, <2>1, <3>1, <3>2 DEF AppendHT2, Written, runner, TypeInv, TablesType
    <3>4. \A p \in Requests : request'[p].task = t =>
            request'[p].step # "ht1" /\ (request'[p].step = "ht2" => request'[p].worker = ht1'[t].worker)
      BY <2>1, <2>2, <3>1 DEF Written
    <3>5. Written(t)'
      BY <1>3, <2>1, <3>1, <3>3, <3>4 DEF AppendHT2, Written, ReportOf, runner
    <3> QED BY <2>1, <3>1, <3>5 DEF Story, Stands
  <2> QED BY <2>3, <2>4
<1>4. ASSUME NEW ok \in BOOLEAN, Rollback(q, ok) PROVE FALSE
  BY <1>4, <1>0 DEF Rollback, KeptInv, RollbackFollowsFault
<1> QED BY <1>1, <1>2, <1>3, <1>4 DEF Creating

(* The worker of the record takes the task once, and reports it once.      *)
LEMMA PollingStory ==
  ASSUME TypeInv, Only({})', Peace, NEW t \in Tasks, Story(t), NEW w \in Workers, Polling(w)
  PROVE  Story(t)' /\ Stands(t)
<1>0. /\ todo \in [Workers -> SUBSET Tasks] /\ seen \in [Workers -> SUBSET Tasks]
      /\ exec \in [Workers -> [Tasks -> Execution]] /\ \A p \in posts : p.worker \in Workers
  BY DEF TypeInv, RunnerType, ExecType, PostsType, Post
<1>n. \A k : ~Trouble(k)
  BY NothingFails
<1>s. /\ \A v \in Workers : exec[v][t].step # "idle" => ht1[t] # None
      /\ (\E v \in Workers : t \in todo[v] \/ exec[v][t].step # "idle") => ht1[t] # None /\ Written(t)
  BY DEF Story, Unwritten
<1>1. ASSUME Booted(w) PROVE FALSE
  BY <1>1 DEF Booted, Peace, Still
<1>2. ASSUME FetchAssigned(w) PROVE Story(t)' /\ Stands(t)
  <2>1. Passes(t)
    <3>1. PassesRunner(t)
      BY <1>2, <1>0 DEF FetchAssigned, PassesRunner
    <3> QED BY <1>2, <3>1, Unaffected DEF FetchAssigned, Passes
  <2> QED BY <2>1, PassesKeeps
<1>3. ASSUME NEW u \in Tasks, Take(w, u) PROVE Story(t)' /\ Stands(t)
  <2>1. CASE \A v \in Workers : exec'[v][t] = exec[v][t]
    <3>1. \A v \in Workers : todo'[v] \subseteq todo[v] /\ seen[v] \subseteq seen'[v]
      BY <1>3, <1>0 DEF Take
    <3>2. Passes(t)
      <4>1. PassesRunner(t) /\ PassesExec(t)
        BY <2>1, <3>1 DEF PassesRunner, PassesExec
      <4> QED BY <1>3, <4>1, Unaffected DEF Take, Passes
    <3> QED BY <3>2, PassesKeeps
  <2>2. CASE ~\A v \in Workers : exec'[v][t] = exec[v][t]
    <3>1. exec' = [exec EXCEPT ![w][u].step = "running"] /\ exec' # exec
      BY <1>3, <2>2 DEF Take
    <3>2. /\ t = u /\ ht1[u].status = "PENDING" /\ u \notin seen[w] /\ ht1[u] # None
          /\ todo' = [todo EXCEPT ![w] = @ \ {u}] /\ seen' = [seen EXCEPT ![w] = @ \cup {u}]
          /\ u \in todo[w]
      BY <1>3, <1>0, <2>2 DEF Take
    <3>3. Written(t) /\ w = ht1[t].worker
      BY <1>s, <3>2 DEF Written
    <3>4. /\ \A v \in Workers : exec'[v][t].step # "idle" => v = w
          /\ t \in seen'[w] /\ \A v \in Workers : todo'[v] \subseteq todo[v]
      BY <1>0, <3>1, <3>2, <3>3 DEF Written
    <3>5. \A p \in posts : p.task # t
      BY <1>0, <3>2, <3>3 DEF Written
    <3>6. Written(t)'
      BY <1>3, <3>2, <3>3, <3>4, <3>5 DEF Take, Written, tables
    <3> QED BY <1>3, <3>2, <3>6 DEF Take, Story, Stands, tables
  <2> QED BY <2>1, <2>2
<1>4. ASSUME NEW u \in Tasks, NEW o \in Outcomes, RunTask(w, u, o) PROVE Story(t)' /\ Stands(t)
  <2>1. CASE t # u
    <3>1. Passes(t)
      <4>1. PassesExec(t)
        BY <1>4, <1>0, <2>1 DEF RunTask, PassesExec
      <4> QED BY <1>4, <4>1, Unaffected DEF RunTask, Passes
    <3> QED BY <3>1, PassesKeeps
  <2>2. CASE t = u
    <3>1. exec[w][t].step = "running" /\ ht1[t] # None /\ Written(t)
      BY <1>4, <1>s, <2>2 DEF RunTask
    <3>2. \A v \in Workers \ {w} : exec'[v] = exec[v]
      BY <1>4, <1>0 DEF RunTask
    <3>3. \A p \in posts : p.task # t
      BY <1>0, <3>1 DEF Written
    <3>4. Written(t)'
      BY <1>4, <3>1, <3>2, <3>3 DEF RunTask, Written, tables, runner
    <3> QED BY <1>4, <3>1, <3>4 DEF RunTask, Story, Stands, tables
  <2> QED BY <2>1, <2>2
<1>5. ASSUME NEW u \in Tasks, Report(w, u) PROVE Story(t)' /\ Stands(t)
  <2>0. /\ exec[w][u].step = "report" /\ UNCHANGED <<tables, request, runner, scan>>
        /\ \E e : exec' = [exec EXCEPT ![w][u] = e]
        /\ \A p \in posts' : p \in posts \/ p.task = u
    BY <1>5 DEF Report
  <2>1. CASE t # u
    <3>1. Passes(t)
      <4>1. PassesExec(t) /\ PassesPosts(t)
        BY <1>0, <2>0, <2>1 DEF PassesExec, PassesPosts
      <4> QED BY <2>0, <4>1, Unaffected DEF Passes
    <3> QED BY <3>1, PassesKeeps
  <2>2. CASE t = u
    <3> DEFINE new == [worker |-> w, task |-> t, tries |-> exec[w][t].tries,
                       outcome |-> exec[w][t].outcome, record |-> ht1[t]]
    <3>1. ht1[t] # None /\ Written(t)
      BY <1>s, <2>0, <2>2
    <3>2. posts' = posts \cup {new} /\ exec' = [exec EXCEPT ![w][t].step = "posted"]
      BY <1>5, <1>n, <2>2, <3>1 DEF Report
    <3>3. /\ exec'[w][t].step = "posted" /\ exec'[w][t].tries = exec[w][t].tries
          /\ exec'[w][t].outcome = exec[w][t].outcome
          /\ \A v \in Workers \ {w} : exec'[v] = exec[v]
      BY <1>0, <3>2 DEF Execution
    <3>4. \A p \in posts : p.task # t
      BY <1>0, <2>0, <2>2, <3>1 DEF Written
    <3>5. \A p \in posts' : p.task = t => p = ReportOf(t, p.worker)' /\ exec'[p.worker][t].step = "posted"
      BY <2>0, <3>2, <3>3, <3>4 DEF ReportOf, tables
    <3>6. Written(t)'
      BY <2>0, <2>2, <3>1, <3>3, <3>5 DEF Written, tables, runner
    <3> QED BY <2>0, <3>1, <3>6 DEF Story, Stands, tables
  <2> QED BY <2>1, <2>2
<1>6. ASSUME NEW u \in Tasks, ReportTimeout(w, u) PROVE FALSE
  BY <1>6, <1>n DEF ReportTimeout
<1> QED BY <1>1, <1>2, <1>3, <1>4, <1>5, <1>6 DEF Polling

(* The report turns the record it read, which is still the one there, from *)
(* PENDING to its outcome.                                                 *)
LEMMA EndingStory ==
  ASSUME TypeInv, Only({})', Peace, NEW t \in Tasks, Story(t),
         \/ \E p \in posts, ok \in BOOLEAN : Complete(p, ok)
         \/ \E c \in cleanup, ok \in BOOLEAN : Cleanup(c, ok)
         \/ \E c \in late : Deliver(c)
  PROVE  Story(t)' /\ Stands(t)
<1>0. /\ exec \in [Workers -> [Tasks -> Execution]] /\ ht1 \in [Tasks -> Records \cup {None}]
      /\ ht2 \in [Workers -> SUBSET Tasks]
  BY DEF TypeInv, ExecType, TablesType
<1>n. \A c, ok : Call(c, ok) => ok /\ Apply(c) /\ UNCHANGED late /\ UNCHANGED troubles
  BY NothingFails
<1>1. ASSUME NEW p \in posts, NEW ok \in BOOLEAN, Complete(p, ok) PROVE Story(t)' /\ Stands(t)
  <2> DEFINE u == p.task
             w == p.worker
             r == [p.record EXCEPT !.status = p.outcome]
  <2>0. u \in Tasks /\ w \in Workers /\ r \in Records /\ p.record \in Records
    BY DEF TypeInv, PostsType, Post, Records, Outcomes
  <2>1. ok /\ ht1' = [ht1 EXCEPT ![u] = r] /\ UNCHANGED <<ht2, late>> /\ posts' = posts \ {p}
    BY <1>1, <1>n, CallFields DEF Complete, Apply, Put
  <2>2. exec' = IF Awaited(p) THEN [exec EXCEPT ![w][u] = Idle] ELSE exec
    BY <1>1, <2>1 DEF Complete
  <2>3. CASE t # u
    <3>1. PassesTables(t) /\ PassesExec(t) /\ PassesPosts(t)
      BY <1>0, <2>0, <2>1, <2>2, <2>3 DEF PassesTables, PassesExec, PassesPosts
    <3>2. Passes(t)
      BY <1>1, <3>1, Unaffected DEF Complete, Passes
    <3> QED BY <3>2, PassesKeeps
  <2>4. CASE t = u
    <3>1. ht1[t] # None /\ Written(t)
      BY <2>4 DEF Story, Unwritten
    <3>2. p = ReportOf(t, w) /\ exec[w][t].step = "posted"
      BY <2>4, <3>1 DEF Written
    <3>3. p.record = ht1[t] /\ p.tries = exec[w][t].tries
      BY <3>2 DEF ReportOf
    <3>4. w = ht1[t].worker /\ ht1[t].status = "PENDING"
      BY <2>0, <3>1, <3>2 DEF Written
    <3>5. ht1'[t] = r /\ r # None /\ r.worker = ht1[t].worker /\ r.waiting = ht1[t].waiting
      BY <1>0, <2>0, <2>1, <2>4, <3>3, RecordsAreSafe DEF Records
    <3>6. \A v \in Workers : exec'[v][t].step = "idle"
      <4>1. exec' = [exec EXCEPT ![w][t] = Idle]
        BY <2>2, <2>4, <3>2, <3>3 DEF Awaited
      <4>2. \A v \in Workers \ {w} : exec[v][t].step = "idle"
        BY <3>1, <3>4 DEF Written
      <4> QED BY <1>0, <4>1, <4>2 DEF Idle
    <3>7. \A x \in posts' : x.task # t
      <4> SUFFICES ASSUME NEW x \in posts, x # p, x.task = t PROVE FALSE
        BY <2>1
      <4>1. x = ReportOf(t, x.worker) /\ exec[x.worker][t].step = "posted" /\ x.worker \in Workers
        BY <3>1 DEF Written, TypeInv, PostsType, Post
      <4>2. x.worker = w
        BY <3>1, <3>4, <4>1 DEF Written
      <4> QED BY <3>2, <4>1, <4>2
    <3>8. \A s \in Scanners : scan'[s].task = t => scan'[s].step = "idle"
      BY <1>1, <3>1, <3>4 DEF Complete, Written, GivingUp
    <3>9. Written(t)'
      BY <1>1, <2>1, <3>1, <3>5, <3>6, <3>7, <3>8 DEF Complete, Written, runner
    <3> QED BY <3>4, <3>5, <3>9 DEF Story, Stands, Outcomes
  <2> QED BY <2>3, <2>4
<1>2. ASSUME NEW c \in cleanup, NEW ok \in BOOLEAN, Cleanup(c, ok) PROVE Story(t)' /\ Stands(t)
  <2>1. c.op = "remove" /\ Apply(c)
    BY <1>2, <1>n DEF Peace, Still, Cleanup
  <2>2. ht1' = ht1 /\ \A w \in Workers : ht2'[w] \subseteq ht2[w]
    BY <1>0, <2>1 DEF Apply
  <2>3. Passes(t)
    <3>1. PassesTables(t)
      BY <2>2 DEF PassesTables
    <3> QED BY <1>2, <3>1, Unaffected DEF Cleanup, Passes
  <2> QED BY <2>3, PassesKeeps
<1>3. ASSUME NEW c \in late, Deliver(c) PROVE FALSE
  BY DEF Peace, Still
<1> QED BY <1>1, <1>2, <1>3

(* A scan finds the task only after it failed, and confirms the failure.   *)
LEMMA RecoveringStory ==
  ASSUME TypeInv, Only({})', Peace, NEW t \in Tasks, Story(t), NEW s \in Scanners, Recovering(s)
  PROVE  Story(t)' /\ Stands(t)
<1>0. /\ scan \in [Scanners -> Scan] /\ ht1 \in [Tasks -> Records \cup {None}]
      /\ ht2 \in [Workers -> SUBSET Tasks]
  BY DEF TypeInv, ScanType, HeldScan, TablesType
<1>n. /\ \A k : ~Trouble(k)
      /\ \A c, ok : Call(c, ok) => ok /\ Apply(c) /\ UNCHANGED late /\ UNCHANGED troubles
  BY NothingFails
<1> DEFINE u == scan[s].task
<1>g. ASSUME scan[s].step # "idle", t = u PROVE Written(t) /\ ht1[t] # None /\ GivingUp(scan[s], ht1[t])
  BY <1>g DEF Story, Unwritten, Written
<1>s. ASSUME NEW e, scan' = [scan EXCEPT ![s] = e], e.task = t => e.step = "idle" PROVE PassesScan(t)
  BY <1>0, <1>s DEF PassesScan
<1>w. ASSUME NEW e, scan' = [scan EXCEPT ![s] = e], e.step # "idle", e.task = t,
             UNCHANGED <<tables, request, runner, exec, posts>>,
             ht1[t] # None, Written(t), GivingUp(e, ht1[t])
      PROVE  Story(t)' /\ Stands(t)
  <2>1. \A x \in Scanners : scan'[x].task = t /\ scan'[x].step # "idle" => GivingUp(scan'[x], ht1'[t])
    BY <1>0, <1>w DEF Written, tables
  <2>2. Written(t)'
    BY <1>w, <2>1 DEF Written, ReportOf, tables, runner
  <2> QED BY <1>w, <2>2 DEF Story, Stands, tables
<1>1. ASSUME NEW v \in Tasks, Detect(s, v) PROVE Story(t)' /\ Stands(t)
  <2>1. UNCHANGED <<tables, request, runner, exec, posts>>
    BY <1>1 DEF Detect
  <2>2. PICK e : /\ scan' = [scan EXCEPT ![s] = e] /\ e.task = v /\ e.step # "idle" /\ ht1[v] # None
                 /\ Orphaned(v) \/ ht1[v].waiting
                    \/ (Failed(v) /\ e.reason = "task_failure" /\ e.step = "found")
    <3>1. ASSUME NEW e, scan' = [scan EXCEPT ![s] = e], e.task = v, e.step # "idle", ht1[v] # None,
                 Orphaned(v) \/ ht1[v].waiting \/ (Failed(v) /\ e.reason = "task_failure" /\ e.step = "found")
          PROVE  \E x : /\ scan' = [scan EXCEPT ![s] = x] /\ x.task = v /\ x.step # "idle" /\ ht1[v] # None
                        /\ Orphaned(v) \/ ht1[v].waiting
                           \/ (Failed(v) /\ x.reason = "task_failure" /\ x.step = "found")
      BY <3>1
    <3> DEFINE e1 == [NoScan EXCEPT !.step = "found", !.task = v]
               e2 == [NoScan EXCEPT !.step = "found", !.task = v, !.reason = "task_failure"]
               e3 == [NoScan EXCEPT !.step = "clear", !.task = v, !.record = ht1[v]]
    <3>2. /\ e1.task = v /\ e1.step = "found" /\ e3.task = v /\ e3.step = "clear"
          /\ e2.task = v /\ e2.step = "found" /\ e2.reason = "task_failure"
      BY DEF NoScan
    <3>3. \/ Orphaned(v) /\ scan' = [scan EXCEPT ![s] = e1]
          \/ Failed(v) /\ scan' = [scan EXCEPT ![s] = e2]
          \/ ht1[v] # None /\ ht1[v].waiting /\ scan' = [scan EXCEPT ![s] = e3]
      BY <1>1 DEF Detect
    <3>4. Orphaned(v) \/ Failed(v) => ht1[v] # None
      BY DEF Orphaned, Pending, Failed
    <3> HIDE DEF e1, e2, e3
    <3>5. CASE Orphaned(v) /\ scan' = [scan EXCEPT ![s] = e1]
      BY <3>1, <3>2, <3>4, <3>5
    <3>6. CASE Failed(v) /\ scan' = [scan EXCEPT ![s] = e2]
      BY <3>1, <3>2, <3>4, <3>6
    <3>7. CASE ht1[v] # None /\ ht1[v].waiting /\ scan' = [scan EXCEPT ![s] = e3]
      BY <3>1, <3>2, <3>7
    <3> QED BY <3>3, <3>5, <3>6, <3>7
  <2>3. CASE t # v
    <3>1. Passes(t)
      BY <1>s, <2>1, <2>2, <2>3, Unaffected DEF Passes
    <3> QED BY <3>1, PassesKeeps
  <2>4. CASE t = v
    <3>1. Written(t) /\ ht1[t] # None
      BY <2>2, <2>4 DEF Story
    <3>2. ~Orphaned(t) /\ ~ht1[t].waiting
      BY <3>1 DEF Peace, Still, Written, Orphaned
    <3>3. GivingUp(e, ht1[t])
      BY <2>2, <2>4, <3>2 DEF GivingUp, Failed
    <3> QED BY <1>w, <2>1, <2>2, <2>4, <3>1, <3>3
  <2> QED BY <2>3, <2>4
<1>2. ASSUME Decide(s) PROVE Story(t)' /\ Stands(t)
  <2>1. UNCHANGED <<tables, request, runner, exec, posts>> /\ scan[s].step = "found" /\ u \in Tasks
    BY <1>2 DEF Decide, TypeInv, ScanType, HeldScan
  <2>2. CASE scan' = [scan EXCEPT ![s] = NoScan]
    <3>1. PassesScan(t)
      BY <1>s, <2>2 DEF NoScan
    <3>2. Passes(t)
      BY <2>1, <3>1, Unaffected DEF Passes
    <3> QED BY <3>2, PassesKeeps
  <2>3. CASE scan' # [scan EXCEPT ![s] = NoScan]
    <3>1. PICK r \in Recovered(ht1[u], scan[s].reason) :
            scan' = [scan EXCEPT ![s].step = "put", ![s].record = r,
                        ![s].old = IF r.status = "PENDING" /\ ~r.waiting THEN ht1[u].worker ELSE None]
      BY <1>2, <2>3 DEF Decide
    <3> DEFINE old == IF r.status = "PENDING" /\ ~r.waiting THEN ht1[u].worker ELSE None
               e == [scan[s] EXCEPT !.step = "put", !.record = r, !.old = old]
    <3>a. scan' = [scan EXCEPT ![s] = e]
      BY <1>0, <3>1
    <3> HIDE DEF old
    <3>b. e.task = u /\ e.step = "put" /\ e.reason = scan[s].reason /\ e.record = r /\ e.old = old
      BY <1>0 DEF Scan
    <3> HIDE DEF e
    <3>2. /\ scan' = [scan EXCEPT ![s] = e] /\ e.task = u /\ e.step = "put"
          /\ e.reason = scan[s].reason /\ e.record = r /\ e.old = old
      BY <3>a, <3>b
    <3> USE DEF old
    <3>3. CASE t # u
      <4>1. Passes(t)
        BY <1>s, <2>1, <3>2, <3>3, Unaffected DEF Passes
      <4> QED BY <4>1, PassesKeeps
    <3>4. CASE t = u
      <4>1. Written(t) /\ ht1[t] # None /\ GivingUp(scan[s], ht1[t])
        BY <1>g, <2>1, <3>4
      <4>2. r = [ht1[t] EXCEPT !.status = "FAILURE", !.givenUp = TRUE]
        BY <3>1, <3>4, <4>1 DEF Recovered, GiveUp, GivingUp
      <4>3. r.status = "FAILURE" /\ r.worker = ht1[t].worker /\ ~r.waiting
        BY <1>0, <4>1, <4>2 DEF Records, Written
      <4>4. GivingUp(e, ht1[t])
        BY <3>2, <4>1, <4>3 DEF GivingUp
      <4> QED BY <1>w, <2>1, <3>2, <3>4, <4>1, <4>4
    <3> QED BY <3>3, <3>4
  <2> QED BY <2>2, <2>3
<1>3. ASSUME NEW ok \in BOOLEAN, ClearWaiting(s, ok) PROVE Story(t)' /\ Stands(t)
  <2>1. scan[s].step = "clear" /\ u \in Tasks /\ t # u
    BY <1>3, <1>g DEF ClearWaiting, GivingUp, TypeInv, ScanType, HeldScan
  <2>2. PICK r : ht1' = [ht1 EXCEPT ![u] = r] /\ UNCHANGED <<ht2, late>>
    BY <1>3, <1>n, CallFields DEF ClearWaiting, Apply, Put
  <2>3. PassesTables(t)
    BY <1>0, <2>1, <2>2 DEF PassesTables
  <2>4. PassesScan(t)
    BY <1>3, <1>0, <2>1 DEF ClearWaiting, PassesScan, Scan
  <2>5. Passes(t)
    BY <1>3, <2>3, <2>4, Unaffected DEF ClearWaiting, Passes
  <2> QED BY <2>5, PassesKeeps
<1>4. ASSUME NEW ok \in BOOLEAN, PutRecovered(s, ok) PROVE Story(t)' /\ Stands(t)
  <2>1. scan[s].step = "put" /\ u \in Tasks /\ scan[s].record \in Records
    BY <1>4 DEF PutRecovered, TypeInv, ScanType, HeldScan
  <2>2. ht1' = [ht1 EXCEPT ![u] = scan[s].record] /\ UNCHANGED <<ht2, late>>
    BY <1>4, <1>n, CallFields DEF PutRecovered, Apply, Put
  <2>3. CASE t # u
    <3>1. PassesTables(t)
      BY <1>0, <2>2, <2>3 DEF PassesTables
    <3>2. PassesScan(t)
      BY <1>4, <1>0, <2>3 DEF PutRecovered, PassesScan, Scan, NoScan
    <3>3. Passes(t)
      BY <1>4, <3>1, <3>2, Unaffected DEF PutRecovered, Passes
    <3> QED BY <3>3, PassesKeeps
  <2>4. CASE t = u
    <3>1. Written(t) /\ ht1[t] # None /\ GivingUp(scan[s], ht1[t])
      BY <1>g, <2>1, <2>4
    <3>2. /\ ht1[t].status = "FAILURE" /\ ht1'[t] # None /\ ht1'[t].status = "FAILURE"
          /\ ht1'[t].worker = ht1[t].worker /\ ~ht1'[t].waiting
      BY <1>0, <2>1, <2>2, <2>4, <3>1, RecordsAreSafe DEF GivingUp
    <3>3. scan' = [scan EXCEPT ![s] = NoScan]
      BY <1>4, <2>1, <3>1 DEF PutRecovered, GivingUp
    <3>4. \A x \in Scanners : scan'[x].task = t /\ scan'[x].step # "idle" => GivingUp(scan'[x], ht1'[t])
      BY <1>0, <3>1, <3>2, <3>3 DEF Written, GivingUp, NoScan
    <3>5. /\ \A w \in Workers : exec[w][t].step = "idle"
          /\ \A p \in posts : p.task # t
      BY <3>1, <3>2 DEF Written, TypeInv, PostsType, Post
    <3>6. Written(t)'
      BY <1>4, <2>2, <3>1, <3>2, <3>4, <3>5 DEF PutRecovered, Written, runner
    <3> QED BY <3>2, <3>6 DEF Story, Stands
  <2> QED BY <2>3, <2>4
<1>5. ASSUME NEW ok \in BOOLEAN, RemoveOld(s, ok) \/ AppendNew(s, ok) PROVE Story(t)' /\ Stands(t)
  <2>1. scan[s].step \in {"remove", "append"} /\ t # u
    BY <1>5, <1>g DEF RemoveOld, AppendNew, GivingUp
  <2>2. /\ ht1' = ht1
        /\ \E w : ht2' = [ht2 EXCEPT ![w] = @ \cup {u}] \/ ht2' = [ht2 EXCEPT ![w] = @ \ {u}]
    BY <1>5, <1>n DEF RemoveOld, AppendNew, Apply, AppendTo, RemoveFrom
  <2>3. PassesTables(t)
    BY <1>0, <2>1, <2>2 DEF PassesTables
  <2>4. PassesScan(t)
    BY <1>5, <1>0, <2>1 DEF RemoveOld, AppendNew, PassesScan, Scan, NoScan
  <2>5. Passes(t)
    BY <1>5, <2>3, <2>4, Unaffected DEF RemoveOld, AppendNew, Passes
  <2> QED BY <2>5, PassesKeeps
<1> QED BY <1>1, <1>2, <1>3, <1>4, <1>5 DEF Recovering

(* Whatever the rebalancer moves is not orderly, and nobody else does any-  *)
(* thing.                                                                  *)
LEMMA OtherStory ==
  ASSUME TypeInv, Only({})', Peace, NEW t \in Tasks, Orderly(t), Orderly(t)', Story(t),
         \/ \E w \in Workers :
              Heartbeat(w) \/ Expire(w) \/ Boot(w) \/ \E killed \in BOOLEAN : Stop(w, killed)
         \/ Moving \/ Cleaning \/ Reboot \/ UNCHANGED vars
  PROVE  Story(t)' /\ Stands(t)
<1>0. ht1 \in [Tasks -> Records \cup {None}] /\ ht2 \in [Workers -> SUBSET Tasks]
  BY DEF TypeInv, TablesType
<1>n. /\ \A k : ~Trouble(k)
      /\ \A c, ok : Call(c, ok) => ok /\ Apply(c) /\ UNCHANGED late /\ UNCHANGED troubles
  BY NothingFails
<1>t. t \notin raced /\ t \notin raced'
  BY DEF Orderly
<1>1. ASSUME NEW w \in Workers,
             Heartbeat(w) \/ Expire(w) \/ Boot(w) \/ \E killed \in BOOLEAN : Stop(w, killed)
      PROVE  FALSE
  BY <1>1, <1>n DEF Heartbeat, Expire, Boot, Stop, Peace, Still
<1>2. CASE Cleaning \/ Reboot
  BY <1>2, <1>n DEF Cleaning, ClearCompleted, ResetAll, DeleteKey, Reboot, Peace, Still
<1>3. ASSUME NEW u \in Tasks, NEW w \in Workers, Rebalance(u, w) PROVE Story(t)' /\ Stands(t)
  <2>1. Passes(t)
    BY <1>3, Unaffected DEF Rebalance, Passes
  <2> QED BY <2>1, PassesKeeps
<1>4. CASE MovePut
  <2>1. PassesTables(t)
    BY <1>4, <1>0, <1>t DEF MovePut, PassesTables
  <2>2. Passes(t)
    BY <1>4, <2>1, Unaffected DEF MovePut, Passes
  <2> QED BY <2>2, PassesKeeps
<1>5. ASSUME NEW ok \in BOOLEAN, MoveRemove(ok) \/ MoveAppend(ok) PROVE Story(t)' /\ Stands(t)
  <2>1. mover.task # t
    BY <1>5, <1>t DEF MoveRemove, MoveAppend, Peace, Still
  <2>2. /\ ht1' = ht1
        /\ \E w : \/ ht2' = [ht2 EXCEPT ![w] = @ \cup {mover.task}]
                  \/ ht2' = [ht2 EXCEPT ![w] = @ \ {mover.task}]
    BY <1>5, <1>n DEF MoveRemove, MoveAppend, Apply, AppendTo, RemoveFrom
  <2>3. PassesTables(t)
    BY <1>0, <2>1, <2>2 DEF PassesTables
  <2>4. Passes(t)
    BY <1>5, <2>3, Unaffected DEF MoveRemove, MoveAppend, Passes
  <2> QED BY <2>4, PassesKeeps
<1>6. CASE UNCHANGED vars
  <2>1. Passes(t)
    BY <1>6, Unaffected DEF vars, Passes
  <2> QED BY <2>1, PassesKeeps
<1> QED BY <1>1, <1>2, <1>3, <1>4, <1>5, <1>6 DEF Moving

(* Nothing goes wrong before something is counted that does.               *)
LEMMA PeaceKept ==
  ASSUME TypeInv, Only({})', Peace, [Next]_vars
  PROVE  Peace'
<1>n. /\ \A k : ~Trouble(k)
      /\ \A c, ok : Call(c, ok) => ok /\ Apply(c) /\ UNCHANGED late /\ UNCHANGED troubles
  BY NothingFails
<1>s. Still'
  BY <1>n, StillKept DEF Peace, CallsSucceed
<1>u. UNCHANGED <<registry, up, booting>> => Peace'
  BY <1>s DEF Peace, registry
<1>1. ASSUME NEW q \in Requests, Creating(q) PROVE Peace'
  BY <1>1, <1>u DEF Creating, Check, WriteHT1, AppendHT2, Rollback, runner
<1>2. ASSUME NEW w \in Workers, Polling(w) PROVE Peace'
  BY <1>2, <1>u DEF Polling, Booted, FetchAssigned, Take, Report, ReportTimeout, RunTask, runner, Peace
<1>3. ASSUME NEW w \in Workers,
             Heartbeat(w) \/ Expire(w) \/ Boot(w) \/ \E killed \in BOOLEAN : Stop(w, killed)
      PROVE  Peace'
  BY <1>3, <1>n DEF Heartbeat, Expire, Boot, Stop, Peace
<1>4. ASSUME \/ \E p \in posts, ok \in BOOLEAN : Complete(p, ok)
             \/ \E c \in cleanup, ok \in BOOLEAN : Cleanup(c, ok)
             \/ \E c \in late : Deliver(c)
      PROVE  Peace'
  BY <1>4, <1>u DEF Complete, Cleanup, Deliver, runner
<1>5. ASSUME NEW s \in Scanners, Recovering(s) PROVE Peace'
  BY <1>5, <1>u DEF Recovering, Detect, Decide, ClearWaiting, PutRecovered, RemoveOld, AppendNew, runner
<1>6. CASE Moving
  BY <1>6, <1>u DEF Moving, Rebalance, MovePut, MoveRemove, MoveAppend, runner
<1>7. CASE Cleaning \/ Reboot
  BY <1>7, <1>n DEF Cleaning, ClearCompleted, ResetAll, DeleteKey, Reboot, Peace, Still
<1>8. CASE UNCHANGED vars
  BY <1>8, <1>u DEF vars, runner
<1> QED BY <1>1, <1>2, <1>3, <1>4, <1>5, <1>6, <1>7, <1>8 DEF Next

(* While nothing goes wrong, a step keeps the story of an orderly task.    *)
LEMMA PeacefulStep ==
  ASSUME TypeInv, TypeInv', KeptInv, ResultInv, [Next]_vars, Only({})'
  PROVE  /\ Peace'
         /\ \A t \in Tasks : Orderly(t)' => Story(t)' /\ Stands(t)
<1>1. Only({})
  BY HistoryGrows DEF Grows, Only, TypeInv, TroublesType
<1>2. Peace /\ \A t \in Tasks : Orderly(t) => Story(t)
  BY <1>1 DEF ResultInv
<1>3. ASSUME NEW t \in Tasks, Orderly(t)' PROVE Story(t)' /\ Stands(t)
  <2>1. Orderly(t) /\ Story(t)
    BY <1>2, <1>3, OrderlyBefore DEF Peace
  <2> QED BY <1>1, <1>2, <1>3, <2>1, CreatingStory, PollingStory, EndingStory, RecoveringStory,
             OtherStory DEF Next
<1> QED BY <1>2, <1>3, PeaceKept

(* While no call fails, no worker stops and nothing is restarted or        *)
(* cleared, the result of a task is never overwritten, for any number of   *)
(* tasks, workers, requests and recoveries: a repeated request finds the   *)
(* record, a task is executed by the worker of its record once and         *)
(* reported once, and recovery only marks a failure as final               *)
(* (create_task_v2, task_runner.py, result_complete, recovery.py).         *)
THEOREM ResultsStand == Spec => ResultStands
<1>1. Init => ResultInv
  <2> SUFFICES ASSUME Init PROVE Peace /\ \A t \in Tasks : Story(t)
    BY DEF ResultInv
  <2>1. Peace
    BY DEF Init, Peace, Still, NoRequest, NoMove
  <2>2. ASSUME NEW t \in Tasks PROVE Story(t)
    BY DEF Init, Story, Unwritten, Idle, NoScan, NoRequest
  <2> QED BY <2>1, <2>2
<1>2. TypeInv /\ TypeInv' /\ KeptInv /\ ResultInv /\ [Next]_vars => ResultInv'
  BY PeacefulStep DEF ResultInv
<1>3. TypeInv /\ TypeInv' /\ KeptInv /\ ResultInv /\ [Next]_vars =>
        [\A t \in Tasks :
           Orderly(t)' /\ Only({})' /\ ht1[t] # None /\ ht1[t].status \in Outcomes
             => ht1'[t] # None /\ ht1'[t].status = ht1[t].status]_vars
  BY PeacefulStep DEF Stands
<1>4. Init => KeptInv
  BY InitKept
<1> QED BY <1>1, <1>2, <1>3, <1>4, TypeInit, TypeStep, StepKeeps, PTL DEF Spec, ResultStands

(***************************************************************************)
(* No task is forgotten                                                    *)
(***************************************************************************)
(* The scans do not overlap, and no worker is the only one at first.       *)
OneScan == \A s, x \in Scanners : s = x
TwoStarted == \E v, w \in Started : v # w

(* At most the worker v is in trouble, and only it dies or falls silent.   *)
Staff(v) ==
  /\ up \subseteq Started /\ live \subseteq Started /\ known \subseteq Started
  /\ Started \ {v} \subseteq up \cap live /\ booting = {}
(* A worker has heard of the task; if it runs, it or a report is at it.    *)
Knows(w, t) == t \in ht2[w] \cup todo[w] \cup seen[w] \/ exec[w][t].step # "idle"
HasIt(w, t) ==
  w \in up => \/ t \in ht2[w] \ seen[w] \/ exec[w][t].step # "idle"
              \/ \E p \in posts : p.task = t

(* What a recovery of the task is doing.                                   *)
ScansOf(t) == {s \in Scanners : scan[s].task = t /\ scan[s].step # "idle"}
Handing(t) == {s \in ScansOf(t) : scan[s].step \in {"remove", "append"}}
GivesUp(x) == x.record.status = "FAILURE" /\ ~x.record.waiting /\ x.old = None
HandsOver(x, v) ==
  /\ x.record.status = "PENDING" /\ ~x.record.waiting /\ x.record.worker \in Started \ {v}
  /\ x.old = v

(* Before HT1 is written nobody has heard of the task.                     *)
Unheard(t) ==
  /\ \A w \in Workers : ~Knows(w, t) /\ RemoveFrom(w, t) \notin cleanup
  /\ \A p \in posts : p.task # t
  /\ ScansOf(t) = {}
  /\ \A q \in Requests : request[q].task = t => request[q].step \notin {"ht2", "accepted"}

(* Then only the worker chosen by createTask has it; it is recovered from  *)
(* that worker when it is the one in trouble, once.                        *)
Recovers(x, w, v) ==
  /\ x.step \in {"found", "put"}
  /\ x.reason = "worker_crash" => w = v
  /\ x.step = "put" => \/ GivesUp(x) /\ x.record.worker = w
                       \/ HandsOver(x, v) /\ w = v
Given(t, w, v) ==
  /\ ht1[t].worker = w /\ w \in Started /\ ~ht1[t].waiting
  /\ \A q \in Requests : request[q].task = t =>
       /\ request[q].step # "ht1"
       /\ request[q].step = "ht2" =>
            request[q].worker = w /\ \A x \in Workers : ~Knows(x, t)
  /\ \A x \in Workers : /\ Knows(x, t) => x = w
                        /\ RemoveFrom(x, t) \in cleanup => x = w /\ ~Pending(t)
  /\ \A p \in posts : p.task = t => p.record.worker = w /\ ~p.record.waiting
  /\ \A s \in ScansOf(t) : Recovers(scan[s], w, v)
  /\ Pending(t) /\ (\A q \in Requests : request[q].task = t => request[q].step # "ht2")
       => HasIt(w, t)

(* Then only that one and the new worker w have it, PENDING for w only.    *)
Confirms(x, w, v) ==
  /\ x.step \in {"found", "put"} /\ x.reason = "task_failure"
  /\ x.step = "put" => GivesUp(x) /\ x.record.worker \in {v, w}
Handed(t, w, v) ==
  /\ ht1[t].worker \in {v, w} /\ ~ht1[t].waiting
  /\ Pending(t) => ht1[t].worker = w
  /\ \A q \in Requests : request[q].task = t => request[q].step \notin {"ht1", "ht2"}
  /\ \A x \in Workers : Knows(x, t) => x \in {v, w}
  /\ RemoveFrom(w, t) \in cleanup => ~Pending(t)
  /\ \A p \in posts : p.task = t => p.record.worker \in {v, w} /\ ~p.record.waiting
  /\ \A s \in Handing(t) : /\ scan[s].record.worker = w /\ scan[s].old = v /\ ~Knows(w, t)
                           /\ scan[s].step = "append" => t \notin ht2[v]
  /\ \A s \in ScansOf(t) \ Handing(t) : Confirms(scan[s], w, v)
  /\ Handing(t) = {} => t \notin ht2[v] /\ (Pending(t) => HasIt(w, t))

Care(t, v) ==
  IF ht1[t] = None THEN Unheard(t)
  ELSE \/ \E w \in Workers : Given(t, w, v)
       \/ \E w \in Started \ {v} : Handed(t, w, v)
CaredFor(v) == Staff(v) /\ \A t \in Tasks : Orderly(t) => Care(t, v)
CareInv ==
  OneTrouble => /\ Still
                /\ \E v \in Started : CaredFor(v)
                /\ left = MaxTroubles => \A v \in Started : CaredFor(v)

(* A step that is about other tasks, or lets this one's worker go on.      *)
KeepsHolders(t) ==
  \A w \in Workers :
    /\ Knows(w, t)' => Knows(w, t)
    /\ t \in ht2'[w] => t \in ht2[w]
    /\ Pending(t) /\ RemoveFrom(w, t) \notin cleanup /\ HasIt(w, t) => HasIt(w, t)'
KeepsCleanup(t) ==
  \A w \in Workers : RemoveFrom(w, t) \in cleanup' => RemoveFrom(w, t) \in cleanup
KeepsPosts(t) ==
  \A p \in posts' : p.task = t =>
    \/ ht1[t] # None /\ p.record = ht1[t]
    \/ \E x \in posts : x.task = t /\ x.record = p.record
KeepsScans(t) == ScansOf(t)' = ScansOf(t) /\ \A s \in ScansOf(t) : scan'[s] = scan[s]
KeepsRequests(t) ==
  \A q \in Requests :
    /\ request'[q].task = t /\ request'[q].step \in {"ht1", "ht2", "accepted"} =>
         request'[q] = request[q] \/ (request'[q].step = "ht1" /\ ht1[t] = None)
    /\ request[q].task = t /\ request[q].step = "ht2" => request'[q] = request[q]
GoesOn(t) ==
  /\ ht1'[t] = ht1[t]
  /\ KeepsHolders(t) /\ KeepsCleanup(t) /\ KeepsPosts(t) /\ KeepsScans(t) /\ KeepsRequests(t)

(* What goes on is not yet heard of, if it was not.                        *)
LEMMA GoesOnKeepsUnheard ==
  ASSUME NEW t \in Tasks, ht1[t] = None, Unheard(t), GoesOn(t)
  PROVE  Unheard(t)'
<1>1. \A w \in Workers : ~Knows(w, t)' /\ RemoveFrom(w, t) \notin cleanup'
  BY DEF Unheard, GoesOn, KeepsHolders, KeepsCleanup
<1>2. \A p \in posts' : p.task # t
  BY DEF Unheard, GoesOn, KeepsPosts
<1>3. ScansOf(t)' = {}
  BY DEF Unheard, GoesOn, KeepsScans
<1>4. \A q \in Requests : request'[q].task = t => request'[q].step \notin {"ht2", "accepted"}
  BY DEF Unheard, GoesOn, KeepsRequests
<1> QED BY <1>1, <1>2, <1>3, <1>4 DEF Unheard, RemoveFrom

(* A task that was given stays given.                                      *)
LEMMA GoesOnKeepsGiven ==
  ASSUME NEW t \in Tasks, NEW v, NEW w \in Workers, ht1[t] # None, Given(t, w, v), GoesOn(t)
  PROVE  Given(t, w, v)'
<1>1. ht1'[t].worker = w /\ w \in Started /\ ~ht1'[t].waiting /\ Pending(t)' = Pending(t)
  BY DEF Given, GoesOn, Pending
<1>2. ASSUME NEW q \in Requests, request'[q].task = t
      PROVE  /\ request'[q].step # "ht1"
             /\ request'[q].step = "ht2" =>
                  request'[q].worker = w /\ \A x \in Workers : ~Knows(x, t)'
  BY <1>2 DEF Given, GoesOn, KeepsRequests, KeepsHolders
<1>3. \A x \in Workers : /\ Knows(x, t)' => x = w
                         /\ RemoveFrom(x, t) \in cleanup' => x = w /\ ~Pending(t)'
  BY <1>1 DEF Given, GoesOn, KeepsHolders, KeepsCleanup
<1>4. \A p \in posts' : p.task = t => p.record.worker = w /\ ~p.record.waiting
  BY DEF Given, GoesOn, KeepsPosts
<1>5. \A s \in ScansOf(t)' : Recovers(scan[s], w, v)'
  BY DEF Given, GoesOn, KeepsScans, Recovers, GivesUp, HandsOver
<1>6. ASSUME Pending(t)', \A q \in Requests : request'[q].task = t => request'[q].step # "ht2"
      PROVE  HasIt(w, t)'
  <2>1. \A q \in Requests : request[q].task = t => request[q].step # "ht2"
    BY <1>6 DEF GoesOn, KeepsRequests
  <2>2. HasIt(w, t) /\ RemoveFrom(w, t) \notin cleanup /\ Pending(t)
    BY <1>1, <1>6, <2>1 DEF Given
  <2> QED BY <2>2 DEF GoesOn, KeepsHolders
<1> QED BY <1>1, <1>2, <1>3, <1>4, <1>5, <1>6 DEF Given, RemoveFrom

(* A task that was handed over stays handed over.                          *)
LEMMA GoesOnKeepsHanded ==
  ASSUME NEW t \in Tasks, NEW v \in Workers, NEW w \in Workers, ht1[t] # None,
         Handed(t, w, v), GoesOn(t)
  PROVE  Handed(t, w, v)'
<1>1. /\ ht1'[t].worker \in {v, w} /\ ~ht1'[t].waiting /\ Pending(t)' = Pending(t)
      /\ Pending(t)' => ht1'[t].worker = w
  BY DEF Handed, GoesOn, Pending
<1>2. \A q \in Requests : request'[q].task = t => request'[q].step \notin {"ht1", "ht2"}
  BY DEF Handed, GoesOn, KeepsRequests
<1>3. /\ \A x \in Workers : Knows(x, t)' => x \in {v, w}
      /\ RemoveFrom(w, t) \in cleanup' => ~Pending(t)'
  BY <1>1 DEF Handed, GoesOn, KeepsHolders, KeepsCleanup
<1>4. \A p \in posts' : p.task = t => p.record.worker \in {v, w} /\ ~p.record.waiting
  BY DEF Handed, GoesOn, KeepsPosts
<1>5. ScansOf(t)' = ScansOf(t) /\ Handing(t)' = Handing(t) /\ \A s \in ScansOf(t) : scan'[s] = scan[s]
  BY DEF GoesOn, KeepsScans, Handing
<1>6. \A s \in Handing(t)' : /\ scan'[s].record.worker = w /\ scan'[s].old = v /\ ~Knows(w, t)'
                             /\ scan'[s].step = "append" => t \notin ht2'[v]
  BY <1>5 DEF Handed, GoesOn, KeepsHolders, Handing
<1>7. \A s \in (ScansOf(t) \ Handing(t))' : Confirms(scan[s], w, v)'
  BY <1>5 DEF Handed, Confirms, GivesUp
<1>8. Handing(t)' = {} => t \notin ht2'[v] /\ (Pending(t)' => HasIt(w, t)')
  BY <1>1, <1>5 DEF Handed, GoesOn, KeepsHolders
<1> QED BY <1>1, <1>2, <1>3, <1>4, <1>6, <1>7, <1>8 DEF Handed, RemoveFrom

(* Such a step keeps the care for the task.                                *)
LEMMA GoesOnKeeps ==
  ASSUME TypeInv, NEW t \in Tasks, NEW v \in Started, Care(t, v), GoesOn(t)
  PROVE  Care(t, v)'
<1>0. Started \subseteq Workers /\ ht1'[t] = ht1[t]
  BY TaskAssumption DEF GoesOn
<1>1. CASE ht1[t] = None
  BY <1>0, <1>1, GoesOnKeepsUnheard DEF Care
<1>2. CASE ht1[t] # None
  BY <1>0, <1>2, GoesOnKeepsGiven, GoesOnKeepsHanded DEF Care
<1> QED BY <1>1, <1>2

(* What a step leaves alone goes on.                                       *)
SameLists(t) == \A w \in Workers : t \in ht2'[w] <=> t \in ht2[w]
LEMMA Spared ==
  ASSUME NEW t \in Tasks
  PROVE  /\ UNCHANGED tables => ht1'[t] = ht1[t] /\ SameLists(t)
         /\ SameLists(t) /\ ht1'[t] = ht1[t] /\ UNCHANGED <<runner, exec, posts>> => KeepsHolders(t)
         /\ UNCHANGED cleanup => KeepsCleanup(t)
         /\ UNCHANGED posts => KeepsPosts(t)
         /\ UNCHANGED scan => KeepsScans(t)
         /\ UNCHANGED request => KeepsRequests(t)
<1>1. UNCHANGED tables => ht1'[t] = ht1[t] /\ SameLists(t)
  BY DEF tables, SameLists
<1>2. SameLists(t) /\ ht1'[t] = ht1[t] /\ UNCHANGED <<runner, exec, posts>> => KeepsHolders(t)
  BY DEF SameLists, runner, KeepsHolders, Knows, HasIt
<1>3. /\ UNCHANGED cleanup => KeepsCleanup(t)
      /\ UNCHANGED posts => KeepsPosts(t)
      /\ UNCHANGED scan => KeepsScans(t)
      /\ UNCHANGED request => KeepsRequests(t)
  BY DEF KeepsCleanup, KeepsPosts, KeepsScans, KeepsRequests, ScansOf
<1> QED BY <1>1, <1>2, <1>3

(* With one trouble, a stop or a silence, every call is carried out.       *)
LEMMA OneTroubleOnly ==
  ASSUME TypeInv, OneTrouble'
  PROVE  /\ \A k : Trouble(k) => k \in {"stop", "silence"} /\ left = MaxTroubles
         /\ CallsSucceed
<1>1. ASSUME NEW k, Trouble(k) PROVE k \in {"stop", "silence"} /\ left = MaxTroubles
  <2>1. k \in Troubles /\ used[k] \in Nat
    BY <1>1, TaskAssumption DEF Trouble, TypeInv, TroublesType
  <2>2. used'[k] = used[k] + 1
    BY <1>1, <2>1 DEF Trouble, TypeInv, TroublesType
  <2>3. k \in {"stop", "silence"}
    BY <2>1, <2>2 DEF OneTrouble, Only
  <2>4. left = MaxTroubles
    BY <1>1, TaskAssumption DEF Trouble, OneTrouble, TypeInv, TroublesType
  <2> QED BY <2>3, <2>4
<1> QED BY <1>1 DEF Call, CallsSucceed

(* Only a step that counts a trouble changes the count.                    *)
LEMMA CountedSteps == [Next]_vars => UNCHANGED troubles \/ \E k : Trouble(k)
<1>1. UNCHANGED vars => UNCHANGED troubles
  BY DEF vars
<1>2. ASSUME NEW q \in Requests, Creating(q) PROVE UNCHANGED troubles \/ \E k : Trouble(k)
  BY <1>2 DEF Creating, Check, WriteHT1, AppendHT2, Rollback, Call
<1>3. ASSUME NEW w \in Workers, Polling(w) PROVE UNCHANGED troubles \/ \E k : Trouble(k)
  BY <1>3 DEF Polling, Booted, FetchAssigned, Take, Report, ReportTimeout, RunTask
<1>4. ASSUME NEW w \in Workers,
             Heartbeat(w) \/ Expire(w) \/ Boot(w) \/ \E killed \in BOOLEAN : Stop(w, killed)
      PROVE  UNCHANGED troubles \/ \E k : Trouble(k)
  BY <1>4 DEF Heartbeat, Expire, Boot, Stop
<1>5. ASSUME \/ \E p \in posts, ok \in BOOLEAN : Complete(p, ok)
             \/ \E c \in cleanup, ok \in BOOLEAN : Cleanup(c, ok)
             \/ \E c \in late : Deliver(c)
      PROVE  UNCHANGED troubles \/ \E k : Trouble(k)
  BY <1>5 DEF Complete, Cleanup, Deliver, Call
<1>6. ASSUME NEW s \in Scanners, Recovering(s) PROVE UNCHANGED troubles \/ \E k : Trouble(k)
  BY <1>6 DEF Recovering, Detect, Decide, ClearWaiting, PutRecovered, RemoveOld, AppendNew, Call
<1>7. Moving => UNCHANGED troubles \/ \E k : Trouble(k)
  BY DEF Moving, Rebalance, MovePut, MoveRemove, MoveAppend, Call
<1>8. Cleaning \/ Reboot => UNCHANGED troubles \/ \E k : Trouble(k)
  BY DEF Cleaning, ClearCompleted, ResetAll, DeleteKey, Reboot
<1> QED BY <1>1, <1>2, <1>3, <1>4, <1>5, <1>6, <1>7, <1>8 DEF Next

(* Troubles are counted up: with one at most now, there was one at most    *)
(* before.                                                                 *)
LEMMA OneTroubleBefore ==
  ASSUME TypeInv, TypeInv', [Next]_vars, OneTrouble'
  PROVE  OneTrouble /\ left' <= left
<1>1. left' <= left
  BY CountedSteps DEF troubles, Trouble, TypeInv, TroublesType
<1>2. Only({"stop", "silence"})
  BY HistoryGrows DEF Grows, OneTrouble, Only, TypeInv, TroublesType
<1> QED BY <1>1, <1>2, TaskAssumption DEF OneTrouble, TypeInv, TroublesType

(* createTask writes HT1 once and then HT2 once.                           *)
LEMMA CreatingCare ==
  ASSUME TypeInv, KeptInv, OneTrouble, OneTrouble', Still, NEW v \in Started,
         NEW t \in Tasks, Orderly(t), Orderly(t)', Care(t, v), NEW q \in Requests, Creating(q)
  PROVE  Care(t, v)'
<1>0. /\ request \in [Requests -> Request] /\ used["fault"] = 0 /\ t \notin raced
      /\ ht1 \in [Tasks -> Records \cup {None}] /\ ht2 \in [Workers -> SUBSET Tasks]
  BY DEF TypeInv, TablesType, RequestType, HeldRequest, OneTrouble, Only, Troubles, Orderly
<1>n. /\ \A k : Trouble(k) => k \in {"stop", "silence"}
      /\ \A c, ok : Call(c, ok) => ok /\ Apply(c) /\ UNCHANGED late /\ UNCHANGED troubles
  BY OneTroubleOnly DEF CallsSucceed
<1>1. ASSUME NEW u \in Tasks, Check(q, u) PROVE Care(t, v)'
  <2>1. request[q].step = "new" /\ request[q].task # t /\ \A p \in Requests \ {q} : request'[p] = request[p]
    BY <1>1, <1>0, TaskAssumption DEF Check, Proceed, Still
  <2>2. \/ request'[q].step \in {"exists", "rejected"}
        \/ request'[q].step = "ht1" /\ ht1[u] = None /\ request'[q].task = u
    BY <1>1, <1>0, <1>n DEF Check, Proceed, Request
  <2>3. KeepsRequests(t)
    BY <2>1, <2>2 DEF KeepsRequests
  <2>4. GoesOn(t)
    BY <1>1, <2>3, Spared DEF Check, GoesOn
  <2> QED BY <2>4, GoesOnKeeps
<1>2. ASSUME NEW ok \in BOOLEAN, WriteHT1(q, ok) PROVE Care(t, v)'
  <2>0. PICK u \in Tasks, w \in Workers :
          request[q].step = "ht1" /\ request[q].task = u /\ request[q].worker = w
    BY <1>2 DEF WriteHT1, TypeInv, RequestType, HeldRequest
  <2>1. ht1' = [ht1 EXCEPT ![u] = NewRecord(w)] /\ UNCHANGED <<ht2, late>>
    BY <1>2, <1>n, <2>0, CallFields DEF WriteHT1, Apply, Put
  <2>2. /\ \A p \in Requests \ {q} : request'[p] = request[p]
        /\ request'[q].task = u /\ request'[q].step = "ht2" /\ request'[q].worker = w
    <3>1. SetRequest(q, "ht2", 0)
      BY <1>2, <1>n DEF WriteHT1, Again
    <3> QED BY <3>1, <1>0, <2>0 DEF SetRequest, Request
  <2>3. CASE t # u
    <3>1. ht1'[t] = ht1[t] /\ SameLists(t)
      BY <1>0, <2>1, <2>3 DEF SameLists
    <3>2. KeepsRequests(t)
      BY <2>0, <2>2, <2>3 DEF KeepsRequests
    <3>3. GoesOn(t)
      BY <1>2, <3>1, <3>2, Spared DEF WriteHT1, GoesOn
    <3> QED BY <3>3, GoesOnKeeps
  <2>4. CASE t = u
    <3>1. ht1[t] = None /\ Unheard(t)
      BY <2>0, <2>4 DEF Care, Given, Handed
    <3>2. ht1'[t] = NewRecord(w) /\ NewRecord(w) \in Records
      BY <1>0, <2>0, <2>1, <2>4, TaskAssumption DEF NewRecord, Records
    <3>3. ht1'[t] # None /\ ht1'[t].worker = w /\ ~ht1'[t].waiting
      <4>1. ht1'[t] # None
        BY <3>2, RecordsAreSafe
      <4> QED BY <3>2, <4>1 DEF NewRecord
    <3>4. w \in Started
      BY <2>0, <2>4, TaskAssumption DEF Orderly
    <3>5. \A p \in Requests \ {q} : request[p].task = t => request[p].step \notin {"ht1", "ht2"}
      BY <1>0, <2>0, <2>4 DEF KeptInv, OneWriter, Writing
    <3>6. \A x \in Workers : Knows(x, t)' = Knows(x, t)
      BY <1>2, <2>1 DEF WriteHT1, Knows, runner
    <3>7. \A p \in Requests : request'[p].task = t =>
            /\ request'[p].step # "ht1"
            /\ request'[p].step = "ht2" => request'[p].worker = w /\ \A x \in Workers : ~Knows(x, t)'
      BY <2>2, <3>1, <3>5, <3>6 DEF Unheard
    <3>8. ~\A p \in Requests : request'[p].task = t => request'[p].step # "ht2"
      BY <2>2, <2>4
    <3>9. ScansOf(t)' = {} /\ cleanup' = cleanup /\ posts' = posts
      BY <1>2, <3>1 DEF WriteHT1, Unheard, ScansOf
    <3>10. Given(t, w, v)'
      BY <3>1, <3>3, <3>4, <3>6, <3>7, <3>8, <3>9 DEF Given, Unheard, RemoveFrom
    <3> QED BY <2>0, <3>3, <3>10 DEF Care
  <2> QED BY <2>3, <2>4
<1>3. ASSUME NEW ok \in BOOLEAN, AppendHT2(q, ok) PROVE Care(t, v)'
  <2>0. PICK u \in Tasks, w \in Workers :
          request[q].step = "ht2" /\ request[q].task = u /\ request[q].worker = w
    BY <1>3 DEF AppendHT2, TypeInv, RequestType, HeldRequest
  <2>1. ht2' = [ht2 EXCEPT ![w] = @ \cup {u}] /\ UNCHANGED <<ht1, late>>
    BY <1>3, <1>n, <2>0 DEF AppendHT2, Apply, AppendTo
  <2>2. /\ \A p \in Requests \ {q} : request'[p] = request[p]
        /\ request'[q].task = u /\ request'[q].step = "accepted"
    BY <1>3, <1>n, <2>0, SetRequestEffect DEF AppendHT2, Again
  <2>3. CASE t # u
    <3>1. ht1'[t] = ht1[t] /\ SameLists(t)
      BY <1>0, <2>1, <2>3 DEF SameLists
    <3>2. KeepsRequests(t)
      BY <2>0, <2>2, <2>3 DEF KeepsRequests
    <3>3. GoesOn(t)
      BY <1>3, <3>1, <3>2, Spared DEF AppendHT2, GoesOn
    <3> QED BY <3>3, GoesOnKeeps
  <2>4. CASE t = u
    <3>1. ht1[t] # None /\ ~\E x \in Started \ {v} : Handed(t, x, v)
      BY <2>0, <2>4 DEF Care, Unheard, Handed
    <3>2. Given(t, w, v) /\ \A x \in Workers : ~Knows(x, t)
      <4>1. PICK x \in Workers : Given(t, x, v)
        BY <3>1 DEF Care
      <4> QED BY <2>0, <2>4, <4>1 DEF Given
    <3>3. \A x \in Workers : Knows(x, t)' => x = w
      BY <1>0, <1>3, <2>1, <3>2 DEF AppendHT2, Knows, runner
    <3>4. HasIt(w, t)'
      BY <1>0, <1>3, <2>0, <2>1, <2>4, <3>2 DEF AppendHT2, Knows, HasIt, runner
    <3>5. \A p \in Requests \ {q} : request[p].task = t => request[p].step \notin {"ht1", "ht2"}
      BY <1>0, <2>0, <2>4 DEF KeptInv, OneWriter, Writing
    <3>6. \A p \in Requests : request'[p].task = t => request'[p].step \notin {"ht1", "ht2"}
      BY <2>2, <3>5
    <3>7. ScansOf(t)' = ScansOf(t) /\ UNCHANGED <<scan, cleanup, posts, ht1>>
      BY <1>3, <2>1 DEF AppendHT2, ScansOf
    <3>8. Given(t, w, v)'
      BY <3>2, <3>3, <3>4, <3>6, <3>7 DEF Given, Pending, Recovers, GivesUp, HandsOver, RemoveFrom
    <3> QED BY <2>0, <3>1, <3>7, <3>8 DEF Care
  <2> QED BY <2>3, <2>4
<1>4. ASSUME NEW ok \in BOOLEAN, Rollback(q, ok) PROVE FALSE
  BY <1>4, <1>0 DEF Rollback, KeptInv, RollbackFollowsFault
<1> QED BY <1>1, <1>2, <1>3, <1>4 DEF Creating

(* A worker goes on with what it has.                                      *)
LEMMA PollingCare ==
  ASSUME TypeInv, OneTrouble', NEW v \in Started, Staff(v), NEW t \in Tasks, Care(t, v),
         NEW w \in Workers, Polling(w)
  PROVE  Care(t, v)'
<1>0. /\ todo \in [Workers -> SUBSET Tasks] /\ seen \in [Workers -> SUBSET Tasks]
      /\ exec \in [Workers -> [Tasks -> Execution]] /\ booting = {}
  BY DEF TypeInv, RunnerType, ExecType, Staff
<1>n. \A k : Trouble(k) => k \in {"stop", "silence"}
  BY OneTroubleOnly DEF CallsSucceed
<1>1. ~Booted(w)
  BY <1>0 DEF Booted
<1>u. UNCHANGED <<tables, up, cleanup, scan, request>>
  BY <1>1 DEF Polling, FetchAssigned, Take, Report, ReportTimeout, RunTask, runner
<1>h. UNCHANGED <<ht1, ht2>>
  BY <1>u DEF tables
<1>g. KeepsHolders(t) /\ KeepsPosts(t) => Care(t, v)'
  BY <1>u, Spared, GoesOnKeeps DEF GoesOn
<1>2. ASSUME FetchAssigned(w) PROVE Care(t, v)'
  <2>1. KeepsHolders(t)
    BY <1>0, <1>2, <1>h, <1>u DEF FetchAssigned, KeepsHolders, Knows, HasIt
  <2> QED BY <1>2, <1>g, <2>1, Spared DEF FetchAssigned
<1>3. ASSUME NEW u \in Tasks, Take(w, u) PROVE Care(t, v)'
  <2>0. UNCHANGED posts /\ u \in todo[w]
    BY <1>3 DEF Take
  <2>1. CASE UNCHANGED <<seen, exec>>
    <3>1. \A x \in Workers : todo'[x] \subseteq todo[x]
      BY <1>0, <1>3 DEF Take
    <3>2. KeepsHolders(t)
      BY <1>h, <1>u, <2>0, <2>1, <3>1 DEF KeepsHolders, Knows, HasIt
    <3> QED BY <1>g, <2>0, <3>2, Spared
  <2>2. CASE ~UNCHANGED <<seen, exec>>
    <3>1. /\ todo' = [todo EXCEPT ![w] = @ \ {u}] /\ seen' = [seen EXCEPT ![w] = @ \cup {u}]
          /\ exec' = IF ht1[u].status = "PENDING" /\ u \notin seen[w]
                     THEN [exec EXCEPT ![w][u].step = "running"] ELSE exec
      BY <1>0, <1>3, <2>2 DEF Take
    <3>2. \A x \in Workers : todo'[x] \subseteq todo[x] /\ (x # w => seen'[x] = seen[x] /\ exec'[x] = exec[x])
      BY <1>0, <3>1
    <3>3. CASE t # u
      <4>1. \A x \in Workers : exec'[x][t] = exec[x][t] /\ (t \in seen'[x] <=> t \in seen[x])
        BY <1>0, <3>1, <3>3
      <4>2. KeepsHolders(t)
        BY <1>h, <1>u, <2>0, <3>2, <4>1 DEF KeepsHolders, Knows, HasIt
      <4> QED BY <1>g, <2>0, <4>2, Spared
    <3>4. CASE t = u
      <4>1. Knows(w, t)
        BY <2>0, <3>4 DEF Knows
      <4>2. CASE ht1[t].status = "PENDING" /\ t \notin seen[w]
        <5>1. exec'[w][t].step = "running"
          BY <1>0, <3>1, <3>4, <4>2 DEF Execution
        <5> QED BY <1>g, <1>h, <1>u, <2>0, <3>2, <4>1, <5>1, Spared DEF KeepsHolders, Knows, HasIt
      <4>3. CASE ht1[t].status # "PENDING"
        <5>1. ~Pending(t) /\ exec' = exec
          BY <3>1, <3>4, <4>3 DEF Pending
        <5> QED BY <1>g, <1>h, <2>0, <3>2, <4>1, <5>1, Spared DEF KeepsHolders, Knows
      <4>4. CASE ht1[t].status = "PENDING" /\ t \in seen[w]
        <5>1. seen' = seen /\ exec' = exec
          BY <1>0, <3>1, <3>4, <4>4
        <5> QED BY <2>2, <5>1
      <4> QED BY <4>2, <4>3, <4>4
    <3> QED BY <3>3, <3>4
  <2> QED BY <2>1, <2>2
<1>4. ASSUME NEW u \in Tasks, NEW o \in Outcomes, RunTask(w, u, o) PROVE Care(t, v)'
  <2>1. UNCHANGED <<runner, posts>>
    BY <1>4 DEF RunTask
  <2>2. \A x \in Workers : exec'[x][t].step # "idle" <=> exec[x][t].step # "idle"
    BY <1>0, <1>4 DEF RunTask
  <2>3. KeepsHolders(t)
    BY <1>h, <2>1, <2>2 DEF KeepsHolders, Knows, HasIt, runner
  <2> QED BY <1>g, <2>1, <2>3, Spared
<1>5. ASSUME NEW u \in Tasks, Report(w, u) PROVE Care(t, v)'
  <2>1. UNCHANGED runner /\ exec[w][u].step = "report"
    BY <1>5 DEF Report
  <2>2. ASSUME ht1[u] # None, exec' = [exec EXCEPT ![w][u].step = "posted"],
               posts' = posts \cup {[worker |-> w, task |-> u, tries |-> exec[w][u].tries,
                                     outcome |-> exec[w][u].outcome, record |-> ht1[u]]}
        PROVE  Care(t, v)'
    <3>1. \A x \in Workers : exec'[x][t].step # "idle" <=> exec[x][t].step # "idle"
      BY <1>0, <2>1, <2>2 DEF Execution
    <3>2. KeepsHolders(t)
      BY <1>h, <2>1, <2>2, <3>1 DEF KeepsHolders, Knows, HasIt, runner
    <3>3. KeepsPosts(t)
      BY <2>2 DEF KeepsPosts
    <3> QED BY <1>g, <3>2, <3>3
  <2>3. ASSUME ht1[u] = None, exec' = [exec EXCEPT ![w][u] = Retried(@)], UNCHANGED posts
        PROVE  Care(t, v)'
    <3>1. \A x \in Workers : exec'[x][t].step # "idle" => exec[x][t].step # "idle"
      BY <1>0, <2>1, <2>3
    <3>2. t # u => \A x \in Workers : exec'[x][t] = exec[x][t]
      BY <1>0, <2>3
    <3>3. t = u => ~Pending(t)
      BY <2>3 DEF Pending
    <3>4. KeepsHolders(t)
      BY <1>h, <2>1, <2>3, <3>1, <3>2, <3>3 DEF KeepsHolders, Knows, HasIt, runner
    <3> QED BY <1>g, <2>3, <3>4, Spared
  <2> QED BY <1>5, <1>n, <2>2, <2>3 DEF Report
<1>6. ASSUME NEW u \in Tasks, ReportTimeout(w, u) PROVE FALSE
  BY <1>6, <1>n DEF ReportTimeout
<1> QED BY <1>1, <1>2, <1>3, <1>4, <1>5, <1>6 DEF Polling

(* A report ends the task, wherever its record names the worker.           *)
LEMMA EndingCare ==
  ASSUME TypeInv, OneTrouble', Still, NEW v \in Started, NEW t \in Tasks, Care(t, v),
         \/ \E p \in posts, ok \in BOOLEAN : Complete(p, ok)
         \/ \E c \in cleanup, ok \in BOOLEAN : Cleanup(c, ok)
         \/ \E c \in late : Deliver(c)
  PROVE  Care(t, v)'
<1>0. /\ ht1 \in [Tasks -> Records \cup {None}] /\ ht2 \in [Workers -> SUBSET Tasks]
      /\ exec \in [Workers -> [Tasks -> Execution]] /\ posts \subseteq Post
      /\ cleanup \subseteq Lists
  BY DEF TypeInv, TablesType, ExecType, PostsType, CleanupType
<1>n. \A c, ok : Call(c, ok) => ok /\ Apply(c) /\ UNCHANGED late /\ UNCHANGED troubles
  BY OneTroubleOnly DEF CallsSucceed
<1>1. ASSUME NEW c \in cleanup, NEW ok \in BOOLEAN, Cleanup(c, ok) PROVE Care(t, v)'
  <2>1. c.op = "remove" /\ c.worker \in Workers /\ c.task \in Tasks
    BY <1>0 DEF Lists, Still
  <2>2. c = RemoveFrom(c.worker, c.task)
    BY <1>0, <2>1 DEF Lists, RemoveFrom
  <2>3. ht1' = ht1 /\ ht2' = [ht2 EXCEPT ![c.worker] = @ \ {c.task}]
    BY <1>1, <1>n, <2>1 DEF Cleanup, Apply
  <2>4. ASSUME NEW x \in Workers
        PROVE  /\ t \in ht2'[x] => t \in ht2[x]
               /\ t \in ht2[x] /\ RemoveFrom(x, t) \notin cleanup => t \in ht2'[x]
    BY <1>0, <2>2, <2>3
  <2>5. KeepsHolders(t)
    BY <1>1, <2>4 DEF Cleanup, KeepsHolders, Knows, HasIt, runner
  <2>6. KeepsCleanup(t)
    BY <1>1 DEF Cleanup, KeepsCleanup
  <2> QED BY <1>1, <2>3, <2>5, <2>6, Spared, GoesOnKeeps DEF Cleanup, GoesOn
<1>2. ASSUME NEW p \in posts, NEW ok \in BOOLEAN, Complete(p, ok) PROVE Care(t, v)'
  <2>0. /\ p.task \in Tasks /\ p.worker \in Workers /\ p.outcome \in Outcomes
        /\ p.record \in Records /\ p.record # None
    BY <1>0, RecordsAreSafe DEF Post
  <2>1. /\ ht1' = [ht1 EXCEPT ![p.task] = [p.record EXCEPT !.status = p.outcome]]
        /\ UNCHANGED ht2
    BY <1>2, <1>n, CallFields DEF Complete, Apply, Put
  <2>2. posts' = posts \ {p} /\ UNCHANGED <<runner, scan, request>>
    BY <1>2 DEF Complete
  <2>r. UNCHANGED <<ht2, up, seen, todo>>
    BY <2>1, <2>2 DEF runner
  <2>3. \A c \in cleanup' : c \in cleanup \/ c = RemoveFrom(p.record.worker, p.task)
    BY <1>2 DEF Complete
  <2>4. exec' = exec \/ exec' = [exec EXCEPT ![p.worker][p.task] = Idle]
    BY <1>2, <1>n DEF Complete
  <2>5. \A x \in Workers : /\ exec'[x][t].step # "idle" => exec[x][t].step # "idle"
                           /\ t # p.task => exec'[x][t] = exec[x][t]
    BY <1>0, <2>0, <2>4 DEF Idle
  <2>6. CASE t # p.task
    <3>1. ht1'[t] = ht1[t] /\ KeepsHolders(t)
      <4>1. ht1'[t] = ht1[t]
        BY <1>0, <2>0, <2>1, <2>6
      <4>2. \A x \in Workers : Knows(x, t)' = Knows(x, t) /\ (t \in ht2'[x] <=> t \in ht2[x])
        BY <2>r, <2>5, <2>6 DEF Knows
      <4>3. (\E x \in posts : x.task = t) => \E x \in posts' : x.task = t
        BY <2>2, <2>6
      <4>4. \A x \in Workers : HasIt(x, t) => HasIt(x, t)'
        BY <2>r, <2>5, <2>6, <4>3 DEF HasIt
      <4> QED BY <4>1, <4>2, <4>4 DEF KeepsHolders
    <3>2. KeepsCleanup(t) /\ KeepsPosts(t)
      BY <2>2, <2>3, <2>6 DEF KeepsCleanup, KeepsPosts, RemoveFrom
    <3> QED BY <2>2, <3>1, <3>2, Spared, GoesOnKeeps DEF GoesOn
  <2>7. CASE t = p.task
    <3>1. /\ ht1'[t] # None /\ ht1'[t].worker = p.record.worker
          /\ ht1'[t].waiting = p.record.waiting /\ ~Pending(t)'
      <4>1. ht1'[t] = [p.record EXCEPT !.status = p.outcome] /\ ht1'[t] \in Records
        BY <1>0, <2>0, <2>1, <2>7 DEF Records, Outcomes
      <4> QED BY <2>0, <4>1, RecordsAreSafe DEF Records, Pending, Outcomes
    <3>2. /\ \A x \in Workers : Knows(x, t)' => Knows(x, t)
          /\ ScansOf(t)' = ScansOf(t) /\ Handing(t)' = Handing(t)
      <4>1. \A x \in Workers : Knows(x, t)' => Knows(x, t)
        BY <2>r, <2>5 DEF Knows
      <4>2. ScansOf(t)' = ScansOf(t) /\ Handing(t)' = Handing(t)
        BY <2>2 DEF ScansOf, Handing
      <4> QED BY <4>1, <4>2
    <3>3. \A x \in Workers : RemoveFrom(x, t) \in cleanup' =>
            RemoveFrom(x, t) \in cleanup \/ x = p.record.worker
      BY <2>3 DEF RemoveFrom
    <3>4. ht1[t] # None
      BY <2>7 DEF Care, Unheard
    <3>5. ASSUME NEW w \in Workers, Given(t, w, v) PROVE Given(t, w, v)'
      <4>1. p.record.worker = w /\ ~p.record.waiting
        BY <2>7, <3>5 DEF Given
      <4>2. /\ w \in Started /\ \A x \in posts' : x.task = t => x.record.worker = w /\ ~x.record.waiting
        BY <2>2, <3>5 DEF Given
      <4>3. \A q \in Requests : request'[q].task = t =>
              /\ request'[q].step # "ht1"
              /\ request'[q].step = "ht2" =>
                   request'[q].worker = w /\ \A x \in Workers : ~Knows(x, t)'
        BY <2>2, <3>2, <3>5 DEF Given
      <4>4. \A x \in Workers : /\ Knows(x, t)' => x = w
                               /\ RemoveFrom(x, t) \in cleanup' => x = w /\ ~Pending(t)'
        BY <3>1, <3>2, <3>3, <3>5, <4>1 DEF Given
      <4>5. \A s \in ScansOf(t)' : Recovers(scan[s], w, v)'
        BY <2>2, <3>2, <3>5 DEF Given, Recovers, GivesUp, HandsOver
      <4> QED BY <3>1, <4>1, <4>2, <4>3, <4>4, <4>5 DEF Given, RemoveFrom
    <3>6. ASSUME NEW w \in Started \ {v}, Handed(t, w, v) PROVE Handed(t, w, v)'
      <4>0. w \in Workers
        BY TaskAssumption
      <4>1. p.record.worker \in {v, w} /\ ~p.record.waiting
        BY <2>7, <3>6 DEF Handed
      <4>2. \A x \in posts' : x.task = t => x.record.worker \in {v, w} /\ ~x.record.waiting
        BY <2>2, <3>6 DEF Handed
      <4>3. /\ \A q \in Requests : request'[q].task = t => request'[q].step \notin {"ht1", "ht2"}
            /\ \A x \in Workers : Knows(x, t)' => x \in {v, w}
        BY <2>2, <3>2, <3>6 DEF Handed
      <4>4. /\ \A s \in Handing(t)' : /\ scan'[s].record.worker = w /\ scan'[s].old = v /\ ~Knows(w, t)'
                                      /\ scan'[s].step = "append" => t \notin ht2'[v]
            /\ Handing(t)' = {} => t \notin ht2'[v]
        BY <2>1, <2>2, <3>2, <3>6, <4>0 DEF Handed
      <4>5. \A s \in (ScansOf(t) \ Handing(t))' : Confirms(scan[s], w, v)'
        BY <2>2, <3>2, <3>6 DEF Handed, Confirms, GivesUp
      <4> QED BY <3>1, <4>1, <4>2, <4>3, <4>4, <4>5 DEF Handed, RemoveFrom
    <3> QED BY <3>1, <3>4, <3>5, <3>6 DEF Care
  <2> QED BY <2>6, <2>7
<1>3. ASSUME NEW c \in late, Deliver(c) PROVE FALSE
  BY <1>3 DEF Still
<1> QED BY <1>1, <1>2, <1>3

(* A recovery comes one step further with a task whose lists stay.         *)
SameButScans(t) ==
  /\ UNCHANGED <<ht2, runner, exec, posts, cleanup, request>>
  /\ ht1'[t] # None /\ ht1'[t].worker = ht1[t].worker /\ ~ht1'[t].waiting
  /\ Pending(t)' => Pending(t)

(* A scan that only moves on leaves a given task given...                  *)
LEMMA RescannedGiven ==
  ASSUME NEW t \in Tasks, NEW v, NEW w \in Workers, Given(t, w, v), SameButScans(t),
         \A s \in ScansOf(t)' : Recovers(scan'[s], w, v)
  PROVE  Given(t, w, v)'
<1>1. \A x \in Workers : Knows(x, t)' = Knows(x, t) /\ HasIt(x, t)' = HasIt(x, t)
  BY DEF SameButScans, Knows, HasIt, runner
<1>2. \A s \in ScansOf(t)' : Recovers(scan[s], w, v)'
  BY DEF Recovers, GivesUp, HandsOver
<1>3. Given(t, w, v) /\ UNCHANGED <<posts, cleanup, request>>
  BY DEF SameButScans
<1> QED BY <1>1, <1>2, <1>3 DEF Given, SameButScans, RemoveFrom

(* ... and a handed one handed.                                            *)
LEMMA RescannedHanded ==
  ASSUME NEW t \in Tasks, NEW v, NEW w \in Workers, Handed(t, w, v), SameButScans(t),
         Handing(t) = {}, Handing(t)' = {},
         \A s \in ScansOf(t)' : Confirms(scan'[s], w, v)
  PROVE  Handed(t, w, v)'
<1>1. \A x \in Workers : Knows(x, t)' = Knows(x, t) /\ HasIt(x, t)' = HasIt(x, t)
  BY DEF SameButScans, Knows, HasIt, runner
<1>2. \A s \in ScansOf(t)' : Confirms(scan[s], w, v)'
  BY DEF Confirms, GivesUp
<1>3. UNCHANGED <<ht2, posts, cleanup, request>>
  BY DEF SameButScans
<1> QED BY <1>1, <1>2, <1>3 DEF Handed, SameButScans, RemoveFrom

(* A scan that is at another task leaves those of this one alone.          *)
LEMMA ScansElsewhere ==
  ASSUME OneScan, NEW s \in Scanners, NEW t \in Tasks,
         scan[s].task # t \/ scan[s].step = "idle", scan'[s].task # t \/ scan'[s].step = "idle"
  PROVE  KeepsScans(t)
<1>1. \A x \in Scanners : x = s
  BY DEF OneScan
<1>2. ScansOf(t) = {} /\ ScansOf(t)' = {}
  BY <1>1 DEF ScansOf
<1> QED BY <1>2 DEF KeepsScans

(* The scan finds a task of the worker in trouble, or one that failed.     *)
LEMMA DetectCare ==
  ASSUME OneScan, TypeInv, NEW v \in Started, Staff(v), NEW t \in Tasks, Care(t, v),
         NEW s \in Scanners, NEW u \in Tasks, Detect(s, u)
  PROVE  Care(t, v)'
<1>0. /\ UNCHANGED <<tables, runner, exec, posts, cleanup, request>> /\ UNCHANGED <<ht1, ht2>>
      /\ scan[s].step = "idle" /\ \A x \in Scanners : x = s
  BY DEF Detect, tables, OneScan
<1>1. /\ scan'[s].task = u /\ scan'[s].step \in {"found", "clear"}
      /\ \/ Orphaned(u) /\ scan'[s].step = "found"
         \/ Failed(u) /\ scan'[s].step = "found" /\ scan'[s].reason = "task_failure"
         \/ ht1[u] # None /\ ht1[u].waiting
  <2> DEFINE e1 == [NoScan EXCEPT !.step = "found", !.task = u]
             e2 == [NoScan EXCEPT !.step = "found", !.task = u, !.reason = "task_failure"]
             e3 == [NoScan EXCEPT !.step = "clear", !.task = u, !.record = ht1[u]]
  <2>1. /\ e1.task = u /\ e1.step = "found"
        /\ e2.task = u /\ e2.step = "found" /\ e2.reason = "task_failure"
        /\ e3.task = u /\ e3.step = "clear"
    BY DEF NoScan
  <2>2. \/ Orphaned(u) /\ scan' = [scan EXCEPT ![s] = e1]
        \/ Failed(u) /\ scan' = [scan EXCEPT ![s] = e2]
        \/ ht1[u] # None /\ ht1[u].waiting /\ scan' = [scan EXCEPT ![s] = e3]
    BY DEF Detect
  <2> HIDE DEF e1, e2, e3
  <2> QED BY <2>1, <2>2 DEF TypeInv, ScanType
<1>2. CASE t # u
  <2>1. KeepsScans(t)
    BY <1>0, <1>1, <1>2, ScansElsewhere
  <2>2. GoesOn(t)
    BY <1>0, <2>1, Spared DEF GoesOn
  <2> QED BY <2>2, GoesOnKeeps
<1>3. CASE t = u
  <2>1. ht1[t] # None /\ ScansOf(t) = {} /\ ScansOf(t)' \subseteq {s}
    BY <1>0, <1>1, <1>3 DEF Orphaned, Pending, Failed, ScansOf
  <2>2. ~ht1[t].waiting
    BY <2>1 DEF Care, Given, Handed
  <2>3. SameButScans(t)
    BY <1>0, <2>1, <2>2 DEF SameButScans, Pending
  <2>4. ASSUME NEW w \in Workers, Given(t, w, v) PROVE Given(t, w, v)'
    <3>1. Orphaned(t) => w = v
      <4>1. w \in Started /\ ht1[t].worker = w /\ \A x \in Workers : t \in ht2[x] => x = w
        BY <2>4 DEF Given, Knows
      <4> QED BY <4>1 DEF Orphaned, Staff, TypeInv, RegistryType
    <3>2. \A x \in ScansOf(t)' : Recovers(scan'[x], w, v)
      BY <1>1, <1>3, <2>1, <2>2, <3>1 DEF Recovers
    <3> QED BY <2>3, <2>4, <3>2, RescannedGiven
  <2>5. ASSUME NEW w \in Started \ {v}, Handed(t, w, v) PROVE Handed(t, w, v)'
    <3>0. w \in Workers /\ Handing(t) = {} /\ Handing(t)' = {}
      BY <1>1, <2>1, TaskAssumption DEF Handing
    <3>1. ~Orphaned(t)
      <4>1. \A x \in Workers : t \in ht2[x] => x = w
        BY <2>5, <3>0 DEF Handed, Knows
      <4>2. w \in live /\ (Pending(t) => ht1[t].worker = w)
        BY <2>5 DEF Handed, Staff
      <4> QED BY <4>1, <4>2 DEF Orphaned, TypeInv, RegistryType
    <3>2. \A x \in ScansOf(t)' : Confirms(scan'[x], w, v)
      BY <1>1, <1>3, <2>1, <2>2, <3>1 DEF Confirms
    <3> QED BY <2>3, <2>5, <3>0, <3>2, RescannedHanded
  <2> QED BY <1>0, <2>1, <2>4, <2>5 DEF Care
<1> QED BY <1>2, <1>3

(* It decides: the worker in trouble loses the task to another one.        *)
LEMMA DecideCare ==
  ASSUME OneScan, TwoStarted, TypeInv, OneTrouble', NEW v \in Started, Staff(v),
         NEW t \in Tasks, Care(t, v), NEW s \in Scanners, Decide(s)
  PROVE  Care(t, v)'
<1>0. /\ UNCHANGED <<tables, runner, exec, posts, cleanup, request>> /\ UNCHANGED <<ht1, ht2>>
      /\ scan[s].step = "found" /\ \A x \in Scanners : x = s
      /\ scan \in [Scanners -> Scan] /\ ht1 \in [Tasks -> Records \cup {None}]
  BY DEF Decide, tables, OneScan, TypeInv, TablesType, ScanType, HeldScan
<1>1. CASE t # scan[s].task
  <2>1. KeepsScans(t)
    <3>1. scan'[s].task # t \/ scan'[s].step = "idle"
      <4>1. \/ scan' = [scan EXCEPT ![s] = NoScan]
            \/ \E r, old : scan' = [scan EXCEPT ![s].step = "put", ![s].record = r, ![s].old = old]
        BY DEF Decide
      <4>2. scan[s] \in Scan
        BY <1>0
      <4>3. CASE scan' = [scan EXCEPT ![s] = NoScan]
        BY <1>0, <4>3 DEF NoScan
      <4>4. ASSUME NEW r, NEW old,
                   scan' = [scan EXCEPT ![s].step = "put", ![s].record = r, ![s].old = old]
            PROVE  scan'[s].task # t
        BY <1>0, <1>1, <4>2, <4>4 DEF Scan
      <4> QED BY <4>1, <4>3, <4>4
    <3> QED BY <1>1, <3>1, ScansElsewhere
  <2>2. GoesOn(t)
    BY <1>0, <2>1, Spared DEF GoesOn
  <2> QED BY <2>2, GoesOnKeeps
<1>2. CASE t = scan[s].task
  <2>1. ht1[t] # None /\ ScansOf(t) = {s} /\ Handing(t) = {} /\ ScansOf(t)' \subseteq {s}
    BY <1>0, <1>2 DEF Care, Unheard, ScansOf, Handing
  <2>2. ht1[t] \in Records /\ ~ht1[t].waiting
    BY <1>0, <2>1 DEF Care, Given, Handed
  <2>3. SameButScans(t)
    BY <1>0, <2>1, <2>2 DEF SameButScans, Pending
  <2>4. CASE scan' = [scan EXCEPT ![s] = NoScan]
    <3>1. ScansOf(t)' = {} /\ Handing(t)' = {}
      BY <1>0, <2>4 DEF ScansOf, Handing, NoScan
    <3>2. ASSUME NEW w \in Workers, Given(t, w, v) PROVE Given(t, w, v)'
      BY <2>3, <3>1, <3>2, RescannedGiven
    <3>3. ASSUME NEW w \in Started \ {v}, Handed(t, w, v) PROVE Handed(t, w, v)'
      BY <2>1, <2>3, <3>1, <3>3, RescannedHanded, TaskAssumption
    <3> QED BY <1>0, <2>1, <3>2, <3>3 DEF Care
  <2>5. CASE scan' # [scan EXCEPT ![s] = NoScan]
    <3>1. PICK r \in Recovered(ht1[t], scan[s].reason) :
            scan' = [scan EXCEPT ![s].step = "put", ![s].record = r,
                        ![s].old = IF r.status = "PENDING" /\ ~r.waiting THEN ht1[t].worker ELSE None]
      BY <1>2, <2>5 DEF Decide
    <3>2. /\ scan'[s].step = "put" /\ scan'[s].reason = scan[s].reason /\ scan'[s].record = r
          /\ scan'[s].old = IF r.status = "PENDING" /\ ~r.waiting THEN ht1[t].worker ELSE None
      BY <1>0, <3>1 DEF Scan
    <3>3. Handing(t)' = {}
      BY <1>0, <3>2 DEF Handing, ScansOf
    <3>4. ASSUME GiveUp(ht1[t], scan[s].reason)
          PROVE  GivesUp(scan'[s]) /\ scan'[s].record.worker = ht1[t].worker
      <4>1. r = [ht1[t] EXCEPT !.status = "FAILURE", !.givenUp = TRUE]
        BY <3>1, <3>4 DEF Recovered
      <4>2. r.status = "FAILURE" /\ r.worker = ht1[t].worker /\ ~r.waiting
        BY <2>2, <4>1 DEF Records
      <4> QED BY <3>2, <4>2 DEF GivesUp
    <3>5. ASSUME NEW w \in Workers, Given(t, w, v) PROVE Given(t, w, v)'
      <4>1. Recovers(scan[s], w, v) /\ ht1[t].worker = w
        BY <2>1, <3>5 DEF Given
      <4>2. CASE GiveUp(ht1[t], scan[s].reason)
        BY <1>0, <2>1, <2>3, <3>2, <3>4, <3>5, <4>1, <4>2, RescannedGiven DEF Recovers
      <4>3. CASE ~GiveUp(ht1[t], scan[s].reason)
        <5>1. w = v
          BY <1>0, <4>1, <4>3 DEF Recovers, GiveUp, Scan
        <5>2. live \ {v} # {} /\ live \ {v} \subseteq Started \ {v}
          BY TaskAssumption DEF Staff, TwoStarted
        <5>3. Candidates(ht1[t]) = live \ {v}
          BY <4>1, <5>1, <5>2 DEF Candidates
        <5>4. PICK x \in live \ {v} : r = [ht1[t] EXCEPT !.attempts = @ + 1, !.worker = x,
                                                        !.status = "PENDING", !.waiting = FALSE]
          BY <3>1, <4>3, <5>2, <5>3 DEF Recovered
        <5>5. r.status = "PENDING" /\ ~r.waiting /\ r.worker = x
          BY <2>2, <5>4 DEF Records
        <5>6. HandsOver(scan'[s], v)
          BY <3>2, <4>1, <5>1, <5>2, <5>5 DEF HandsOver
        <5> QED BY <2>1, <2>3, <3>2, <3>5, <5>1, <5>6, RescannedGiven DEF Recovers
      <4> QED BY <4>2, <4>3
    <3>6. ASSUME NEW w \in Started \ {v}, Handed(t, w, v) PROVE Handed(t, w, v)'
      <4>1. Confirms(scan[s], w, v) /\ ht1[t].worker \in {v, w}
        BY <2>1, <3>6 DEF Handed
      <4>2. GivesUp(scan'[s]) /\ scan'[s].record.worker \in {v, w}
        BY <3>4, <4>1 DEF Confirms, GiveUp
      <4>3. \A x \in ScansOf(t)' : Confirms(scan'[x], w, v)
        BY <2>1, <3>2, <4>1, <4>2 DEF Confirms
      <4> QED BY <2>1, <2>3, <3>3, <3>6, <4>3, RescannedHanded, TaskAssumption
    <3> QED BY <1>0, <2>1, <3>5, <3>6 DEF Care
  <2> QED BY <2>4, <2>5
<1> QED BY <1>1, <1>2

(* The record is written and the lists follow.                             *)
LEMMA PutCare ==
  ASSUME OneScan, TypeInv, OneTrouble', NEW v \in Started,
         NEW t \in Tasks, Care(t, v), Orderly(t)',
         NEW s \in Scanners, NEW ok \in BOOLEAN, PutRecovered(s, ok)
  PROVE  Care(t, v)'
<1>0. /\ UNCHANGED <<runner, exec, posts, cleanup, request>>
      /\ scan[s].step = "put" /\ \A x \in Scanners : x = s
      /\ scan \in [Scanners -> Scan] /\ ht1 \in [Tasks -> Records \cup {None}]
      /\ scan[s].task \in Tasks /\ scan[s].record \in Records
  BY DEF PutRecovered, OneScan, TypeInv, TablesType, ScanType, HeldScan
<1>n. \A c : Call(c, ok) => Apply(c) /\ UNCHANGED late
  BY OneTroubleOnly DEF CallsSucceed
<1>1. ht1' = [ht1 EXCEPT ![scan[s].task] = scan[s].record] /\ UNCHANGED ht2
  BY <1>n, CallFields DEF PutRecovered, Apply, Put
<1>2. /\ scan[s].old = None => scan'[s].step = "idle"
      /\ scan[s].old # None =>
           /\ scan'[s] = [scan[s] EXCEPT !.step = IF scan[s].old # scan[s].record.worker
                                                  THEN "remove" ELSE "append"]
  BY <1>0 DEF PutRecovered, NoScan
<1>3. CASE t # scan[s].task
  <2>1. KeepsScans(t)
    <3>1. scan'[s].task # t \/ scan'[s].step = "idle"
      BY <1>0, <1>2, <1>3 DEF Scan
    <3> QED BY <1>3, <3>1, ScansElsewhere
  <2>2. ht1'[t] = ht1[t] /\ SameLists(t)
    BY <1>0, <1>1, <1>3 DEF SameLists
  <2>3. GoesOn(t)
    BY <1>0, <2>1, <2>2, Spared DEF GoesOn
  <2> QED BY <2>3, GoesOnKeeps
<1>4. CASE t = scan[s].task
  <2>1. ht1[t] # None /\ ScansOf(t) = {s} /\ Handing(t) = {} /\ ScansOf(t)' \subseteq {s}
    BY <1>0, <1>4 DEF Care, Unheard, ScansOf, Handing
  <2>2. ht1'[t] = scan[s].record /\ ht1'[t] # None
    BY <1>0, <1>1, <1>4, RecordsAreSafe
  <2>3. ASSUME GivesUp(scan[s]), scan[s].record.worker = ht1[t].worker PROVE Care(t, v)'
    <3>1. SameButScans(t)
      BY <1>0, <1>1, <2>2, <2>3 DEF SameButScans, Pending, GivesUp
    <3>2. ScansOf(t)' = {} /\ Handing(t)' = {}
      BY <1>2, <2>1, <2>3 DEF GivesUp, ScansOf, Handing
    <3>3. ASSUME NEW w \in Workers, Given(t, w, v) PROVE Given(t, w, v)'
      BY <3>1, <3>2, <3>3, RescannedGiven
    <3>4. ASSUME NEW w \in Started \ {v}, Handed(t, w, v) PROVE Handed(t, w, v)'
      BY <2>1, <3>1, <3>2, <3>4, RescannedHanded, TaskAssumption
    <3> QED BY <2>1, <2>2, <3>3, <3>4 DEF Care
  <2>4. ASSUME NEW w \in Workers, Given(t, w, v), HandsOver(scan[s], v), w = v PROVE Care(t, v)'
    <3>1. PICK new \in Started \ {v} : new = scan[s].record.worker
      BY <2>4 DEF HandsOver
    <3>2. /\ ht1'[t].worker = new /\ ~ht1'[t].waiting /\ new \in Workers /\ new # v
          /\ UNCHANGED <<posts, cleanup, request>>
      BY <1>0, <2>2, <2>4, <3>1, TaskAssumption DEF HandsOver
    <3>3. \A q \in Requests : request'[q].task = t => request'[q].step \notin {"ht1", "ht2"}
      <4>1. Writing(t) = {}
        BY <1>4 DEF PutRecovered, Touch, Orderly
      <4> QED BY <1>0, <4>1 DEF Writing
    <3>4. \A y \in Workers : Knows(y, t)' => y = v
      BY <1>0, <1>1, <2>4 DEF Given, Knows, runner
    <3>5. RemoveFrom(new, t) \notin cleanup'
      BY <2>4, <3>2 DEF Given
    <3>6. \A p \in posts' : p.task = t => p.record.worker \in {v, new} /\ ~p.record.waiting
      BY <2>4, <3>2 DEF Given
    <3>7. /\ scan'[s].step = "remove" /\ scan'[s].old = v /\ scan'[s].record.worker = new
          /\ scan'[s].task = t
      <4>1. scan[s].old = v /\ v # None /\ scan[s] \in Scan
        BY <1>0, <2>4, TaskAssumption DEF HandsOver
      <4> QED BY <1>2, <1>4, <3>1, <3>2, <4>1 DEF Scan
    <3>8. ScansOf(t)' = {s} /\ Handing(t)' = {s}
      BY <1>0, <3>7 DEF ScansOf, Handing
    <3>9. Handed(t, new, v)'
      BY <3>2, <3>3, <3>4, <3>5, <3>6, <3>7, <3>8 DEF Handed, RemoveFrom
    <3> QED BY <2>2, <3>1, <3>9 DEF Care
  <2>5. ASSUME NEW w \in Started \ {v}, Handed(t, w, v) PROVE Care(t, v)'
    <3>1. Confirms(scan[s], w, v)
      BY <2>1, <2>5 DEF Handed
    <3>2. GivesUp(scan[s]) /\ scan[s].record.worker \in {v, w}
      BY <1>0, <3>1 DEF Confirms
    <3>3. ScansOf(t)' = {} /\ Handing(t)' = {}
      BY <1>2, <2>1, <3>2 DEF GivesUp, ScansOf, Handing
    <3>4. ht1'[t].worker \in {v, w} /\ ~ht1'[t].waiting /\ ~Pending(t)'
      BY <2>2, <3>2 DEF GivesUp, Pending
    <3>5. /\ UNCHANGED <<ht2, posts, cleanup, request>>
          /\ \A y \in Workers : Knows(y, t)' = Knows(y, t)
      BY <1>0, <1>1 DEF Knows, runner
    <3>6. Handed(t, w, v)'
      BY <2>1, <2>5, <3>3, <3>4, <3>5 DEF Handed, RemoveFrom
    <3> QED BY <2>2, <3>6 DEF Care
  <2> QED BY <1>0, <2>1, <2>3, <2>4, <2>5 DEF Care, Given, Recovers
<1> QED BY <1>3, <1>4

(* The lists of HT2 follow the record, the old one first.                  *)
LEMMA RelistCare ==
  ASSUME OneScan, TypeInv, OneTrouble', NEW v \in Started, NEW t \in Tasks, Care(t, v),
         NEW s \in Scanners, NEW ok \in BOOLEAN, RemoveOld(s, ok) \/ AppendNew(s, ok)
  PROVE  Care(t, v)'
<1>0. /\ UNCHANGED <<runner, exec, posts, cleanup, request>>
      /\ scan[s].step \in {"remove", "append"} /\ \A x \in Scanners : x = s
      /\ scan \in [Scanners -> Scan] /\ ht2 \in [Workers -> SUBSET Tasks]
      /\ scan[s].task \in Tasks
  BY DEF RemoveOld, AppendNew, OneScan, TypeInv, TablesType, ScanType, HeldScan
<1>n. \A c : Call(c, ok) => Apply(c) /\ UNCHANGED late
  BY OneTroubleOnly DEF CallsSucceed
<1>1. /\ UNCHANGED ht1
      /\ RemoveOld(s, ok) =>
           /\ ht2' = [ht2 EXCEPT ![scan[s].old] = @ \ {scan[s].task}]
           /\ scan[s].step = "remove" /\ scan' = [scan EXCEPT ![s].step = "append"]
      /\ AppendNew(s, ok) =>
           /\ ht2' = [ht2 EXCEPT ![scan[s].record.worker] = @ \cup {scan[s].task}]
           /\ scan[s].step = "append" /\ scan' = [scan EXCEPT ![s] = NoScan]
  BY <1>n DEF RemoveOld, AppendNew, Apply, RemoveFrom, AppendTo
<1>2. CASE t # scan[s].task
  <2>1. KeepsScans(t)
    <3>1. scan'[s].task # t \/ scan'[s].step = "idle"
      BY <1>0, <1>1, <1>2 DEF Scan, NoScan
    <3> QED BY <1>2, <3>1, ScansElsewhere
  <2>2. ht1'[t] = ht1[t] /\ SameLists(t)
    BY <1>0, <1>1, <1>2 DEF SameLists
  <2>3. GoesOn(t)
    BY <1>0, <2>1, <2>2, Spared DEF GoesOn
  <2> QED BY <2>3, GoesOnKeeps
<1>3. CASE t = scan[s].task
  <2>1. ht1[t] # None /\ ScansOf(t) = {s} /\ Handing(t) = {s}
    BY <1>0, <1>3 DEF Care, Unheard, ScansOf, Handing
  <2>2. PICK w \in Started \ {v} : Handed(t, w, v)
    BY <1>0, <2>1 DEF Care, Given, Recovers
  <2>3. /\ w \in Workers /\ v \in Workers /\ w # v /\ ~Knows(w, t)
        /\ scan[s].record.worker = w /\ scan[s].old = v
        /\ scan[s].step = "append" => t \notin ht2[v]
    BY <2>1, <2>2, TaskAssumption DEF Handed
  <2>4. \A x \in Workers : x # w => (t \in ht2'[x] => t \in ht2[x])
    BY <1>0, <1>1, <2>3
  <2>5. \A x \in Workers : Knows(x, t)' => x \in {v, w}
    BY <1>0, <2>2, <2>4 DEF Handed, Knows, runner
  <2>6. CASE RemoveOld(s, ok)
    <3>1. t \notin ht2'[v] /\ ht2'[w] = ht2[w]
      BY <1>0, <1>1, <1>3, <2>3, <2>6
    <3>2. ~Knows(w, t)'
      BY <1>0, <2>3, <3>1 DEF Knows, runner
    <3>3. /\ scan'[s].step = "append" /\ scan'[s].record.worker = w /\ scan'[s].old = v
          /\ scan'[s].task = t
      BY <1>0, <1>1, <1>3, <2>3, <2>6 DEF Scan
    <3>4. ScansOf(t)' = {s} /\ Handing(t)' = {s}
      BY <1>0, <3>3 DEF ScansOf, Handing
    <3>5. UNCHANGED <<ht1, posts, cleanup, request>>
      BY <1>0, <1>1
    <3> QED BY <2>1, <2>2, <2>5, <3>1, <3>2, <3>3, <3>4, <3>5 DEF Handed, Care, Pending, RemoveFrom
  <2>7. CASE AppendNew(s, ok)
    <3>1. t \in ht2'[w] /\ t \notin ht2'[v]
      BY <1>0, <1>1, <1>3, <2>3, <2>7
    <3>2. HasIt(w, t)'
      BY <1>0, <2>3, <3>1 DEF HasIt, Knows, runner
    <3>3. ScansOf(t)' = {} /\ Handing(t)' = {}
      BY <1>0, <1>1, <2>7 DEF ScansOf, Handing, NoScan
    <3>4. UNCHANGED <<ht1, posts, cleanup, request>>
      BY <1>0, <1>1
    <3> QED BY <2>1, <2>2, <2>5, <3>1, <3>2, <3>3, <3>4 DEF Handed, Care, Pending, RemoveFrom
  <2> QED BY <2>6, <2>7
<1> QED BY <1>2, <1>3

(* Together: what recovery does keeps the care for the task.               *)
LEMMA RecoveringCare ==
  ASSUME OneScan, TwoStarted, TypeInv, OneTrouble', NEW v \in Started, Staff(v),
         NEW t \in Tasks, Care(t, v), Orderly(t)', NEW s \in Scanners, Recovering(s)
  PROVE  Care(t, v)'
<1>1. ASSUME NEW ok \in BOOLEAN, ClearWaiting(s, ok) PROVE Care(t, v)'
  <2>0. /\ UNCHANGED <<runner, exec, posts, cleanup, request>>
        /\ scan[s].step = "clear" /\ scan[s].task \in Tasks
        /\ scan \in [Scanners -> Scan] /\ ht1 \in [Tasks -> Records \cup {None}]
    BY <1>1 DEF ClearWaiting, TypeInv, TablesType, ScanType, HeldScan
  <2>1. t # scan[s].task
    BY <2>0 DEF Care, Unheard, Given, Handed, ScansOf, Handing, Recovers, Confirms
  <2>2. \E r : ht1' = [ht1 EXCEPT ![scan[s].task] = r] /\ UNCHANGED ht2
    BY <1>1, OneTroubleOnly, CallFields DEF CallsSucceed, ClearWaiting, Apply, Put
  <2>3. KeepsScans(t)
    <3>1. scan'[s].task # t
      BY <1>1, <2>0, <2>1 DEF ClearWaiting, Scan
    <3> QED BY <2>1, <3>1, ScansElsewhere
  <2>4. ht1'[t] = ht1[t] /\ SameLists(t)
    BY <2>0, <2>1, <2>2 DEF SameLists
  <2>5. GoesOn(t)
    BY <2>0, <2>3, <2>4, Spared DEF GoesOn
  <2> QED BY <2>5, GoesOnKeeps
<1> QED BY <1>1, DetectCare, DecideCare, PutCare, RelistCare DEF Recovering

(* The worker in trouble dies or falls silent, and what the rebalancer     *)
(* moves is not orderly.                                                   *)
LEMMA OtherCare ==
  ASSUME TypeInv, OneTrouble', Still, NEW v \in Started, NEW t \in Tasks, Care(t, v), Orderly(t)',
         \/ \E w \in Workers :
              Heartbeat(w) \/ Expire(w) \/ Boot(w) \/ \E killed \in BOOLEAN : Stop(w, killed)
         \/ Moving \/ Cleaning \/ Reboot \/ UNCHANGED vars, [Next]_vars
  PROVE  Care(t, v)'
<1>0. /\ ht1 \in [Tasks -> Records \cup {None}] /\ ht2 \in [Workers -> SUBSET Tasks]
      /\ exec \in [Workers -> [Tasks -> Execution]] /\ posts \subseteq Post
      /\ seen \in [Workers -> SUBSET Tasks] /\ todo \in [Workers -> SUBSET Tasks]
  BY DEF TypeInv, TablesType, ExecType, PostsType, RunnerType
<1>n. /\ \A k : Trouble(k) => k \in {"stop", "silence"}
      /\ \A c, ok : Call(c, ok) => ok /\ Apply(c) /\ UNCHANGED late /\ UNCHANGED troubles
  BY OneTroubleOnly DEF CallsSucceed
<1>t. t \notin raced /\ t \notin raced'
  BY HistoryGrows DEF Grows, Orderly
<1>1. ASSUME NEW w \in Workers, Heartbeat(w) \/ Expire(w) PROVE Care(t, v)'
  <2>1. GoesOn(t)
    BY <1>1, Spared DEF Heartbeat, Expire, GoesOn
  <2> QED BY <2>1, GoesOnKeeps
<1>2. ASSUME NEW w \in Workers, NEW killed \in BOOLEAN, Stop(w, killed) PROVE Care(t, v)'
  <2>1. /\ UNCHANGED <<tables, request, cleanup, scan>> /\ up' = up \ {w} /\ posts' = Abandoned(w)
        /\ seen' = [seen EXCEPT ![w] = {}] /\ todo' = [todo EXCEPT ![w] = {}]
        /\ exec' = [exec EXCEPT ![w] = [u \in Tasks |-> Idle]]
    BY <1>2 DEF Stop
  <2>2. \A x \in Workers : /\ seen'[x] \subseteq seen[x] /\ todo'[x] \subseteq todo[x]
                           /\ exec'[x][t].step # "idle" => exec[x][t].step # "idle"
                           /\ x \in up' => x \in up /\ exec'[x] = exec[x]
    BY <1>0, <2>1 DEF Idle
  <2>3. \A p \in posts' : \E y \in posts : y.task = p.task /\ y.record = p.record
    BY <1>0, <2>1 DEF Abandoned, Post
  <2>4. (\E p \in posts : p.task = t) => \E p \in posts' : p.task = t
    <3>1. ASSUME NEW p \in posts, p.task = t PROVE \E y \in posts' : y.task = t
      <4>1. (IF p.worker = w THEN [p EXCEPT !.tries = MaxRetries + 1] ELSE p) \in posts'
        BY <2>1 DEF Abandoned
      <4>2. (IF p.worker = w THEN [p EXCEPT !.tries = MaxRetries + 1] ELSE p).task = t
        BY <1>0, <3>1 DEF Post
      <4> QED BY <4>1, <4>2
    <3> QED BY <3>1
  <2>5. ht1' = ht1 /\ ht2' = ht2
    BY <2>1 DEF tables
  <2>6. KeepsHolders(t)
    BY <2>2, <2>4, <2>5 DEF KeepsHolders, Knows, HasIt
  <2>7. KeepsPosts(t)
    BY <2>3 DEF KeepsPosts
  <2> QED BY <2>1, <2>5, <2>6, <2>7, Spared, GoesOnKeeps DEF GoesOn
<1>3. ASSUME NEW w \in Workers, Boot(w) PROVE FALSE
  BY <1>3, <1>n DEF Boot
<1>4. CASE Cleaning \/ Reboot
  BY <1>4, <1>n DEF Cleaning, ClearCompleted, ResetAll, DeleteKey, Reboot, Still
<1>5. ASSUME NEW u \in Tasks, NEW w \in Workers, Rebalance(u, w) PROVE Care(t, v)'
  <2>1. GoesOn(t)
    BY <1>5, Spared DEF Rebalance, GoesOn
  <2> QED BY <2>1, GoesOnKeeps
<1>6. CASE MovePut
  <2>1. ht1'[t] = ht1[t] /\ SameLists(t)
    BY <1>6, <1>0, <1>t DEF MovePut, SameLists
  <2>2. GoesOn(t)
    BY <1>6, <2>1, Spared DEF MovePut, GoesOn
  <2> QED BY <2>2, GoesOnKeeps
<1>7. ASSUME NEW ok \in BOOLEAN, MoveRemove(ok) \/ MoveAppend(ok) PROVE Care(t, v)'
  <2>1. mover.task # t
    BY <1>7, <1>t DEF MoveRemove, MoveAppend, Still
  <2>2. /\ ht1' = ht1
        /\ \E w : \/ ht2' = [ht2 EXCEPT ![w] = @ \cup {mover.task}]
                  \/ ht2' = [ht2 EXCEPT ![w] = @ \ {mover.task}]
    BY <1>7, <1>n DEF MoveRemove, MoveAppend, Apply, AppendTo, RemoveFrom
  <2>3. ht1'[t] = ht1[t] /\ SameLists(t)
    BY <1>0, <2>1, <2>2 DEF SameLists
  <2>4. GoesOn(t)
    BY <1>7, <2>3, Spared DEF MoveRemove, MoveAppend, GoesOn
  <2> QED BY <2>4, GoesOnKeeps
<1>8. CASE UNCHANGED vars
  <2>1. GoesOn(t)
    BY <1>8, Spared DEF vars, GoesOn
  <2> QED BY <2>1, GoesOnKeeps
<1> QED BY <1>1, <1>2, <1>3, <1>4, <1>5, <1>6, <1>7, <1>8 DEF Moving

(* No other worker gets into trouble.                                      *)
Troubled(w) == w \in up /\ (Expire(w) \/ \E killed \in BOOLEAN : Stop(w, killed))
LEMMA StaffKept ==
  ASSUME TypeInv, OneTrouble', Still, [Next]_vars, NEW v \in Started, Staff(v),
         \A w \in Workers : Troubled(w) => w = v
  PROVE  Staff(v)'
<1>n. \A k : Trouble(k) => k \in {"stop", "silence"}
  BY OneTroubleOnly DEF CallsSucceed
<1>u. UNCHANGED <<registry, up, booting>> => Staff(v)'
  BY DEF Staff, registry
<1>1. ASSUME NEW q \in Requests, Creating(q) PROVE Staff(v)'
  BY <1>1, <1>u DEF Creating, Check, WriteHT1, AppendHT2, Rollback, runner
<1>2. ASSUME NEW w \in Workers, Polling(w) PROVE Staff(v)'
  BY <1>2, <1>u DEF Polling, Booted, FetchAssigned, Take, Report, ReportTimeout, RunTask, runner, Staff
<1>3. ASSUME NEW w \in Workers, Heartbeat(w) PROVE Staff(v)'
  BY <1>3 DEF Heartbeat, Staff, runner
<1>4. ASSUME NEW w \in Workers, Expire(w) PROVE Staff(v)'
  <2>1. w = v
    BY <1>4 DEF Troubled, Expire, Staff
  <2> QED BY <1>4, <2>1 DEF Expire, Staff, runner
<1>5. ASSUME NEW w \in Workers, NEW killed \in BOOLEAN, Stop(w, killed) PROVE Staff(v)'
  <2>1. w = v
    BY <1>5 DEF Troubled, Stop
  <2> QED BY <1>5, <2>1 DEF Stop, Staff, registry
<1>6. ASSUME NEW w \in Workers, Boot(w) PROVE FALSE
  BY <1>6, <1>n DEF Boot
<1>7. ASSUME \/ \E p \in posts, ok \in BOOLEAN : Complete(p, ok)
             \/ \E c \in cleanup, ok \in BOOLEAN : Cleanup(c, ok)
             \/ \E c \in late : Deliver(c)
      PROVE  Staff(v)'
  BY <1>7, <1>u DEF Complete, Cleanup, Deliver, runner
<1>8. ASSUME NEW s \in Scanners, Recovering(s) PROVE Staff(v)'
  BY <1>8, <1>u DEF Recovering, Detect, Decide, ClearWaiting, PutRecovered, RemoveOld, AppendNew, runner
<1>9. CASE Moving
  BY <1>9, <1>u DEF Moving, Rebalance, MovePut, MoveRemove, MoveAppend, runner
<1>10. CASE Cleaning \/ Reboot
  BY <1>10, <1>n DEF Cleaning, ClearCompleted, ResetAll, DeleteKey, Reboot, Still
<1>11. CASE UNCHANGED vars
  BY <1>11, <1>u DEF vars, runner
<1> QED BY <1>1, <1>2, <1>3, <1>4, <1>5, <1>6, <1>7, <1>8, <1>9, <1>10, <1>11 DEF Next

(* While one worker is in trouble at most, a step keeps the care for every *)
(* orderly task.                                                           *)
LEMMA CaredStep ==
  ASSUME OneScan, TwoStarted, TypeInv, TypeInv', KeptInv, [Next]_vars, OneTrouble, OneTrouble',
         Still, NEW v \in Started, CaredFor(v), \A w \in Workers : Troubled(w) => w = v
  PROVE  CaredFor(v)'
<1>1. Staff(v) /\ Staff(v)'
  BY StaffKept DEF CaredFor
<1>2. ASSUME NEW t \in Tasks, Orderly(t)' PROVE Care(t, v)'
  <2>1. Orderly(t) /\ Care(t, v)
    BY <1>2, OrderlyBefore DEF CaredFor
  <2> QED BY <1>1, <1>2, <2>1, CreatingCare, PollingCare, EndingCare, RecoveringCare, OtherCare
      DEF Next
<1> QED BY <1>1, <1>2 DEF CaredFor

(* The care is inductive, new tasks included.                              *)
LEMMA CareStep ==
  ASSUME OneScan, TwoStarted, TypeInv, TypeInv', KeptInv, CareInv, [Next]_vars
  PROVE  CareInv'
<1> SUFFICES ASSUME OneTrouble'
             PROVE  /\ Still' /\ \E v \in Started : CaredFor(v)'
                    /\ left' = MaxTroubles => \A v \in Started : CaredFor(v)'
  BY DEF CareInv
<1>1. OneTrouble /\ left' <= left /\ left \in 0 .. MaxTroubles /\ left' \in 0 .. MaxTroubles
  BY OneTroubleBefore DEF TypeInv, TroublesType
<1>2. /\ Still /\ \E v \in Started : CaredFor(v)
      /\ left = MaxTroubles => \A v \in Started : CaredFor(v)
  BY <1>1 DEF CareInv
<1>3. Still'
  BY <1>2, OneTroubleOnly, StillKept
<1>4. CASE \E w \in Workers : Troubled(w)
  <2>1. PICK w \in Workers : Troubled(w)
    BY <1>4
  <2>2. Trouble("stop") \/ Trouble("silence")
    BY <2>1 DEF Troubled, Stop, Expire
  <2>3. left = MaxTroubles /\ left' # MaxTroubles
    BY <1>1, <2>2, OneTroubleOnly, TaskAssumption DEF Trouble
  <2>4. w \in Started
    BY <1>2, <2>1 DEF Troubled, CaredFor, Staff
  <2>5. \A x \in Workers : Troubled(x) => x = w
    BY <2>1 DEF Troubled, Stop, Expire, runner
  <2>6. CaredFor(w)'
    BY <1>1, <1>2, <2>3, <2>4, <2>5, CaredStep
  <2> QED BY <1>3, <2>3, <2>4, <2>6
<1>5. CASE ~\E w \in Workers : Troubled(w)
  <2>1. \A v \in Started : CaredFor(v) => CaredFor(v)'
    BY <1>1, <1>2, <1>5, CaredStep
  <2>2. left' = MaxTroubles => left = MaxTroubles
    BY <1>1, TaskAssumption
  <2> QED BY <1>2, <1>3, <2>1, <2>2
<1> QED BY <1>4, <1>5

(* At the start nobody is in trouble and nothing was sent.                 *)
LEMMA InitCare == ASSUME TwoStarted, Init PROVE CareInv
<1>1. Still
  BY DEF Init, Still, NoRequest, NoMove
<1>2. ASSUME NEW v \in Started PROVE CaredFor(v)
  <2>1. Staff(v)
    BY <1>2 DEF Init, Staff
  <2>2. ASSUME NEW t \in Tasks PROVE Care(t, v)
    BY DEF Init, Care, Unheard, Knows, ScansOf, NoScan, Idle, NoRequest
  <2> QED BY <2>1, <2>2 DEF CaredFor
<1> QED BY <1>1, <1>2 DEF CareInv, TwoStarted

(* A task somebody cares for is not forgotten.                             *)
LEMMA CareAttends == TypeInv /\ KeptInv /\ CareInv => NeverForgotten
<1> SUFFICES ASSUME TypeInv, KeptInv, CareInv,
                    NEW t \in Tasks, Accepted(t), Orderly(t), Pending(t), OneTrouble
             PROVE  Attended(t)
  BY DEF NeverForgotten
<1>1. PICK v \in Started : Staff(v) /\ Care(t, v)
  BY DEF CareInv, CaredFor
<1>2. ht1[t] # None
  BY DEF Pending
<1>3. \A q \in Requests : request[q].task = t => request[q].step # "ht2"
  BY DEF KeptInv, Gentle, NoRollback, OneTrouble, Only, Troubles, Orderly, Writing
<1>4. ASSUME NEW w \in Workers, HasIt(w, t), w = ht1[t].worker PROVE Attended(t)
  <2>1. CASE w \notin up
    BY <1>4, <2>1 DEF Attended
  <2>2. CASE t \in ht2[w] \ seen[w] /\ w \in up
    BY <2>2 DEF Attended
  <2>3. CASE exec[w][t].step # "idle"
    BY <2>3 DEF Attended, Idle
  <2>4. CASE \E p \in posts : p.task = t
    BY <2>4 DEF Attended
  <2> QED BY <1>4, <2>1, <2>2, <2>3, <2>4 DEF HasIt
<1>5. ASSUME NEW w \in Workers, Given(t, w, v) PROVE Attended(t)
  BY <1>3, <1>4, <1>5 DEF Given
<1>6. ASSUME NEW w \in Started \ {v}, Handed(t, w, v) PROVE Attended(t)
  <2>1. CASE Handing(t) = {}
    BY <1>4, <1>6, <2>1, TaskAssumption DEF Handed
  <2>2. CASE Handing(t) # {}
    BY <2>2 DEF Attended, Handing, ScansOf
  <2> QED BY <2>1, <2>2
<1> QED BY <1>1, <1>2, <1>5, <1>6 DEF Care

(* No accepted task is forgotten after one worker died or fell silent, for *)
(* any number of tasks, workers and requests, as long as the scans of the  *)
(* recovery manager do not overlap and two workers run from the start:     *)
(* whoever the record names is alive and has the task, or recovery is at   *)
(* it (create_task_v2, task_runner.py, result_complete, recovery.py).      *)
THEOREM NoTaskForgotten ==
  ASSUME OneScan, TwoStarted
  PROVE  Spec => []NeverForgotten
<1>1. Init => CareInv
  BY InitCare
<1>2. TypeInv /\ TypeInv' /\ KeptInv /\ CareInv /\ [Next]_vars => CareInv'
  BY CareStep
<1> QED BY <1>1, <1>2, TypeInit, TypeStep, InitKept, StepKeeps, CareAttends, PTL DEF Spec
===============================================================================
