-------------------------- MODULE PlacementProofs ---------------------------
(***************************************************************************)
(* Theorems about JobPlacement, for every number of nodes, jobs, keys and  *)
(* troubles: its types, that a finished copy of a job stays finished, and  *)
(* that without a leave a job is executed on the nodes of its plan only.   *)
(***************************************************************************)
EXTENDS JobPlacement, NumberFacts, FiniteSetTheorems

(* A key that has not been drawn names no record.                          *)
KeysFresh == \A n \in Nodes, k \in Keys : k > drawn => store[n][k] = None

(* A key names a record of one member only: a leaver keeps what it handed  *)
(* over, but it is no member any more.                                     *)
OneHolder ==
  \A k \in Keys : \A m, n \in Members :
    store[m][k] # None /\ store[n][k] # None => m = n

FinishInv == TypeOK /\ KeysFresh /\ OneHolder

(* The node is one the agents chose for the job.                           *)
OnPlan(n, j) == sub[j].step # "new" /\ n \in sub[j].planned

PlansKept ==
  \A j \in Jobs : sub[j].step # "new" =>
    sub[j].target \in sub[j].planned /\ sub[j].todo \subseteq sub[j].planned

(* Nobody is his own predecessor, so no watcher takes its own node's jobs  *)
(* for those of a dead one.                                                *)
NoSelfSuspicion ==
  \A n \in Nodes : /\ pred[n] # n /\ last[n] # n
                   /\ watch[n].step # "idle" => watch[n].failed # n
                   /\ watch[n].todo = {}

CopiesOnPlan ==
  \A n \in Nodes, k \in Keys : store[n][k] # None =>
    store[n][k].by \in {None, n} /\ OnPlan(n, store[n][k].job)

Planned ==
  happened["leave"] = 0 =>
    /\ leaving = {} /\ NoSelfSuspicion /\ CopiesOnPlan
    /\ \A n \in Nodes, j \in Jobs : <<n, j>> \in ran => OnPlan(n, j)

PlanInv == TypeOK /\ PlansKept /\ Planned

(***************************************************************************)
(* Neighbours and fresh keys                                               *)
(***************************************************************************)
(* The node before another is a member, and another one if there is one.   *)
LEMMA BeforeIsMember ==
  ASSUME NEW n \in Nodes, NEW S \in SUBSET Nodes, S # {}
  PROVE  /\ Before(n, S) \in S
         /\ n \in S /\ S # {n} => Before(n, S) # n
<1> DEFINE lower == {m \in S : m < n}
           from == IF lower # {} THEN lower ELSE S
<1>1. from # {} /\ from \subseteq S
  OBVIOUS
<1>2. \E m \in from : \A k \in from : k <= m
  <2>1. from \subseteq 0 .. N
    <3> HIDE DEF from
    <3> QED BY <1>1, PlacementAssumption DEF Nodes
  <2> HIDE DEF from
  <2> QED BY <1>1, <2>1, GreatestNumber, PlacementAssumption
<1>3. PICK b \in from : b = Before(n, S) /\ \A k \in from : k <= b
  BY <1>2 DEF Before
<1>4. ASSUME n \in S, S # {n} PROVE b # n
  <2>1. PICK m \in S : m # n
    BY <1>4
  <2>2. CASE lower # {}
    BY <1>3, <2>2 DEF Nodes
  <2>3. CASE lower = {}
    BY <1>3, <2>1, <2>3 DEF Nodes
  <2> QED BY <2>2, <2>3
<1> QED BY <1>1, <1>3, <1>4

(* _store_job leaves the stores alone or puts the copy under a new key.    *)
LEMMA StoreJobSteps ==
  ASSUME TypeOK, NEW h, NEW n, NEW copy, NEW ok, StoreJob(h, n, copy, ok)
  PROVE  /\ \/ UNCHANGED jobs
            \/ /\ n \in up /\ drawn' = drawn + 1 /\ drawn + 1 \in Keys
               /\ store' = [store EXCEPT ![n][drawn + 1] = copy]
         /\ happened' \in [{"crash", "leave", "evict", "fault"} -> Nat]
         /\ happened'["leave"] = happened["leave"]
<1>1. drawn + 1 \in Keys
  BY PlacementAssumption DEF StoreJob, TypeOK, Keys
<1>2. happened' \in [{"crash", "leave", "evict", "fault"} -> Nat]
  BY DEF StoreJob, Trouble, TypeOK
<1>3. happened'["leave"] = happened["leave"]
  BY DEF StoreJob, Trouble, TypeOK
<1> QED BY <1>1, <1>2, <1>3 DEF StoreJob, jobs

(***************************************************************************)
(* Types                                                                   *)
(***************************************************************************)
StoreType == store \in [Nodes -> [Keys -> Copy \cup {None}]] /\ drawn \in 0 .. MaxKeys
RingType == /\ up \in SUBSET Nodes /\ leaving \in SUBSET Nodes
            /\ pred \in [Nodes -> Nodes \cup {None}]
            /\ happened \in [{"crash", "leave", "evict", "fault"} -> Nat]

LEMMA HaltTypes ==
  ASSUME TypeOK, NEW n \in Nodes, Halt(n)
  PROVE  /\ StoreType' /\ up' \in SUBSET Nodes /\ leaving' \in SUBSET Nodes
         /\ running' \in SUBSET (Nodes \X Keys)
         /\ last' \in [Nodes -> Nodes \cup {None}] /\ watch' \in [Nodes -> Watch]
         /\ sub' \in [Jobs -> Sub] /\ ran' \in SUBSET (Nodes \X Jobs)
<1>1. NoWatch \in Watch
  BY PlacementAssumption DEF NoWatch, Watch, Nodes
<1>2. sub' \in [Jobs -> Sub]
  <2>1. \A j \in Jobs : [sub[j] EXCEPT !.step = "failed"] \in Sub
    BY DEF TypeOK, Sub
  <2> QED BY <2>1 DEF Halt, TypeOK
<1>3. watch' \in [Nodes -> Watch]
  BY <1>1 DEF Halt, TypeOK
<1> QED BY <1>2, <1>3 DEF Halt, TypeOK, StoreType

(* A job is stored: _store_job with a copy of the record's type.           *)
LEMMA StoreJobTypes ==
  ASSUME TypeOK, NEW h, NEW n \in Nodes, NEW copy \in Copy, NEW ok,
         StoreJob(h, n, copy, ok)
  PROVE  StoreType' /\ happened' \in [{"crash", "leave", "evict", "fault"} -> Nat]
<1>1. CASE UNCHANGED jobs
  BY <1>1, StoreJobSteps DEF jobs, TypeOK, StoreType
<1>2. CASE /\ drawn' = drawn + 1 /\ drawn + 1 \in Keys
           /\ store' = [store EXCEPT ![n][drawn + 1] = copy]
  <2>1. drawn' \in 0 .. MaxKeys
    BY <1>2, PlacementAssumption DEF Keys, TypeOK
  <2>2. store' \in [Nodes -> [Keys -> Copy \cup {None}]]
    BY <1>2 DEF TypeOK
  <2> QED BY <2>1, <2>2, StoreJobSteps DEF StoreType
<1> QED BY <1>1, <1>2, StoreJobSteps

LEMMA NewCopyType == \A j \in Jobs, replica \in BOOLEAN : NewCopy(j, replica) \in Copy
  BY DEF NewCopy, Copy, Active

LEMMA InitTypes == Init => TypeOK
<1> SUFFICES ASSUME Init PROVE TypeOK
  OBVIOUS
<1>1. pred \in [Nodes -> Nodes \cup {None}]
  <2>1. Nodes # {}
    BY PlacementAssumption DEF Nodes
  <2> QED BY <2>1, BeforeIsMember DEF Init
<1>2. NoWatch \in Watch /\ NoSub \in Sub
  BY PlacementAssumption DEF NoWatch, Watch, NoSub, Sub, Nodes
<1> QED BY <1>1, <1>2, PlacementAssumption DEF Init, TypeOK

(* What the code writes into a submission, a copy and a recovery.          *)
LEMMA RecordWrites ==
  /\ \A r \in Sub : \A x \in SUBSET Nodes, y \in SUBSET Nodes :
       /\ [r EXCEPT !.todo = x, !.stored = y] \in Sub
       /\ \A z \in {"replicas", "accepted", "failed"} :
            [r EXCEPT !.step = z] \in Sub /\ [r EXCEPT !.step = z, !.stored = x] \in Sub
  /\ \A c \in Copy : /\ [c EXCEPT !.status = "done"] \in Copy
                     /\ [c EXCEPT !.replica = FALSE, !.by = None, !.status = "pending"] \in Copy
  /\ \A w \in Watch : /\ [w EXCEPT !.step = "orphans"] \in Watch
                      /\ \A x \in SUBSET (Jobs \X Nodes) :
                           [w EXCEPT !.todo = x] \in Watch
                           /\ [w EXCEPT !.step = "store", !.todo = x] \in Watch
<1>1. ASSUME NEW r \in Sub, NEW x \in SUBSET Nodes, NEW y \in SUBSET Nodes
      PROVE  /\ [r EXCEPT !.todo = x, !.stored = y] \in Sub
             /\ \A z \in {"replicas", "accepted", "failed"} :
                  [r EXCEPT !.step = z] \in Sub /\ [r EXCEPT !.step = z, !.stored = x] \in Sub
  BY DEF Sub
<1>2. ASSUME NEW c \in Copy
      PROVE  /\ [c EXCEPT !.status = "done"] \in Copy
             /\ [c EXCEPT !.replica = FALSE, !.by = None, !.status = "pending"] \in Copy
  BY DEF Copy, Active
<1>3. ASSUME NEW w \in Watch, NEW x \in SUBSET (Jobs \X Nodes)
      PROVE  /\ [w EXCEPT !.step = "orphans"] \in Watch
             /\ [w EXCEPT !.todo = x] \in Watch
             /\ [w EXCEPT !.step = "store", !.todo = x] \in Watch
  BY DEF Watch
<1> QED BY <1>1, <1>2, <1>3

(* Submission.                                                             *)
LEMMA SubmissionTypes ==
  ASSUME TypeOK, NEW j \in Jobs,
         Submitting(j) \/ \E h \in Homes, seen \in SUBSET Nodes, f \in Factors : Submit(j, h, seen, f)
  PROVE  TypeOK'
<1>1. ASSUME NEW h \in Homes, NEW seen \in SUBSET Nodes, NEW f \in Factors, Submit(j, h, seen, f)
      PROVE  TypeOK'
  <2>1. PICK S \in SUBSET Nodes, n \in Nodes :
          sub' = [sub EXCEPT ![j] = [step |-> "primary", home |-> h, target |-> n,
                                     todo |-> S \ {n}, planned |-> S, stored |-> {}]]
    BY <1>1 DEF Submit, Plans
  <2>2. h \in Nodes
    BY PlacementAssumption
  <2>3. sub' \in [Jobs -> Sub]
    BY <2>1, <2>2 DEF TypeOK, Sub
  <2> QED BY <1>1, <2>3 DEF Submit, TypeOK, jobs, ring, watcher
<1>2. ASSUME NEW ok \in BOOLEAN, StorePrimary(j, ok) PROVE TypeOK'
  <2>1. sub' \in [Jobs -> Sub]
    <3>1. sub[j] \in Sub /\ sub[j].target \in Nodes
      BY DEF TypeOK, Sub
    <3>2. sub' = [sub EXCEPT ![j] = [sub[j] EXCEPT
                    !.step = IF ok THEN "replicas" ELSE "failed",
                    !.stored = IF ok THEN {sub[j].target} ELSE {}]]
      BY <1>2 DEF StorePrimary, TypeOK
    <3> QED BY <3>1, <3>2, RecordWrites, ZenonT(60) DEF TypeOK
  <2>2. sub[j].target \in Nodes
    BY DEF TypeOK, Sub
  <2>3. StoreType' /\ happened' \in [{"crash", "leave", "evict", "fault"} -> Nat]
    BY <1>2, <2>2, StoreJobTypes, NewCopyType DEF StorePrimary
  <2> QED BY <1>2, <2>1, <2>3 DEF StorePrimary, TypeOK, StoreType, watcher
<1>3. ASSUME NEW n \in Nodes, NEW ok \in BOOLEAN, StoreReplica(j, n, ok) PROVE TypeOK'
  <2>1. sub' \in [Jobs -> Sub]
    <3>1. sub[j] \in Sub /\ sub[j].todo \ {n} \in SUBSET Nodes
          /\ sub[j].stored \cup {n} \in SUBSET Nodes /\ sub[j].stored \in SUBSET Nodes
      BY DEF TypeOK, Sub
    <3>2. sub' = [sub EXCEPT ![j] = [sub[j] EXCEPT
                    !.todo = sub[j].todo \ {n},
                    !.stored = IF ok THEN sub[j].stored \cup {n} ELSE sub[j].stored]]
      BY <1>3 DEF StoreReplica, TypeOK
    <3> QED BY <3>1, <3>2, RecordWrites DEF TypeOK
  <2>2. StoreType' /\ happened' \in [{"crash", "leave", "evict", "fault"} -> Nat]
    BY <1>3, StoreJobTypes, NewCopyType DEF StoreReplica
  <2> QED BY <1>3, <2>1, <2>2 DEF StoreReplica, TypeOK, StoreType, watcher
<1>4. CASE Accept(j)
  <2>1. sub' \in [Jobs -> Sub]
    <3>1. sub' = [sub EXCEPT ![j] = [sub[j] EXCEPT !.step = "accepted"]]
      BY <1>4 DEF Accept, TypeOK
    <3> QED BY <3>1, RecordWrites DEF TypeOK
  <2> QED BY <1>4, <2>1 DEF Accept, TypeOK, jobs, ring, watcher
<1> QED BY <1>1, <1>2, <1>3, <1>4 DEF Submitting

(* The workers.                                                            *)
LEMMA WorkingTypes ==
  ASSUME TypeOK, NEW n \in Nodes, NEW k \in Keys, Working(n, k)
  PROVE  TypeOK'
<1>1. CASE Claim(n, k)
  <2>1. store[n][k] \in Copy
    BY <1>1 DEF Claim, TypeOK
  <2>2. [store[n][k] EXCEPT !.status = "claimed", !.by = n] \in Copy /\ store[n][k].job \in Jobs
    BY <2>1 DEF Copy, Active
  <2>3. store' = [store EXCEPT ![n][k] = [store[n][k] EXCEPT !.status = "claimed", !.by = n]]
    BY <1>1 DEF Claim, TypeOK
  <2>4. store' \in [Nodes -> [Keys -> Copy \cup {None}]]
    BY <2>2, <2>3 DEF TypeOK
  <2>5. running' \in SUBSET (Nodes \X Keys) /\ ran' \in SUBSET (Nodes \X Jobs)
    BY <1>1, <2>2 DEF Claim, TypeOK
  <2> QED BY <1>1, <2>4, <2>5 DEF Claim, TypeOK, ring, watcher
<1>2. CASE Finish(n, k)
  <2>1. store[n][k] # None => [store[n][k] EXCEPT !.status = "done"] \in Copy
    <3>1. store[n][k] \in Copy \cup {None}
      BY DEF TypeOK
    <3> QED BY <3>1, RecordWrites
  <2>2. store' \in [Nodes -> [Keys -> Copy \cup {None}]]
    BY <1>2, <2>1 DEF Finish, TypeOK
  <2>3. running' \in SUBSET (Nodes \X Keys)
    BY <1>2 DEF Finish, TypeOK
  <2> QED BY <1>2, <2>2, <2>3 DEF Finish, TypeOK, ring, watcher
<1> QED BY <1>1, <1>2 DEF Working

(* The failure watchers.                                                   *)
LEMMA WatchingTypes ==
  ASSUME TypeOK, NEW n \in Nodes, Watching(n)
  PROVE  TypeOK'
<1> DEFINE Sound == watch' \in [Nodes -> Watch]
<1>1. CASE Check(n)
  <2>1. Sound
    BY <1>1 DEF Check, SetWatch, TypeOK, Watch
  <2>2. last' \in [Nodes -> Nodes \cup {None}]
    BY <1>1 DEF Check, TypeOK
  <2> QED BY <1>1, <2>1, <2>2 DEF Check, TypeOK, jobs, ring
<1>2. CASE Promote(n)
  <2> DEFINE new(k) == IF ~Promotable(store[n][k]) THEN store[n][k]
                       ELSE [store[n][k] EXCEPT !.replica = FALSE, !.by = None,
                                                !.status = "pending"]
  <2>1. ASSUME NEW k \in Keys PROVE new(k) \in Copy \cup {None}
    <3>1. store[n][k] \in Copy \cup {None}
      BY DEF TypeOK
    <3>2. Promotable(store[n][k]) => store[n][k] \in Copy
      BY <3>1 DEF Promotable
    <3> QED BY <3>1, <3>2, RecordWrites
  <2>2. store' \in [Nodes -> [Keys -> Copy \cup {None}]]
    <3>1. store' = [store EXCEPT ![n] = [k \in Keys |-> new(k)]]
      BY <1>2 DEF Promote, TypeOK
    <3> HIDE DEF new
    <3> QED BY <2>1, <3>1 DEF TypeOK
  <2>3. Sound
    BY <1>2, RecordWrites DEF Promote, SetWatch, TypeOK
  <2> QED BY <1>2, <2>2, <2>3 DEF Promote, TypeOK, ring
<1>3. ASSUME NEW known \in BOOLEAN, Orphans(n, known) PROVE TypeOK'
  <2> DEFINE found == {store[n][k].job : k \in {x \in Keys : IsOrphan(store[n][x], watch[n].failed)}}
  <2>1. found \subseteq Jobs
    BY DEF IsOrphan, TypeOK, Copy
  <2>2. watch[n].survivors \subseteq Nodes
    BY DEF TypeOK, Watch
  <2>3. PICK f \in [IF known THEN found ELSE {} -> watch[n].survivors] :
          watch' = [watch EXCEPT ![n] = [watch[n] EXCEPT !.step = "store",
                                           !.todo = {<<j, f[j]>> : j \in DOMAIN f}]]
    BY <1>3 DEF Orphans, SetWatch
  <2>4. {<<j, f[j]>> : j \in DOMAIN f} \subseteq Jobs \X Nodes
    BY <2>1, <2>2, <2>3
  <2>5. Sound
    BY <2>3, <2>4, RecordWrites DEF TypeOK
  <2> QED BY <1>3, <2>5 DEF Orphans, TypeOK, jobs, ring
<1>4. ASSUME NEW j \in Jobs, NEW m \in Nodes, NEW ok \in BOOLEAN, Restore(n, j, m, ok)
      PROVE  TypeOK'
  <2>1. Sound
    <3>1. watch[n].todo \ {<<j, m>>} \in SUBSET (Jobs \X Nodes)
      BY DEF TypeOK, Watch
    <3> QED BY <1>4, <3>1, RecordWrites DEF Restore, SetWatch, TypeOK
  <2>2. StoreType' /\ happened' \in [{"crash", "leave", "evict", "fault"} -> Nat]
    BY <1>4, StoreJobTypes, NewCopyType DEF Restore
  <2> QED BY <1>4, <2>1, <2>2 DEF Restore, TypeOK, StoreType
<1>5. CASE Recovered(n)
  <2>1. Sound
    <3>1. NoWatch \in Watch
      BY PlacementAssumption DEF NoWatch, Watch, Nodes
    <3>2. watch' = [watch EXCEPT ![n] = NoWatch]
      BY <1>5 DEF Recovered, SetWatch
    <3> QED BY <3>1, <3>2 DEF TypeOK
  <2> QED BY <1>5, <2>1 DEF Recovered, TypeOK, jobs, ring
<1> QED BY <1>1, <1>2, <1>3, <1>4, <1>5 DEF Watching

(* The ring.                                                               *)
LEMMA TroubleTypes ==
  ASSUME TypeOK
  PROVE  /\ \A t : Trouble(t) => happened' \in [{"crash", "leave", "evict", "fault"} -> Nat]
         /\ \A t, u : Troubles(t, u) => happened' \in [{"crash", "leave", "evict", "fault"} -> Nat]
<1>1. ASSUME NEW t, Trouble(t)
      PROVE  happened' \in [{"crash", "leave", "evict", "fault"} -> Nat]
  <2>1. t \in {"crash", "leave", "evict", "fault"}
    BY <1>1, PlacementAssumption DEF Trouble
  <2> QED BY <1>1, <2>1 DEF Trouble, TypeOK
<1>2. ASSUME NEW t, NEW u, Troubles(t, u)
      PROVE  happened' \in [{"crash", "leave", "evict", "fault"} -> Nat]
  <2>1. {t, u} \subseteq {"crash", "leave", "evict", "fault"}
    BY <1>2, PlacementAssumption DEF Troubles
  <2> QED BY <1>2, <2>1 DEF Troubles, TypeOK
<1> QED BY <1>1, <1>2

LEMMA RingTypes ==
  ASSUME TypeOK, NEW n \in Nodes,
         \/ Crash(n) \/ Exit(n) \/ ClearPredecessor(n) \/ Notify(n)
         \/ \E moved, told \in BOOLEAN : Leave(n, moved, told)
  PROVE  TypeOK'
<1>1. CASE Crash(n)
  BY <1>1, HaltTypes, TroubleTypes DEF Crash, TypeOK, StoreType
<1>2. CASE Exit(n)
  BY <1>2, HaltTypes DEF Exit, TypeOK, StoreType
<1>3. CASE ClearPredecessor(n)
  <2>1. happened' \in [{"crash", "leave", "evict", "fault"} -> Nat]
    BY <1>3, TroubleTypes DEF ClearPredecessor, TypeOK
  <2> QED BY <1>3, <2>1 DEF ClearPredecessor, TypeOK, jobs, watcher
<1>4. CASE Notify(n)
  <2>1. Members \in SUBSET Nodes /\ n \in Members
    BY <1>4 DEF Notify, Members, TypeOK
  <2>2. Before(n, Members) \in Nodes
    BY <2>1, BeforeIsMember
  <2> QED BY <1>4, <2>2 DEF Notify, TypeOK, jobs, watcher
<1>5. ASSUME NEW moved \in BOOLEAN, NEW told \in BOOLEAN, Leave(n, moved, told) PROVE TypeOK'
  <2>1. happened' \in [{"crash", "leave", "evict", "fault"} -> Nat]
    BY <1>5, TroubleTypes DEF Leave
  <2> DEFINE heir == After(n, Members)
             merged == [k \in Keys |-> IF store[n][k] # None THEN store[n][k] ELSE store[heir][k]]
  <2>2. store' \in [Nodes -> [Keys -> Copy \cup {None}]]
    <3>1. store' = store \/ store' = [store EXCEPT ![heir] = merged]
      BY <1>5 DEF Leave, TypeOK
    <3>2. heir \in Nodes => merged \in [Keys -> Copy \cup {None}]
      BY DEF TypeOK
    <3> HIDE DEF heir, merged
    <3> QED BY <3>1, <3>2 DEF TypeOK
  <2>3. pred' \in [Nodes -> Nodes \cup {None}]
    BY <1>5 DEF Leave, TypeOK
  <2> QED BY <1>5, <2>1, <2>2, <2>3 DEF Leave, TypeOK, watcher
<1> QED BY <1>1, <1>2, <1>3, <1>4, <1>5

LEMMA StepTypes == TypeOK /\ [Next]_vars => TypeOK'
<1> SUFFICES ASSUME TypeOK, [Next]_vars PROVE TypeOK'
  OBVIOUS
<1>1. CASE UNCHANGED vars
  BY <1>1 DEF vars, jobs, ring, watcher, TypeOK
<1> QED BY <1>1, SubmissionTypes, WorkingTypes, WatchingTypes, RingTypes DEF Next

(* Every step of clients, workers, watchers and the ring keeps the job     *)
(* records, the pointers, the plans and the recoveries well formed, for    *)
(* every ring, every number of jobs and every trouble (server.py,          *)
(* worker.py).                                                             *)
THEOREM PlacementTypeCorrect == Spec => []TypeOK
BY InitTypes, StepTypes, PTL DEF Spec

(***************************************************************************)
(* Finished copies                                                         *)
(***************************************************************************)
(* The node a leaver hands its data to is another member.                  *)
LEMMA AfterIsMember ==
  ASSUME NEW S \in SUBSET Nodes, NEW n \in S, S # {n}
  PROVE  After(n, S) \in S /\ After(n, S) # n
<1> DEFINE higher == {m \in S : n < m}
<1>0. \A k \in S : k \in Nat
  BY PlacementAssumption DEF Nodes
<1>1. \E m \in S : Before(m, S) = n
  <2>1. CASE higher # {}
    <3>1. PICK m \in higher : \A k \in higher : m <= k
      <4>1. higher \subseteq Nat
        BY <1>0
      <4> HIDE DEF higher
      <4> QED BY <2>1, <4>1, LeastNumber
    <3> DEFINE lower == {k \in S : k < m}
    <3>2. n \in lower /\ \A k \in lower : k <= n
      BY <3>1 DEF Nodes
    <3>3. \A k \in lower : (\A x \in lower : x <= k) => k = n
      BY <3>2 DEF Nodes
    <3>4. Before(m, S) = CHOOSE k \in lower : \A x \in lower : x <= k
      BY <3>2 DEF Before
    <3> HIDE DEF lower
    <3>5. Before(m, S) = n
      BY <3>2, <3>3, <3>4
    <3> QED BY <3>5
  <2>2. CASE higher = {}
    <3>1. PICK m \in S : \A k \in S : m <= k
      <4>1. S \subseteq Nat
        BY <1>0
      <4> QED BY <4>1, LeastNumber
    <3>2. {k \in S : k < m} = {}
      <4>1. \A k \in S : ~(k < m)
        BY <1>0, <3>1
      <4> QED BY <4>1
    <3>3. \A k \in S : k <= n
      BY <2>2 DEF Nodes
    <3>4. \A k \in S : (\A x \in S : x <= k) => k = n
      BY <3>3 DEF Nodes
    <3>5. Before(m, S) = CHOOSE k \in S : \A x \in S : x <= k
      BY <3>2 DEF Before
    <3>6. Before(m, S) = n
      BY <3>3, <3>4, <3>5
    <3> QED BY <3>6
  <2> QED BY <2>1, <2>2
<1>2. After(n, S) \in S /\ Before(After(n, S), S) = n
  BY <1>1 DEF After
<1> QED BY <1>2, BeforeIsMember

(* A record that is there and whose job has been executed.                 *)
Finished(c) == c # None /\ c.status \notin Active
StaysFinished == \A n \in Nodes, k \in Keys :
  n \in up' /\ Finished(store[n][k]) => Finished(store'[n][k])

(* A step that draws no key and makes no record, and reopens none.         *)
Quiet ==
  /\ drawn' = drawn /\ Members' \subseteq Members
  /\ \A n \in Nodes, k \in Keys : store'[n][k] # None => store[n][k] # None
  /\ StaysFinished

LEMMA QuietSteps ==
  ASSUME FinishInv, Quiet
  PROVE  KeysFresh' /\ OneHolder' /\ StaysFinished
BY DEF FinishInv, Quiet, KeysFresh, OneHolder, TypeOK, Members

LEMMA StoreJobFinish ==
  ASSUME FinishInv, NEW h, NEW n \in Nodes, NEW copy \in Copy, NEW ok,
         StoreJob(h, n, copy, ok), UNCHANGED <<up, leaving>>
  PROVE  KeysFresh' /\ OneHolder' /\ StaysFinished
<1> USE DEF FinishInv
<1>1. CASE UNCHANGED jobs
  <2>1. Quiet
    BY <1>1 DEF Quiet, jobs, Members, StaysFinished
  <2> QED BY <2>1, QuietSteps
<1>2. CASE /\ drawn' = drawn + 1 /\ drawn + 1 \in Keys
           /\ store' = [store EXCEPT ![n][drawn + 1] = copy]
  <2>1. \A m \in Nodes, k \in Keys : k # drawn + 1 => store'[m][k] = store[m][k]
    BY <1>2 DEF TypeOK
  <2>2. drawn + 1 > drawn /\ \A k \in Keys : k > drawn + 1 => k > drawn /\ k # drawn + 1
    BY <1>2 DEF TypeOK, Keys
  <2>3. \A m \in Nodes : store[m][drawn + 1] = None /\ (m # n => store'[m][drawn + 1] = None)
    BY <1>2, <2>2 DEF KeysFresh, TypeOK
  <2>4. KeysFresh'
    BY <1>2, <2>1, <2>2 DEF KeysFresh
  <2>5. OneHolder'
    <3> SUFFICES ASSUME NEW k \in Keys, NEW a \in Members, NEW b \in Members,
                        store'[a][k] # None, store'[b][k] # None
                 PROVE  a = b
      BY DEF OneHolder, Members
    <3>1. a \in Nodes /\ b \in Nodes
      BY DEF Members, TypeOK
    <3>2. CASE k = drawn + 1
      BY <2>3, <3>1, <3>2
    <3>3. CASE k # drawn + 1
      BY <2>1, <3>1, <3>3 DEF OneHolder
    <3> QED BY <3>2, <3>3
  <2>6. StaysFinished
    BY <2>1, <2>3 DEF StaysFinished, Finished
  <2> QED BY <2>4, <2>5, <2>6
<1> QED BY <1>1, <1>2, StoreJobSteps

LEMMA HaltFinish ==
  ASSUME FinishInv, NEW n \in Nodes, Halt(n)
  PROVE  KeysFresh' /\ OneHolder' /\ StaysFinished
<1>1. \A m \in Nodes, k \in Keys :
        store'[m][k] = IF m = n THEN None ELSE store[m][k]
  BY DEF Halt, TypeOK, FinishInv
<1>2. Quiet
  BY <1>1 DEF Halt, Quiet, StaysFinished, Members
<1> QED BY <1>2, QuietSteps

(* leave moves records to a member that holds none of the same keys.       *)
LEMMA LeaveFinish ==
  ASSUME FinishInv, NEW n \in Nodes, NEW moved \in BOOLEAN, NEW told \in BOOLEAN,
         Leave(n, moved, told)
  PROVE  KeysFresh' /\ OneHolder' /\ StaysFinished
<1> DEFINE heir == After(n, Members)
<1> USE DEF FinishInv
<1>1. n \in Members /\ Members # {n} /\ Members \in SUBSET Nodes
  BY DEF Leave, Members, TypeOK
<1>2. heir \in Members /\ heir # n
  BY <1>1, AfterIsMember
<1> HIDE DEF heir
<1>3. Members' = Members \ {n} /\ up' = up /\ drawn' = drawn
  BY DEF Leave, Members
<1>4. CASE ~moved
  <2>1. store' = store
    BY <1>4 DEF Leave
  <2>2. Quiet
    BY <1>3, <2>1 DEF Quiet, StaysFinished
  <2> QED BY <2>2, QuietSteps
<1>5. CASE moved
  <2>1. \A m \in Nodes, k \in Keys :
          store'[m][k] = IF m = heir /\ store[n][k] # None THEN store[n][k] ELSE store[m][k]
    BY <1>5 DEF Leave, TypeOK, heir
  <2>2. \A k \in Keys : store[n][k] # None => store[heir][k] = None
    BY <1>1, <1>2 DEF OneHolder
  <2>3. KeysFresh'
    BY <1>3, <2>1 DEF KeysFresh
  <2>4. OneHolder'
    <3> SUFFICES ASSUME NEW k \in Keys, NEW a \in Members \ {n}, NEW b \in Members \ {n},
                        store'[a][k] # None, store'[b][k] # None
                 PROVE  a = b
      BY <1>3 DEF OneHolder
    <3>1. a \in Nodes /\ b \in Nodes
      BY <1>1
    <3>2. CASE store[n][k] = None
      BY <2>1, <3>1, <3>2 DEF OneHolder
    <3>3. CASE store[n][k] # None
      <4>1. \A m \in Members \ {n} : m # heir => store'[m][k] = None
        BY <1>1, <2>1, <3>3 DEF OneHolder
      <4> QED BY <4>1
    <3> QED BY <3>2, <3>3
  <2>5. StaysFinished
    BY <2>1, <2>2 DEF StaysFinished, Finished
  <2> QED BY <2>3, <2>4, <2>5
<1> QED BY <1>4, <1>5

LEMMA WorkingFinish ==
  ASSUME FinishInv, NEW n \in Nodes, NEW k \in Keys, Working(n, k)
  PROVE  KeysFresh' /\ OneHolder' /\ StaysFinished
<1> USE DEF FinishInv
<1>1. UNCHANGED <<drawn, up, leaving>>
  BY DEF Working, Claim, Finish, ring
<1>2. \A m \in Nodes, x \in Keys : <<m, x>> # <<n, k>> => store'[m][x] = store[m][x]
  BY DEF Working, Claim, Finish, TypeOK
<1>3. store'[n][k] # None => store[n][k] # None
  BY DEF Working, Claim, Finish
<1>4. Finished(store[n][k]) => Finished(store'[n][k])
  <2> SUFFICES ASSUME Finished(store[n][k]) PROVE Finished(store'[n][k])
    OBVIOUS
  <2>1. CASE Claim(n, k)
    BY <2>1 DEF Claim, Finished, Active
  <2>2. CASE Finish(n, k)
    <3>1. store'[n][k] = [store[n][k] EXCEPT !.status = "done"]
      BY <2>2 DEF Finish, Finished, TypeOK
    <3>2. store[n][k] \in Copy
      BY DEF Finished, TypeOK
    <3>3. store'[n][k] \in Copy /\ store'[n][k].status = "done"
      BY <3>1, <3>2, RecordWrites DEF Copy
    <3> QED BY <3>3, PlacementAssumption DEF Finished, Active
  <2> QED BY <2>1, <2>2 DEF Working
<1>5. Quiet
  BY <1>1, <1>2, <1>3, <1>4 DEF Quiet, Members, StaysFinished
<1> QED BY <1>5, QuietSteps

LEMMA PromoteFinish ==
  ASSUME FinishInv, NEW n \in Nodes, Promote(n)
  PROVE  KeysFresh' /\ OneHolder' /\ StaysFinished
<1> USE DEF FinishInv
<1>1. UNCHANGED <<drawn, up, leaving>>
  BY DEF Promote, ring
<1>2. \A m \in Nodes, x \in Keys :
        ~Promotable(store[m][x]) => store'[m][x] = store[m][x]
  BY DEF Promote, TypeOK
<1>3. \A m \in Nodes, x \in Keys :
        Promotable(store[m][x]) => store[m][x] # None /\ ~Finished(store[m][x])
  BY DEF Promotable, Finished
<1>4. Quiet
  BY <1>1, <1>2, <1>3 DEF Quiet, Members, StaysFinished
<1> QED BY <1>4, QuietSteps

LEMMA StepFinish ==
  ASSUME FinishInv, [Next]_vars
  PROVE  FinishInv' /\ StaysFinished
<1>1. ASSUME UNCHANGED <<store, drawn, up, leaving>>
      PROVE  KeysFresh' /\ OneHolder' /\ StaysFinished
  <2>1. Quiet
    BY <1>1 DEF Quiet, Members, StaysFinished
  <2> QED BY <2>1, QuietSteps
<1> USE DEF jobs, ring
<1>2. CASE UNCHANGED vars
  BY <1>1, <1>2, StepTypes DEF FinishInv, vars
<1>3. ASSUME NEW j \in Jobs, \E h \in Homes, seen \in SUBSET Nodes, f \in Factors : Submit(j, h, seen, f)
      PROVE  KeysFresh' /\ OneHolder' /\ StaysFinished
  BY <1>1, <1>3 DEF Submit
<1>4. ASSUME NEW j \in Jobs, Submitting(j) PROVE KeysFresh' /\ OneHolder' /\ StaysFinished
  <2>1. sub[j].target \in Nodes
    BY DEF FinishInv, TypeOK, Sub
  <2>2. ASSUME NEW ok \in BOOLEAN, StorePrimary(j, ok) PROVE KeysFresh' /\ OneHolder' /\ StaysFinished
    BY <2>1, <2>2, StoreJobFinish, NewCopyType DEF StorePrimary
  <2>3. ASSUME NEW ok \in BOOLEAN, NEW n \in Nodes, StoreReplica(j, n, ok)
        PROVE  KeysFresh' /\ OneHolder' /\ StaysFinished
    BY <2>3, StoreJobFinish, NewCopyType DEF StoreReplica
  <2>4. CASE Accept(j)
    BY <1>1, <2>4 DEF Accept
  <2> QED BY <1>4, <2>2, <2>3, <2>4 DEF Submitting
<1>5. ASSUME NEW n \in Nodes, Watching(n) PROVE KeysFresh' /\ OneHolder' /\ StaysFinished
  <2>1. CASE Check(n) \/ Recovered(n) \/ \E known \in BOOLEAN : Orphans(n, known)
    BY <1>1, <2>1 DEF Check, Recovered, Orphans
  <2>2. CASE \E j \in Jobs, m \in Nodes, ok \in BOOLEAN : Restore(n, j, m, ok)
    BY <2>2, StoreJobFinish, NewCopyType DEF Restore
  <2> QED BY <1>5, <2>1, <2>2, PromoteFinish DEF Watching
<1>6. ASSUME NEW n \in Nodes, Crash(n) \/ Exit(n)
      PROVE  KeysFresh' /\ OneHolder' /\ StaysFinished
  BY <1>6, HaltFinish DEF Crash, Exit
<1>7. ASSUME NEW n \in Nodes, ClearPredecessor(n) \/ Notify(n)
      PROVE  KeysFresh' /\ OneHolder' /\ StaysFinished
  BY <1>1, <1>7 DEF ClearPredecessor, Notify
<1>8. ASSUME Next PROVE KeysFresh' /\ OneHolder' /\ StaysFinished
  BY <1>3, <1>4, <1>5, <1>6, <1>7, <1>8, LeaveFinish, WorkingFinish DEF Next
<1> QED BY <1>2, <1>8, StepTypes DEF FinishInv

(* A copy of a job that has been executed on a node stays finished while   *)
(* the node runs, whatever else happens: the promotion of replicas, a late *)
(* write of the executor, a second submission and the data a leaving       *)
(* neighbour hands over never reopen it (worker.py, server.py).  The last  *)
(* of these needs the invariant that a key names a record of one member    *)
(* only.                                                                   *)
THEOREM FinishedCopiesStay == Spec => FinishedStaysFinished
<1>1. Init => FinishInv
  BY InitTypes DEF Init, FinishInv, KeysFresh, OneHolder, Members
<1>2. FinishInv /\ [Next]_vars => FinishInv' /\ StaysFinished
  BY StepFinish
<1>3. StaysFinished =>
        [\A n \in Nodes, k \in Keys :
           n \in up' /\ store[n][k] # None /\ store[n][k].status \notin Active
             => store'[n][k] # None /\ store'[n][k].status \notin Active]_vars
  BY DEF StaysFinished, Finished
<1> QED BY <1>1, <1>2, <1>3, PTL DEF Spec, FinishedStaysFinished

(***************************************************************************)
(* Executions on the plan                                                  *)
(***************************************************************************)
NoLeave == happened["leave"] = 0
RunsOnPlan == \A n \in Nodes, j \in Jobs : <<n, j>> \in ran => OnPlan(n, j)

LEMMA PlanParts == Planned <=> (NoLeave => /\ leaving = {} /\ NoSelfSuspicion
                                          /\ CopiesOnPlan /\ RunsOnPlan)
BY DEF Planned, NoLeave, RunsOnPlan

(* What a submission has planned stays planned.                            *)
PlansStay == \A n \in Nodes, j \in Jobs : OnPlan(n, j) => OnPlan(n, j)'

(* The records after a step are on their plans because those before were:  *)
(* a copy that is there was there before, for the same job, and nobody     *)
(* else has claimed it.                                                    *)
SameCopies == \A n \in Nodes, k \in Keys : store'[n][k] # None =>
  /\ store[n][k] # None /\ store'[n][k].job = store[n][k].job
  /\ store'[n][k].by \in {None, n, store[n][k].by}

LEMMA SameCopiesStay ==
  ASSUME TypeOK, CopiesOnPlan, PlansStay, SameCopies
  PROVE  CopiesOnPlan'
<1> SUFFICES ASSUME NEW n \in Nodes, NEW k \in Keys, store'[n][k] # None
             PROVE  /\ store'[n][k].by \in {None, n}
                    /\ sub'[store'[n][k].job].step # "new"
                    /\ n \in sub'[store'[n][k].job].planned
  BY DEF CopiesOnPlan, OnPlan
<1>1. store[n][k] # None /\ store'[n][k].job = store[n][k].job
      /\ store'[n][k].by \in {None, n, store[n][k].by}
  BY DEF SameCopies
<1>2. store[n][k].job \in Jobs
  BY <1>1 DEF TypeOK, Copy
<1>3. store[n][k].by \in {None, n} /\ OnPlan(n, store[n][k].job)
  BY <1>1 DEF CopiesOnPlan
<1>4. sub'[store[n][k].job].step # "new" /\ n \in sub'[store[n][k].job].planned
  BY <1>2, <1>3 DEF PlansStay, OnPlan
<1> QED BY <1>1, <1>3, <1>4

LEMMA RunsStay ==
  ASSUME RunsOnPlan, PlansStay, ran' = ran
  PROVE  RunsOnPlan'
BY DEF RunsOnPlan, PlansStay, OnPlan

(* Submissions.                                                            *)
LEMMA PlansOfSubmissions ==
  ASSUME TypeOK, PlansKept, [Next]_vars
  PROVE  PlansKept' /\ PlansStay
<1>1. ASSUME UNCHANGED sub PROVE PlansKept' /\ PlansStay
  BY <1>1 DEF PlansKept, PlansStay, OnPlan
<1>2. ASSUME NEW j \in Jobs, NEW h \in Homes, NEW seen \in SUBSET Nodes, NEW f \in Factors,
             Submit(j, h, seen, f)
      PROVE  PlansKept' /\ PlansStay
  <2>1. PICK S \in SUBSET Nodes, n \in Nodes :
          n \in S /\
          sub' = [sub EXCEPT ![j] = [step |-> "primary", home |-> h, target |-> n,
                                     todo |-> S \ {n}, planned |-> S, stored |-> {}]]
    BY <1>2 DEF Submit, Plans, Primary
  <2>2. sub[j].step = "new"
    BY <1>2 DEF Submit
  <2>3. \A i \in Jobs : i # j => sub'[i] = sub[i]
    BY <2>1 DEF TypeOK
  <2>4. sub'[j].target \in sub'[j].planned /\ sub'[j].todo \subseteq sub'[j].planned
    BY <2>1 DEF TypeOK
  <2> QED BY <2>2, <2>3, <2>4 DEF PlansKept, PlansStay, OnPlan
<1>3. ASSUME NEW j \in Jobs,
             \A i \in Jobs : i # j => sub'[i] = sub[i],
             sub[j].step # "new", sub'[j].step # "new", sub'[j].target = sub[j].target,
             sub'[j].planned = sub[j].planned, sub'[j].todo \subseteq sub[j].todo
      PROVE  PlansKept' /\ PlansStay
  BY <1>3 DEF PlansKept, PlansStay, OnPlan
<1>4. ASSUME NEW j \in Jobs, Submitting(j) PROVE PlansKept' /\ PlansStay
  <2>0. \A i \in Jobs : sub[i] \in Sub
    BY DEF TypeOK
  <2>1. ASSUME NEW ok \in BOOLEAN, StorePrimary(j, ok) PROVE PlansKept' /\ PlansStay
    BY <1>3, <2>0, <2>1 DEF StorePrimary, TypeOK, Sub
  <2>2. ASSUME NEW ok \in BOOLEAN, NEW n \in Nodes, StoreReplica(j, n, ok)
        PROVE  PlansKept' /\ PlansStay
    BY <1>3, <2>0, <2>2 DEF StoreReplica, TypeOK, Sub
  <2>3. CASE Accept(j)
    BY <1>3, <2>0, <2>3 DEF Accept, TypeOK, Sub
  <2> QED BY <1>4, <2>1, <2>2, <2>3 DEF Submitting
<1>5. ASSUME NEW n \in Nodes, Halt(n) PROVE PlansKept' /\ PlansStay
  <2>1. \A j \in Jobs : /\ sub'[j].target = sub[j].target /\ sub'[j].todo = sub[j].todo
                        /\ sub'[j].planned = sub[j].planned
                        /\ sub'[j].step = "new" <=> sub[j].step = "new"
    BY <1>5 DEF Halt, TypeOK, Sub
  <2> QED BY <2>1 DEF PlansKept, PlansStay, OnPlan
<1>6. ASSUME NEW n \in Nodes, Watching(n) PROVE UNCHANGED sub
  BY <1>6 DEF Watching, Check, Promote, Orphans, Restore, Recovered
<1>7. ASSUME NEW n \in Nodes, NEW k \in Keys, Working(n, k) PROVE UNCHANGED sub
  BY <1>7 DEF Working, Claim, Finish
<1>8. ASSUME NEW n \in Nodes,
             ClearPredecessor(n) \/ Notify(n) \/ \E moved, told \in BOOLEAN : Leave(n, moved, told)
      PROVE  UNCHANGED sub
  BY <1>8 DEF ClearPredecessor, Notify, Leave
<1>9. CASE UNCHANGED vars
  BY <1>1, <1>9 DEF vars
<1> QED BY <1>1, <1>2, <1>4, <1>5, <1>6, <1>7, <1>8, <1>9 DEF Next, Crash, Exit

(* The workers execute what is on their node.                              *)
LEMMA WorkingPlan ==
  ASSUME TypeOK, CopiesOnPlan, RunsOnPlan, PlansStay,
         NEW n \in Nodes, NEW k \in Keys, Working(n, k)
  PROVE  CopiesOnPlan' /\ RunsOnPlan'
<1>1. CASE Claim(n, k)
  <2>1. store[n][k] \in Copy /\ store[n][k] # None
    BY <1>1 DEF Claim, TypeOK
  <2>2. SameCopies
    <3>1. \A m \in Nodes, x \in Keys : <<m, x>> # <<n, k>> => store'[m][x] = store[m][x]
      BY <1>1 DEF Claim, TypeOK
    <3>2. store'[n][k].job = store[n][k].job /\ store'[n][k].by = n
      BY <1>1, <2>1 DEF Claim, TypeOK, Copy
    <3> QED BY <2>1, <3>1, <3>2 DEF SameCopies
  <2>3. ran' = ran \cup {<<n, store[n][k].job>>} /\ sub' = sub
    BY <1>1 DEF Claim
  <2>4. OnPlan(n, store[n][k].job)
    BY <2>1 DEF CopiesOnPlan
  <2>5. RunsOnPlan'
    BY <2>3, <2>4 DEF RunsOnPlan, OnPlan
  <2> QED BY <2>2, <2>5, SameCopiesStay
<1>2. CASE Finish(n, k)
  <2>1. \A m \in Nodes, x \in Keys : <<m, x>> # <<n, k>> => store'[m][x] = store[m][x]
    BY <1>2 DEF Finish, TypeOK
  <2>2. store[n][k] # None => /\ store'[n][k].job = store[n][k].job
                              /\ store'[n][k].by = store[n][k].by
    <3>1. store[n][k] # None => store[n][k] \in Copy
      BY DEF TypeOK
    <3> QED BY <1>2, <3>1 DEF Finish, TypeOK, Copy
  <2>3. store[n][k] = None => store'[n][k] = None
    BY <1>2 DEF Finish
  <2>4. SameCopies
    BY <2>1, <2>2, <2>3 DEF SameCopies
  <2>5. ran' = ran
    BY <1>2 DEF Finish
  <2> QED BY <2>4, <2>5, SameCopiesStay, RunsStay
<1> QED BY <1>1, <1>2 DEF Working

(* _store_job puts a copy where the plan has it.                           *)
LEMMA StoreJobPlan ==
  ASSUME TypeOK, CopiesOnPlan, PlansStay,
         NEW h, NEW n \in Nodes, NEW j \in Jobs, NEW replica \in BOOLEAN, NEW ok,
         OnPlan(n, j), StoreJob(h, n, NewCopy(j, replica), ok)
  PROVE  CopiesOnPlan'
<1>1. CASE UNCHANGED jobs
  BY <1>1, SameCopiesStay DEF SameCopies, jobs
<1>2. CASE /\ drawn + 1 \in Keys
           /\ store' = [store EXCEPT ![n][drawn + 1] = NewCopy(j, replica)]
  <2> SUFFICES ASSUME NEW m \in Nodes, NEW k \in Keys, store'[m][k] # None
               PROVE  /\ store'[m][k].by \in {None, m}
                      /\ sub'[store'[m][k].job].step # "new"
                      /\ m \in sub'[store'[m][k].job].planned
    BY DEF CopiesOnPlan, OnPlan
  <2>1. CASE <<m, k>> = <<n, drawn + 1>>
    <3>1. store'[m][k].by = None /\ store'[m][k].job = j /\ m = n
      BY <1>2, <2>1 DEF TypeOK, NewCopy
    <3> QED BY <3>1 DEF PlansStay, OnPlan
  <2>2. CASE <<m, k>> # <<n, drawn + 1>>
    <3>1. store'[m][k] = store[m][k]
      BY <1>2, <2>2 DEF TypeOK
    <3>2. store[m][k].job \in Jobs
      BY <3>1 DEF TypeOK, Copy
    <3>3. store[m][k].by \in {None, m} /\ OnPlan(m, store[m][k].job)
      BY <3>1 DEF CopiesOnPlan
    <3> QED BY <3>1, <3>2, <3>3 DEF PlansStay, OnPlan
  <2> QED BY <2>1, <2>2
<1> QED BY <1>1, <1>2, StoreJobSteps

(* No watcher finds an orphan: only a copy's own node claims it.           *)
LEMMA NoOrphans ==
  ASSUME TypeOK, NoSelfSuspicion, CopiesOnPlan, NEW n \in Nodes, watch[n].step # "idle"
  PROVE  {x \in Keys : IsOrphan(store[n][x], watch[n].failed)} = {}
<1>1. watch[n].failed # n /\ watch[n].failed \in Nodes
  BY DEF NoSelfSuspicion, TypeOK, Watch
<1> QED BY <1>1, PlacementAssumption DEF IsOrphan, CopiesOnPlan

LEMMA WatchingPlan ==
  ASSUME TypeOK, NoSelfSuspicion, CopiesOnPlan, RunsOnPlan, PlansStay,
         NEW n \in Nodes, Watching(n)
  PROVE  NoSelfSuspicion' /\ CopiesOnPlan' /\ RunsOnPlan'
<1>1. ran' = ran /\ pred' = pred
  BY DEF Watching, Check, Promote, Orphans, Restore, Recovered, ring
<1>2. RunsOnPlan'
  BY <1>1, RunsStay
<1>3. \A j \in Jobs, m \in Nodes, ok \in BOOLEAN : ~Restore(n, j, m, ok)
  BY DEF Restore, NoSelfSuspicion
<1>4. SameCopies
  <2>1. CASE Promote(n)
    <3>1. \A m \in Nodes, x \in Keys :
            ~(m = n /\ Promotable(store[m][x])) => store'[m][x] = store[m][x]
      BY <2>1 DEF Promote, TypeOK
    <3>2. ASSUME NEW x \in Keys, Promotable(store[n][x])
          PROVE  store[n][x] # None /\ store'[n][x].job = store[n][x].job /\ store'[n][x].by = None
      <4>1. store[n][x] \in Copy /\ store[n][x] # None
        BY <3>2 DEF Promotable, TypeOK
      <4>2. store'[n][x] = [store[n][x] EXCEPT !.replica = FALSE, !.by = None, !.status = "pending"]
        BY <2>1, <3>2 DEF Promote, TypeOK
      <4> QED BY <4>1, <4>2 DEF Copy
    <3> QED BY <3>1, <3>2 DEF SameCopies
  <2>2. CASE UNCHANGED store
    BY <2>2 DEF SameCopies
  <2> QED BY <1>3, <2>1, <2>2 DEF Watching, Check, Orphans, Recovered, jobs
<1>5. NoSelfSuspicion'
  <2>1. ASSUME NEW w, watch' = [watch EXCEPT ![n] = w], w.todo = {},
               w.step # "idle" => w.failed # n, \A m \in Nodes : last'[m] # m
        PROVE  NoSelfSuspicion'
    BY <1>1, <2>1 DEF NoSelfSuspicion, TypeOK
  <2>2. CASE Check(n)
    <3>1. CASE UNCHANGED last /\ watch' = [watch EXCEPT ![n] =
                 [step |-> "promote", failed |-> last[n],
                  survivors |-> up \ {last[n]}, todo |-> {}]]
      <4> DEFINE w == [step |-> "promote", failed |-> last[n],
                       survivors |-> up \ {last[n]}, todo |-> {}]
      <4>1. w.todo = {} /\ w.failed # n /\ \A m \in Nodes : last'[m] # m
        BY <3>1 DEF NoSelfSuspicion
      <4>2. watch' = [watch EXCEPT ![n] = w]
        BY <3>1
      <4> HIDE DEF w
      <4> QED BY <2>1, <4>1, <4>2
    <3>2. CASE last' = [last EXCEPT ![n] = pred[n]] /\ UNCHANGED watch
      BY <1>1, <3>2 DEF NoSelfSuspicion, TypeOK
    <3> QED BY <2>2, <3>1, <3>2 DEF Check, SetWatch
  <2>3. CASE Promote(n)
    <3> DEFINE w == [watch[n] EXCEPT !.step = "orphans"]
    <3>1. watch' = [watch EXCEPT ![n] = w] /\ UNCHANGED last /\ watch[n].step = "promote"
      BY <2>3 DEF Promote, SetWatch
    <3>2. w.todo = watch[n].todo /\ w.failed = watch[n].failed
      BY DEF TypeOK, Watch
    <3>3. w.todo = {} /\ w.failed # n /\ \A m \in Nodes : last'[m] # m
      BY <3>1, <3>2 DEF NoSelfSuspicion
    <3> HIDE DEF w
    <3> QED BY <2>1, <3>1, <3>3
  <2>4. ASSUME NEW known \in BOOLEAN, Orphans(n, known) PROVE NoSelfSuspicion'
    <3>1. watch[n].step = "orphans"
      BY <2>4 DEF Orphans
    <3>2. {x \in Keys : IsOrphan(store[n][x], watch[n].failed)} = {}
      BY <3>1, NoOrphans
    <3> DEFINE found == {store[n][x].job : x \in {y \in Keys : IsOrphan(store[n][y], watch[n].failed)}}
    <3>3. found = {}
      BY <3>2
    <3>4. PICK f \in [IF known THEN found ELSE {} -> watch[n].survivors] :
             watch' = [watch EXCEPT ![n] = [watch[n] EXCEPT !.step = "store",
                                             !.todo = {<<j, f[j]>> : j \in DOMAIN f}]]
      BY <2>4 DEF Orphans, SetWatch
    <3> HIDE DEF found
    <3>5. {<<j, f[j]>> : j \in DOMAIN f} = {}
      BY <3>3, <3>4
    <3> DEFINE w == [watch[n] EXCEPT !.step = "store", !.todo = {}]
    <3>6. watch' = [watch EXCEPT ![n] = w] /\ UNCHANGED last
      BY <2>4, <3>4, <3>5 DEF Orphans
    <3>7. w.todo = {} /\ w.failed = watch[n].failed
      BY DEF TypeOK, Watch
    <3>8. w.failed # n /\ \A m \in Nodes : last'[m] # m
      BY <3>1, <3>6, <3>7 DEF NoSelfSuspicion
    <3> HIDE DEF w
    <3> QED BY <2>1, <3>6, <3>7, <3>8
  <2>5. CASE Recovered(n)
    <3>1. \A m \in Nodes : last'[m] # m
      BY <2>5, PlacementAssumption DEF Recovered, NoSelfSuspicion, TypeOK
    <3>2. NoWatch.todo = {} /\ NoWatch.step = "idle"
      BY DEF NoWatch
    <3>3. watch' = [watch EXCEPT ![n] = NoWatch]
      BY <2>5 DEF Recovered, SetWatch
    <3> QED BY <2>1, <3>1, <3>2, <3>3
  <2> QED BY <1>3, <2>2, <2>3, <2>4, <2>5 DEF Watching
<1> QED BY <1>2, <1>4, <1>5, SameCopiesStay

(* The ring: a node that notifies is not the notified one.                 *)
LEMMA RingPlan ==
  ASSUME TypeOK, leaving = {}, NoSelfSuspicion, CopiesOnPlan, RunsOnPlan, PlansStay,
         NEW n \in Nodes, Crash(n) \/ Exit(n) \/ ClearPredecessor(n) \/ Notify(n)
  PROVE  leaving' = {} /\ NoSelfSuspicion' /\ CopiesOnPlan' /\ RunsOnPlan'
<1>1. CASE Crash(n)
  <2>1. \A m \in Nodes, k \in Keys : store'[m][k] # None => store'[m][k] = store[m][k]
    BY <1>1 DEF Crash, Halt, TypeOK
  <2>2. SameCopies
    BY <2>1 DEF SameCopies
  <2>3. NoSelfSuspicion'
    BY <1>1 DEF Crash, Halt, NoSelfSuspicion, NoWatch, TypeOK
  <2>4. leaving' = {} /\ ran' = ran
    BY <1>1 DEF Crash, Halt
  <2> QED BY <2>2, <2>3, <2>4, SameCopiesStay, RunsStay
<1>2. CASE Exit(n)
  BY <1>2 DEF Exit
<1>3. ASSUME UNCHANGED <<jobs, leaving, watcher, ran>>, \A m \in Nodes : pred'[m] # m
      PROVE  leaving' = {} /\ NoSelfSuspicion' /\ CopiesOnPlan' /\ RunsOnPlan'
  <2>1. SameCopies
    BY <1>3 DEF SameCopies, jobs
  <2>2. NoSelfSuspicion'
    BY <1>3 DEF NoSelfSuspicion, watcher
  <2> QED BY <1>3, <2>1, <2>2, SameCopiesStay, RunsStay
<1>4. CASE ClearPredecessor(n)
  <2>1. \A m \in Nodes : pred'[m] # m
    BY <1>4, PlacementAssumption DEF ClearPredecessor, NoSelfSuspicion, TypeOK
  <2> QED BY <1>3, <1>4, <2>1 DEF ClearPredecessor
<1>5. CASE Notify(n)
  <2>1. Members \in SUBSET Nodes /\ n \in Members /\ Members # {n}
    BY <1>5 DEF Notify, Members, TypeOK
  <2>2. Before(n, Members) # n
    BY <2>1, BeforeIsMember
  <2>3. \A m \in Nodes : pred'[m] # m
    BY <1>5, <2>2 DEF Notify, NoSelfSuspicion, TypeOK
  <2> QED BY <1>3, <1>5, <2>3 DEF Notify
<1> QED BY <1>1, <1>2, <1>4, <1>5

(* Leaves are counted and the count never falls.                           *)
LEMMA LeavesCounted ==
  ASSUME TypeOK, [Next]_vars, NoLeave'
  PROVE  NoLeave /\ \A n \in Nodes, moved, told \in BOOLEAN : ~Leave(n, moved, told)
<1> DEFINE kinds == {"crash", "leave", "evict", "fault"}
<1>1. happened \in [kinds -> Nat]
  BY DEF TypeOK
<1>2. ASSUME NEW t, Trouble(t) PROVE happened'["leave"] >= happened["leave"]
  BY <1>1, <1>2 DEF Trouble
<1>3. ASSUME NEW n \in Nodes, NEW moved \in BOOLEAN, NEW told \in BOOLEAN, Leave(n, moved, told)
      PROVE  happened'["leave"] > 0
  BY <1>1, <1>3 DEF Leave, Trouble, Troubles
<1>4. ASSUME NEW h, NEW n, NEW c, NEW ok, StoreJob(h, n, c, ok)
      PROVE  happened'["leave"] = happened["leave"]
  BY <1>4, StoreJobSteps
<1>5. \A n \in Nodes, moved, told \in BOOLEAN : ~Leave(n, moved, told)
  BY <1>3 DEF NoLeave
<1>6. happened'["leave"] >= happened["leave"]
  <2>1. CASE UNCHANGED happened
    BY <1>1, <2>1
  <2>2. ASSUME NEW j \in Jobs, NEW ok \in BOOLEAN, NEW n \in Nodes,
               StorePrimary(j, ok) \/ StoreReplica(j, n, ok)
        PROVE  happened'["leave"] = happened["leave"]
    BY <1>4, <2>2 DEF StorePrimary, StoreReplica
  <2>3. ASSUME NEW j \in Jobs, Submitting(j) PROVE happened'["leave"] >= happened["leave"]
    <3>1. Nodes # {}
      BY PlacementAssumption DEF Nodes
    <3> QED BY <1>1, <2>1, <2>2, <2>3, <3>1 DEF Submitting, Accept, ring
  <2>4. ASSUME NEW n \in Nodes, Watching(n) PROVE happened'["leave"] >= happened["leave"]
    <3>1. ASSUME NEW j \in Jobs, NEW m \in Nodes, NEW ok \in BOOLEAN, Restore(n, j, m, ok)
          PROVE  happened'["leave"] = happened["leave"]
      BY <1>4, <3>1 DEF Restore
    <3>2. ASSUME Check(n) \/ Promote(n) \/ Recovered(n) \/ \E known \in BOOLEAN : Orphans(n, known)
          PROVE  UNCHANGED happened
      BY <3>2 DEF Check, Promote, Recovered, Orphans, ring
    <3>3. happened'["leave"] = happened["leave"]
      BY <2>4, <3>1, <3>2 DEF Watching
    <3> QED BY <1>1, <3>3
  <2>5. ASSUME NEW n \in Nodes, Crash(n) \/ Exit(n) \/ ClearPredecessor(n) \/ Notify(n)
        PROVE  happened'["leave"] >= happened["leave"]
    BY <1>2, <2>1, <2>5 DEF Crash, Exit, ClearPredecessor, Notify
  <2>6. ASSUME NEW n \in Nodes, NEW k \in Keys, Working(n, k) PROVE UNCHANGED happened
    BY <2>6 DEF Working, Claim, Finish, ring
  <2>7. ASSUME NEW j \in Jobs, NEW h \in Homes, NEW seen \in SUBSET Nodes, NEW f \in Factors,
               Submit(j, h, seen, f)
        PROVE  UNCHANGED happened
    BY <2>7 DEF Submit, ring
  <2>8. CASE UNCHANGED vars
    BY <2>1, <2>8 DEF vars, ring
  <2> QED BY <1>5, <2>1, <2>3, <2>4, <2>5, <2>6, <2>7, <2>8 DEF Next
<1>7. NoLeave
  <2>1. happened["leave"] \in Nat /\ happened'["leave"] = 0
    BY <1>1 DEF NoLeave
  <2> QED BY <1>6, <2>1 DEF NoLeave
<1> QED BY <1>5, <1>7

LEMMA SubmittingPlan ==
  ASSUME TypeOK, PlansKept, CopiesOnPlan, RunsOnPlan, PlansStay, NEW j \in Jobs, Submitting(j)
  PROVE  CopiesOnPlan' /\ RunsOnPlan'
<1>1. RunsOnPlan'
  <2>1. ran' = ran
    BY DEF Submitting, StorePrimary, StoreReplica, Accept
  <2> QED BY <2>1, RunsStay
<1>2. ASSUME NEW ok \in BOOLEAN, StorePrimary(j, ok) PROVE CopiesOnPlan'
  <2>1. OnPlan(sub[j].target, j) /\ sub[j].target \in Nodes
    BY <1>2 DEF StorePrimary, PlansKept, OnPlan, TypeOK, Sub
  <2> QED BY <1>2, <2>1, StoreJobPlan DEF StorePrimary
<1>3. ASSUME NEW ok \in BOOLEAN, NEW n \in Nodes, StoreReplica(j, n, ok) PROVE CopiesOnPlan'
  <2>1. OnPlan(n, j)
    BY <1>3 DEF StoreReplica, PlansKept, OnPlan
  <2> QED BY <1>3, <2>1, StoreJobPlan DEF StoreReplica
<1>4. CASE Accept(j)
  <2>1. SameCopies
    BY <1>4 DEF Accept, SameCopies, jobs
  <2> QED BY <1>1, <2>1, SameCopiesStay
<1> QED BY <1>1, <1>2, <1>3, <1>4 DEF Submitting

LEMMA StepPlan ==
  ASSUME PlanInv, [Next]_vars
  PROVE  PlanInv'
<1>1. TypeOK /\ PlansKept /\ TypeOK' /\ PlansKept' /\ PlansStay
  BY StepTypes, PlansOfSubmissions DEF PlanInv
<1>2. ASSUME NoLeave'
      PROVE  leaving' = {} /\ NoSelfSuspicion' /\ CopiesOnPlan' /\ RunsOnPlan'
  <2>1. NoLeave /\ \A n \in Nodes, moved, told \in BOOLEAN : ~Leave(n, moved, told)
    BY <1>1, <1>2, LeavesCounted
  <2>2. leaving = {} /\ NoSelfSuspicion /\ CopiesOnPlan /\ RunsOnPlan
    BY <2>1, PlanParts DEF PlanInv
  <2>3. ASSUME UNCHANGED <<leaving, pred, last, watch>> PROVE leaving' = {} /\ NoSelfSuspicion'
    BY <2>2, <2>3 DEF NoSelfSuspicion
  <2>4. ASSUME UNCHANGED <<store, ran>> PROVE CopiesOnPlan' /\ RunsOnPlan'
    <3>1. SameCopies
      BY <2>4 DEF SameCopies
    <3> QED BY <1>1, <2>2, <2>4, <3>1, SameCopiesStay, RunsStay
  <2>5. ASSUME NEW j \in Jobs, NEW h \in Homes, NEW seen \in SUBSET Nodes, NEW f \in Factors,
               Submit(j, h, seen, f)
        PROVE  UNCHANGED <<leaving, pred, last, watch, store, ran>>
    BY <2>5 DEF Submit, ring, watcher, jobs
  <2>6. ASSUME NEW j \in Jobs, Submitting(j)
        PROVE  /\ UNCHANGED <<leaving, pred, last, watch>>
               /\ CopiesOnPlan' /\ RunsOnPlan'
    <3>1. UNCHANGED <<leaving, pred, last, watch>>
      BY <2>6 DEF Submitting, StorePrimary, StoreReplica, Accept, ring, watcher
    <3> QED BY <1>1, <2>2, <2>6, <3>1, SubmittingPlan
  <2>7. ASSUME NEW n \in Nodes, NEW k \in Keys, Working(n, k)
        PROVE  /\ UNCHANGED <<leaving, pred, last, watch>>
               /\ CopiesOnPlan' /\ RunsOnPlan'
    <3>1. UNCHANGED <<leaving, pred, last, watch>>
      BY <2>7 DEF Working, Claim, Finish, ring, watcher
    <3> QED BY <1>1, <2>2, <2>7, <3>1, WorkingPlan
  <2>8. ASSUME NEW n \in Nodes, Watching(n)
        PROVE  leaving' = {} /\ NoSelfSuspicion' /\ CopiesOnPlan' /\ RunsOnPlan'
    <3>1. leaving' = leaving
      BY <2>8 DEF Watching, Check, Promote, Orphans, Restore, Recovered, ring
    <3> QED BY <1>1, <2>2, <2>8, <3>1, WatchingPlan
  <2>9. ASSUME NEW n \in Nodes, Crash(n) \/ Exit(n) \/ ClearPredecessor(n) \/ Notify(n)
        PROVE  leaving' = {} /\ NoSelfSuspicion' /\ CopiesOnPlan' /\ RunsOnPlan'
    BY <1>1, <2>2, <2>9, RingPlan
  <2>10. CASE UNCHANGED vars
    BY <2>3, <2>4, <2>10 DEF vars, ring, watcher, jobs
  <2>11. CASE Next
    BY <2>1, <2>3, <2>4, <2>5, <2>6, <2>7, <2>8, <2>9, <2>11 DEF Next
  <2> QED BY <2>10, <2>11
<1>3. Planned'
  BY <1>2 DEF Planned, NoLeave, RunsOnPlan
<1> QED BY <1>1, <1>3 DEF PlanInv

LEMMA InitPlan == Init => PlanInv
<1> SUFFICES ASSUME Init PROVE PlanInv
  OBVIOUS
<1>1. \A n \in Nodes : Before(n, Nodes) # n
  <2>1. \A n \in Nodes : Nodes # {n}
    BY PlacementAssumption DEF Nodes
  <2> QED BY <2>1, BeforeIsMember
<1>2. NoSelfSuspicion
  BY <1>1 DEF Init, NoSelfSuspicion, NoWatch
<1>3. PlansKept
  BY DEF Init, PlansKept, NoSub
<1>4. leaving = {} /\ CopiesOnPlan /\ RunsOnPlan
  BY DEF Init, CopiesOnPlan, RunsOnPlan
<1> QED BY <1>2, <1>3, <1>4, InitTypes, PlanParts DEF PlanInv

LEMMA PlanBoundsRuns == PlanInv => OneNodeRuns
<1> SUFFICES ASSUME PlanInv, NEW j \in Jobs, Cardinality(sub[j].planned) = 1, NoLeave
             PROVE  Cardinality({n \in Nodes : <<n, j>> \in ran}) <= 1
  BY DEF OneNodeRuns, NoLeave
<1> DEFINE R == {n \in Nodes : <<n, j>> \in ran}
<1>1. R \subseteq sub[j].planned
  BY PlanParts DEF PlanInv, RunsOnPlan, OnPlan
<1>2. sub[j].planned \subseteq Nodes
  BY DEF PlanInv, TypeOK, Sub
<1>3. IsFiniteSet(Nodes)
  BY FS_Interval, PlacementAssumption DEF Nodes
<1>4. IsFiniteSet(sub[j].planned)
  BY <1>2, <1>3, FS_Subset
<1> HIDE DEF R
<1>5. Cardinality(R) <= Cardinality(sub[j].planned)
  BY <1>1, <1>4, FS_Subset
<1> QED BY <1>5 DEF R

(* While nobody leaves, a job is executed only on the nodes its plan       *)
(* names, so a job without replicas on one node: crashes, lost answers of  *)
(* _store_job and a predecessor wrongly taken for dead start no second     *)
(* execution elsewhere, for every ring of two or more nodes.  The reason   *)
(* is that only the node of a record claims it, so that the watcher's      *)
(* search for orphans of a dead neighbour finds nothing (server.py,        *)
(* worker.py).                                                             *)
THEOREM OnePlannedNodeRuns == Spec => []OneNodeRuns
BY InitPlan, StepPlan, PlanBoundsRuns, PTL DEF Spec
=============================================================================
