---------------------------- MODULE JobPlacement ----------------------------
(***************************************************************************)
(* Jobs on several nodes: submission with the placement and replication    *)
(* plans of the agents, the workers of all nodes (JobWorker shows one in   *)
(* detail), and the failure watcher that promotes replicas and stores      *)
(* orphans again when its node's predecessor pointer is cleared.           *)
(* One step is one remote call or one lock region.  The agents choose by   *)
(* their heuristics; a language model is not modelled.                     *)
(***************************************************************************)
EXTENDS Integers, FiniteSets

CONSTANTS N, Jobs, None,
          Factors,       \* the "replicas" a client may ask for
          Homes,         \* the nodes clients submit to
          MaxKeys,       \* bound: keys handed out
          Kinds,         \* the kinds of trouble that happen
          MaxTroubles    \* bound: of all kinds in one behaviour

Nodes == 1 .. N          \* in ring order
Keys == 1 .. MaxKeys     \* make_job_key_for draws a new one each time

VARIABLES store,     \* the job records, by node and key
          drawn,     \* keys handed out
          running,   \* <<n, k>> while a thread of n executes what it claimed at k
          up,        \* the processes that run
          leaving,   \* those that have left the ring and are about to exit
          pred,      \* the predecessor pointers
          last,      \* _last_predecessor_id of each watcher
          watch,     \* the recovery each watcher is in
          sub,       \* the submissions
          ran,       \* history: <<node, job>> of the executions begun
          happened   \* troubles so far

ring == <<up, leaving, pred, happened>>
jobs == <<store, drawn>>
watcher == <<last, watch>>
vars == <<jobs, running, ring, watcher, sub, ran>>

(* RUNNING is part of claimed, FAILED of done: JobWorker tells them apart. *)
Active == {"pending", "claimed"}
Copy == [job : Jobs, status : Active \cup {"done"}, replica : BOOLEAN,
         by : Nodes \cup {None}]

ASSUME PlacementAssumption ==
  /\ N \in Nat \ {0, 1} /\ MaxKeys \in Nat /\ MaxTroubles \in Nat
  /\ Factors \subseteq Nat \ {0} /\ Homes \subseteq Nodes
  /\ Kinds \subseteq {"crash", "leave", "evict", "fault"}
  /\ None \notin Nodes \cup Jobs \cup Copy

Sub == [step : {"new", "primary", "replicas", "accepted", "failed"}, home : Nodes,
        target : Nodes, todo : SUBSET Nodes, planned : SUBSET Nodes, stored : SUBSET Nodes]
Watch == [step : {"idle", "promote", "orphans", "store"}, failed : Nodes,
          survivors : SUBSET Nodes, todo : SUBSET (Jobs \X Nodes)]

TypeOK ==
  /\ store \in [Nodes -> [Keys -> Copy \cup {None}]] /\ drawn \in 0 .. MaxKeys
  /\ running \in SUBSET (Nodes \X Keys)
  /\ up \in SUBSET Nodes /\ leaving \in SUBSET Nodes
  /\ pred \in [Nodes -> Nodes \cup {None}] /\ last \in [Nodes -> Nodes \cup {None}]
  /\ watch \in [Nodes -> Watch]
  /\ sub \in [Jobs -> Sub]
  /\ ran \in SUBSET (Nodes \X Jobs)
  /\ happened \in [{"crash", "leave", "evict", "fault"} -> Nat]

(***************************************************************************)
(* The ring                                                                *)
(***************************************************************************)
(* The node before n among the members S.                                  *)
Before(n, S) ==
  LET lower == {m \in S : m < n}
      from == IF lower # {} THEN lower ELSE S
  IN CHOOSE m \in from : \A k \in from : k <= m
After(n, S) == CHOOSE m \in S : Before(m, S) = n
Members == up \ leaving

NoSub == [step |-> "new", home |-> 1, target |-> 1, todo |-> {}, planned |-> {},
          stored |-> {}]
NoWatch == [step |-> "idle", failed |-> 1, survivors |-> {}, todo |-> {}]

(* A settled ring without jobs.                                            *)
Init ==
  /\ store = [n \in Nodes |-> [k \in Keys |-> None]] /\ drawn = 0 /\ running = {}
  /\ up = Nodes /\ leaving = {} /\ pred = [n \in Nodes |-> Before(n, Nodes)] /\ last = pred
  /\ watch = [n \in Nodes |-> NoWatch]
  /\ sub = [j \in Jobs |-> NoSub] /\ ran = {}
  /\ happened = [t \in {"crash", "leave", "evict", "fault"} |-> 0]

Total == happened["crash"] + happened["leave"] + happened["evict"] + happened["fault"]
Trouble(t) ==
  /\ t \in Kinds /\ Total < MaxTroubles
  /\ happened' = [happened EXCEPT ![t] = @ + 1]

Troubles(t, u) ==
  /\ {t, u} \subseteq Kinds /\ Total + 1 < MaxTroubles
  /\ happened' = [happened EXCEPT ![t] = @ + 1, ![u] = @ + 1]

(* What a process that is gone takes along.                                *)
Halt(n) ==
  /\ up' = up \ {n} /\ leaving' = leaving \ {n}
  /\ store' = [store EXCEPT ![n] = [k \in Keys |-> None]]
  /\ running' = {e \in running : e[1] # n}
  /\ sub' = [j \in Jobs |-> IF sub[j].step \in {"primary", "replicas"} /\ sub[j].home = n
                            THEN [sub[j] EXCEPT !.step = "failed"] ELSE sub[j]]
  /\ watch' = [watch EXCEPT ![n] = NoWatch]
  /\ UNCHANGED <<drawn, last, ran>>

Crash(n) == n \in up /\ Trouble("crash") /\ Halt(n) /\ UNCHANGED pred

(* check_predecessor clears a pointer to a node that is gone, or to one    *)
(* that missed two pings.                                                  *)
ClearPredecessor(n) ==
  /\ n \in up /\ pred[n] # None
  /\ IF pred[n] \in up THEN Trouble("evict") ELSE UNCHANGED happened
  /\ pred' = [pred EXCEPT ![n] = None]
  /\ UNCHANGED <<jobs, running, up, leaving, watcher, sub, ran>>

(* The live node before n notifies it.                                     *)
Notify(n) ==
  /\ n \in Members /\ pred[n] = None /\ Members # {n}
  /\ pred' = [pred EXCEPT ![n] = Before(n, Members)]
  /\ UNCHANGED <<jobs, running, up, leaving, happened, watcher, sub, ran>>

(* leave: the data goes to the successor, whose predecessor becomes the    *)
(* leaver's; a call that fails is only logged.  The process exits later.   *)
Leave(n, moved, told) ==
  LET heir == After(n, Members)
  IN /\ n \in Members /\ Members # {n}
     /\ IF moved /\ told THEN Trouble("leave") ELSE Troubles("leave", "fault")
     /\ leaving' = leaving \cup {n}
     /\ store' = IF ~moved THEN store
                 ELSE [store EXCEPT ![heir] =
                         [k \in Keys |-> IF store[n][k] # None THEN store[n][k] ELSE @[k]]]
     /\ pred' = IF told /\ pred[n] # None THEN [pred EXCEPT ![heir] = pred[n]] ELSE pred
     /\ UNCHANGED <<drawn, running, up, watcher, sub, ran>>

Exit(n) == n \in leaving /\ Halt(n) /\ UNCHANGED <<pred, happened>>

(***************************************************************************)
(* Submission                                                              *)
(***************************************************************************)
Depth(n) == Cardinality({k \in Keys : store[n][k] # None /\ store[n][k].status \in Active})

(* The heuristic of the replication agent: the f least loaded nodes that   *)
(* answered, the first of them the primary.                                *)
Plans(seen, f) ==
  LET size == IF f < Cardinality(seen) THEN f ELSE Cardinality(seen)
  IN {S \in SUBSET seen : /\ Cardinality(S) = size
                          /\ \A n \in S, m \in seen \ S : Depth(n) <= Depth(m)}
Primary(S, n) == n \in S /\ \A m \in S : Depth(n) <= Depth(m)

(* _collect_ring_metrics: the node itself and the fingers that answer.  At *)
(* these sizes the fingers name everybody, or nobody yet.                  *)
Seen(h) == {{h}, up}

(* submit_job up to the plan.                                              *)
Submit(j, h, seen, f) ==
  /\ sub[j].step = "new" /\ h \in up /\ seen \in Seen(h)
  /\ \E S \in Plans(seen, f), n \in Nodes :
       /\ Primary(S, n)
       /\ sub' = [sub EXCEPT ![j] = [step |-> "primary", home |-> h, target |-> n,
                                     todo |-> S \ {n}, planned |-> S, stored |-> {}]]
  /\ UNCHANGED <<jobs, running, ring, watcher, ran>>

(* Mutant of NewCopy: claimed_by starts as zero.                           *)
NewCopyByZero(j, replica) == [job |-> j, status |-> "pending", replica |-> replica, by |-> 0]

NewCopy(j, replica) == [job |-> j, status |-> "pending", replica |-> replica, by |-> None]

(* _store_job: a fresh key at node n.  A call that fails may have been     *)
(* carried out.                                                            *)
StoreJob(h, n, copy, ok) ==
  /\ drawn < MaxKeys
  /\ IF ok THEN n \in up /\ UNCHANGED happened
     ELSE IF n \in up THEN n # h /\ Trouble("fault") ELSE UNCHANGED happened
  /\ \/ ~ok /\ UNCHANGED jobs
     \/ /\ n \in up
        /\ drawn' = drawn + 1
        /\ store' = [store EXCEPT ![n][drawn + 1] = copy]

StorePrimary(j, ok) ==
  /\ sub[j].step = "primary"
  /\ StoreJob(sub[j].home, sub[j].target, NewCopy(j, FALSE), ok)
  /\ sub' = [sub EXCEPT ![j].step = IF ok THEN "replicas" ELSE "failed",
                        ![j].stored = IF ok THEN {sub[j].target} ELSE {}]
  /\ UNCHANGED <<running, up, leaving, pred, watcher, ran>>

(* A replica that cannot be stored is only logged.                         *)
StoreReplica(j, n, ok) ==
  /\ sub[j].step = "replicas" /\ n \in sub[j].todo
  /\ StoreJob(sub[j].home, n, NewCopy(j, TRUE), ok)
  /\ sub' = [sub EXCEPT ![j].todo = @ \ {n},
                        ![j].stored = IF ok THEN @ \cup {n} ELSE @]
  /\ UNCHANGED <<running, up, leaving, pred, watcher, ran>>

Accept(j) ==
  /\ sub[j].step = "replicas" /\ sub[j].todo = {}
  /\ sub' = [sub EXCEPT ![j].step = "accepted"]
  /\ UNCHANGED <<jobs, running, ring, watcher, ran>>

(***************************************************************************)
(* The workers                                                             *)
(***************************************************************************)
(* Mutant of Claim: replicas wait for their promotion.                     *)
ClaimPrimaries(n, k) ==
  /\ n \in up /\ store[n][k] # None /\ store[n][k].status = "pending"
  /\ ~store[n][k].replica
  /\ store' = [store EXCEPT ![n][k].status = "claimed", ![n][k].by = n]
  /\ running' = running \cup {<<n, k>>}
  /\ ran' = ran \cup {<<n, store[n][k].job>>}
  /\ UNCHANGED <<drawn, ring, watcher, sub>>

(* _scan_and_claim does not look at replica_of.                            *)
Claim(n, k) ==
  /\ n \in up /\ store[n][k] # None /\ store[n][k].status = "pending"
  /\ store' = [store EXCEPT ![n][k].status = "claimed", ![n][k].by = n]
  /\ running' = running \cup {<<n, k>>}
  /\ ran' = ran \cup {<<n, store[n][k].job>>}
  /\ UNCHANGED <<drawn, ring, watcher, sub>>

(* The execution writes its record, whatever it has become.                *)
Finish(n, k) ==
  /\ <<n, k>> \in running
  /\ running' = running \ {<<n, k>>}
  /\ store' = IF store[n][k] = None THEN store ELSE [store EXCEPT ![n][k].status = "done"]
  /\ UNCHANGED <<drawn, ring, watcher, sub, ran>>

(***************************************************************************)
(* The failure watcher                                                     *)
(***************************************************************************)
SetWatch(n, w) == watch' = [watch EXCEPT ![n] = w]

(* _check: only a pointer that was set at the last poll and is None now    *)
(* starts a recovery, with the nodes that answer as survivors.             *)
Check(n) ==
  /\ n \in up /\ watch[n].step = "idle"
  /\ IF last[n] # None /\ pred[n] = None
     THEN /\ SetWatch(n, [step |-> "promote", failed |-> last[n],
                          survivors |-> up \ {last[n]}, todo |-> {}])
          /\ UNCHANGED last
     ELSE last' = [last EXCEPT ![n] = pred[n]] /\ pred[n] # last[n] /\ UNCHANGED watch
  /\ UNCHANGED <<jobs, running, ring, sub, ran>>

(* Mutant of Promotable: finished replicas too.                            *)
PromotableAny(c) == c # None /\ c.replica

Promotable(c) == c # None /\ c.replica /\ c.status \in Active

(* Path 1: every active replica on this node, of whichever primary.        *)
Promote(n) ==
  /\ watch[n].step = "promote"
  /\ store' = [store EXCEPT ![n] = [k \in Keys |->
                 IF ~Promotable(@[k]) THEN @[k]
                 ELSE [@[k] EXCEPT !.replica = FALSE, !.by = None, !.status = "pending"]]]
  /\ SetWatch(n, [watch[n] EXCEPT !.step = "orphans"])
  /\ UNCHANGED <<drawn, running, ring, last, sub, ran>>

(* Mutant of IsOrphan: whoever claimed the job.                            *)
IsOrphanOfAnyone(c, failed) == c # None /\ c.status \in Active /\ ~c.replica

IsOrphan(c, failed) == c # None /\ c.status \in Active /\ ~c.replica /\ c.by = failed

(* Path 2: the jobs here that the failed node claimed, if a finger still   *)
(* knows its address, and a survivor for each.                             *)
Orphans(n, known) ==
  LET w == watch[n]
      found == {store[n][k].job : k \in {x \in Keys : IsOrphan(store[n][x], w.failed)}}
  IN /\ w.step = "orphans"
     /\ \E f \in [IF known THEN found ELSE {} -> w.survivors] :
          SetWatch(n, [w EXCEPT !.step = "store", !.todo = {<<j, f[j]>> : j \in DOMAIN f}])
     /\ UNCHANGED <<jobs, running, ring, last, sub, ran>>

Restore(n, j, m, ok) ==
  /\ watch[n].step = "store" /\ <<j, m>> \in watch[n].todo
  /\ StoreJob(n, m, NewCopy(j, FALSE), ok)
  /\ SetWatch(n, [watch[n] EXCEPT !.todo = @ \ {<<j, m>>}])
  /\ UNCHANGED <<running, up, leaving, pred, last, sub, ran>>

Recovered(n) ==
  /\ watch[n].step = "store" /\ watch[n].todo = {}
  /\ SetWatch(n, NoWatch) /\ last' = [last EXCEPT ![n] = None]
  /\ UNCHANGED <<jobs, running, ring, sub, ran>>

(***************************************************************************)
(* Specification                                                           *)
(***************************************************************************)
Submitting(j) ==
  \/ \E ok \in BOOLEAN : StorePrimary(j, ok) \/ \E n \in Nodes : StoreReplica(j, n, ok)
  \/ Accept(j)
Watching(n) ==
  \/ Check(n) \/ Promote(n) \/ \E known \in BOOLEAN : Orphans(n, known)
  \/ \E j \in Jobs, m \in Nodes, ok \in BOOLEAN : Restore(n, j, m, ok)
  \/ Recovered(n)
Working(n, k) == Claim(n, k) \/ Finish(n, k)

Next ==
  \/ \E j \in Jobs, h \in Homes, seen \in SUBSET Nodes, f \in Factors : Submit(j, h, seen, f)
  \/ \E j \in Jobs : Submitting(j)
  \/ \E n \in Nodes, k \in Keys : Working(n, k)
  \/ \E n \in Nodes : \/ Watching(n) \/ Crash(n) \/ Exit(n) \/ ClearPredecessor(n) \/ Notify(n)
                      \/ \E moved, told \in BOOLEAN : Leave(n, moved, told)

(* Handlers and threads go on and executions end.                          *)
Fairness ==
  /\ \A j \in Jobs : WF_vars(Submitting(j))
  /\ \A n \in Nodes : WF_vars(\E k \in Keys : Working(n, k))

Spec == Init /\ [][Next]_vars /\ Fairness

(***************************************************************************)
(* Properties                                                              *)
(***************************************************************************)
(* A job stored on two nodes ends although one node stops at any moment    *)
(* and its watcher, which sees only a cleared predecessor pointer, may     *)
(* miss it: the workers execute replicas as well.                          *)
Ended(j) == \E n \in up, k \in Keys :
              store[n][k] # None /\ store[n][k].job = j /\ store[n][k].status \notin Active
ReplicatedJobsEnd ==
  \A j \in Jobs :
    [](happened["crash"] + happened["leave"] <= 1)
      => ((sub[j].step = "accepted" /\ Cardinality(sub[j].stored) >= 2) ~> Ended(j))

(* A job without replicas is executed on one node only, whatever           *)
(* predecessor is taken for dead: only what a leaving node hands over is   *)
(* stored again.                                                           *)
OneNodeRuns ==
  \A j \in Jobs : Cardinality(sub[j].planned) = 1 /\ happened["leave"] = 0
    => Cardinality({n \in Nodes : <<n, j>> \in ran}) <= 1

(* A replica that has been executed before its primary's node is missed    *)
(* stays finished: neither the promotion nor a late write reopens it.      *)
FinishedStaysFinished ==
  [][\A n \in Nodes, k \in Keys :
       n \in up' /\ store[n][k] # None /\ store[n][k].status \notin Active
         => store'[n][k] # None /\ store'[n][k].status \notin Active]_vars
=============================================================================
