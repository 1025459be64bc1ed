------------------------------ MODULE ChordRing ------------------------------
(***************************************************************************)
(* The ring: every node's pointers, its maintenance thread (stabilize,     *)
(* fix_fingers, check_predecessor, in that order for ever), the RPC        *)
(* handlers that other nodes reach, and nodes that join, leave, crash and  *)
(* start again.  One step per lock region or remote call; what a thread    *)
(* read before a remote call is kept in tgt, idx and path and may be stale *)
(* when it is used.                                                        *)
(***************************************************************************)
EXTENDS RingTables, FiniteSets, Sequences

CONSTANTS Nodes,      \* the identifiers of the nodes
          None,
          MaxJoins,   \* bound: processes started (again)
          MaxCrashes, \* bound: crashes
          MaxLeaves,  \* bound: graceful leaves
          MaxFaults   \* bound: calls to a healthy node that fail nevertheless

ASSUME RingAssumption ==
  /\ M > 1
  /\ Nodes \subseteq Ids /\ Nodes # {} /\ None \notin Ids
  /\ MaxJoins \in Nat /\ MaxCrashes \in Nat
  /\ MaxLeaves \in Nat /\ MaxFaults \in Nat

VARIABLES status,   \* down, joining, up or leaving
          finger,   \* finger[n][0] is the successor pointer
          pred,     \* predecessor pointer
          pc,       \* the next step of the node's thread
          idx,      \* index of the finger in flight
          tgt,      \* the node read by the last step
          path,     \* the nodes a lookup has reached so far
          farewell, \* pointer updates a leaving node has still to send
          misses,   \* _pred_fail_count
          budget    \* joins, crashes, leaves and faults still to come

node == <<status, finger, pred, farewell>>
vars == <<node, pc, idx, tgt, path, misses, budget>>

Succ(n) == finger[n][0]
Up == {n \in Nodes : status[n] \in {"up", "leaving"}}
Steps == {"stabilize", "alone", "getpred", "adopt", "notify", "fallback",
          "fix", "lookup", "set", "check", "ping", "off"}

(* update_predecessor and update_successor, to be sent to a neighbour.     *)
Farewells == [to : Nodes, pointer : {"pred", "succ"}, value : Nodes]

TypeOK ==
  /\ status \in [Nodes -> {"down", "joining", "up", "leaving"}]
  /\ finger \in [Nodes -> [0 .. M-1 -> Nodes]]
  /\ pred \in [Nodes -> Nodes \cup {None}]
  /\ pc \in [Nodes -> Steps]
  /\ idx \in [Nodes -> 0 .. M-1]
  /\ tgt \in [Nodes -> Nodes \cup {None}]
  /\ path \in [Nodes -> Seq(Nodes)]
  /\ farewell \in [Nodes -> Seq(Farewells)]
  /\ misses \in [Nodes -> 0 .. 1]
  /\ budget \in [join : 0 .. MaxJoins, crash : 0 .. MaxCrashes,
                 leave : 0 .. MaxLeaves, fault : 0 .. MaxFaults]

(***************************************************************************)
(* Initial states                                                          *)
(***************************************************************************)
FullBudget == [join |-> MaxJoins, crash |-> MaxCrashes,
               leave |-> MaxLeaves, fault |-> MaxFaults]

(* ChordNode.__init__: every entry names the node itself.                  *)
FreshTable(n) == [i \in 0 .. M-1 |-> n]

IdleThreads(running) ==
  /\ pc = [n \in Nodes |-> IF n \in running THEN "stabilize" ELSE "off"]
  /\ idx = [n \in Nodes |-> 0]
  /\ tgt = [n \in Nodes |-> None]
  /\ path = [n \in Nodes |-> <<>>]
  /\ farewell = [n \in Nodes |-> <<>>]
  /\ misses = [n \in Nodes |-> 0]
  /\ budget = FullBudget

(* join(None): one node bootstraps the ring, the others are not started.   *)
InitBootstrap ==
  \E b \in Nodes :
    /\ status = [n \in Nodes |-> IF n = b THEN "up" ELSE "down"]
    /\ finger = [n \in Nodes |-> FreshTable(n)]
    /\ pred = [n \in Nodes |-> None]
    /\ IdleThreads({b})

IdealTable(ring, n) ==
  [i \in 0 .. M-1 |-> Owner(ring, FingerStart(n, i))]

(* A ring that has settled with every node in it.                          *)
InitSettled ==
  /\ status = [n \in Nodes |-> "up"]
  /\ finger = [n \in Nodes |-> IdealTable(Nodes, n)]
  /\ pred = [n \in Nodes |-> IdealPredecessor(Nodes, n)]
  /\ IdleThreads(Nodes)

(***************************************************************************)
(* Remote calls.  A call to a node that is not running fails once the      *)
(* transport has used up its retries; so may, now and then, a call to a    *)
(* healthy one (a timeout, a node that has joined but not bound its        *)
(* socket yet).                                                            *)
(***************************************************************************)
Answers(m) == m \in Up /\ UNCHANGED budget
Fails(m) ==
  \/ m \notin Up /\ UNCHANGED budget
  \/ /\ m \in Up /\ budget.fault > 0
     /\ budget' = [budget EXCEPT !.fault = @ - 1]

SetSucc(n, s) == finger' = [finger EXCEPT ![n][0] = s]

Goto(n, step, i, t, p) ==
  /\ pc' = [pc EXCEPT ![n] = step]
  /\ idx' = [idx EXCEPT ![n] = i]
  /\ tgt' = [tgt EXCEPT ![n] = t]
  /\ path' = [path EXCEPT ![n] = p]

(* leave() holds the lock until it has sent its updates; the process ends  *)
(* a moment later, and its maintenance thread can run once more until then.*)
Locked(n) == status[n] = "leaving" /\ farewell[n] # <<>>
(* A thread takes its node's lock.                                         *)
Locks(n, step) == pc[n] = step /\ n \in Up /\ ~Locked(n)
(* A step outside the lock.                                                *)
Runs(n, step) == pc[n] = step /\ n \in Up

(***************************************************************************)
(* stabilize                                                               *)
(***************************************************************************)
(* Step 1: the snapshot.  A node that is its own successor is done, unless *)
(* it has been notified of a predecessor.                                  *)
Stabilize(n) ==
  /\ Locks(n, "stabilize")
  /\ \/ Succ(n) # n /\ Goto(n, "getpred", 0, Succ(n), <<>>)
     \/ Succ(n) = n /\ pred[n] \in {None, n} /\ Goto(n, "fix", 0, None, <<>>)
     \/ Succ(n) = n /\ pred[n] \notin {None, n} /\ Goto(n, "alone", 0, pred[n], <<>>)
  /\ UNCHANGED <<node, misses, budget>>

(* That predecessor becomes the successor, under the lock taken again.     *)
AdoptPredecessor(n) ==
  /\ Locks(n, "alone")
  /\ SetSucc(n, tgt[n])
  /\ Goto(n, "fix", 0, None, <<>>)
  /\ UNCHANGED <<status, pred, farewell, misses, budget>>

(* get_predecessor at the successor of the snapshot.                       *)
GetPredecessor(n) ==
  /\ Runs(n, "getpred")
  /\ \/ Answers(tgt[n]) /\ Goto(n, "adopt", 0, pred[tgt[n]], <<>>)
     \/ Fails(tgt[n]) /\ Goto(n, "fallback", M-1, None, <<>>)
  /\ UNCHANGED <<node, misses>>

(* Mutant of Adopt: the successor's predecessor is taken without the       *)
(* interval test.                                                          *)
AdoptBlindly(n) ==
  /\ Locks(n, "adopt")
  /\ LET s == IF tgt[n] # None THEN tgt[n] ELSE Succ(n)
     IN SetSucc(n, s) /\ Goto(n, "notify", 0, s, <<>>)
  /\ UNCHANGED <<status, pred, farewell, misses, budget>>

(* Step 3: the answer, compared with the successor read again.             *)
Adopt(n) ==
  /\ Locks(n, "adopt")
  /\ LET better == tgt[n] # None /\ InRange(tgt[n], n, Succ(n))
         s == IF better THEN tgt[n] ELSE Succ(n)
     IN SetSucc(n, s) /\ Goto(n, "notify", 0, s, <<>>)
  /\ UNCHANGED <<status, pred, farewell, misses, budget>>

(* Mutant of Notified: an unset predecessor is not replaced.               *)
NotifiedIfSet(m, candidate) ==
  IF pred[m] # None /\ InRange(candidate, pred[m], m)
  THEN pred' = [pred EXCEPT ![m] = candidate]
  ELSE UNCHANGED pred

(* The handler of notify, at node m.                                       *)
Notified(m, candidate) ==
  IF pred[m] = None \/ InRange(candidate, pred[m], m)
  THEN pred' = [pred EXCEPT ![m] = candidate]
  ELSE UNCHANGED pred

(* The notification; the handler needs m's lock.  A call that times out    *)
(* may still have been carried out.                                        *)
Notify(n) ==
  LET m == tgt[n]
  IN /\ Runs(n, "notify")
     /\ \/ /\ Answers(m) /\ ~Locked(m)
           /\ Notified(m, n)
           /\ Goto(n, "fix", 0, None, <<>>)
        \/ /\ Fails(m)
           /\ UNCHANGED pred \/ (m \in Up /\ ~Locked(m) /\ Notified(m, n))
           /\ Goto(n, "fallback", M-1, None, <<>>)
     /\ UNCHANGED <<status, finger, farewell, misses>>

(* Mutant of Fallback: the loop ends before finger 1.                      *)
FallbackAboveOne(n) ==
  LET c == finger[n][idx[n]]
      NextCandidate ==
        IF idx[n] > 2 THEN Goto(n, "fallback", idx[n] - 1, None, <<>>)
        ELSE Goto(n, "fix", 0, None, <<>>)
  IN /\ Locks(n, "fallback")
     /\ \/ /\ c # n /\ Answers(c) /\ idx[n] > 1
           /\ SetSucc(n, c)
           /\ Goto(n, "fix", 0, None, <<>>)
        \/ c # n /\ Fails(c) /\ NextCandidate /\ UNCHANGED finger
        \/ (c = n \/ idx[n] = 1) /\ NextCandidate /\ UNCHANGED <<finger, budget>>
     /\ UNCHANGED <<status, pred, farewell, misses>>

(* The except branch: fingers M-1 down to 1 are pinged in turn, the node's *)
(* own identifier skipped, and the first that answers is the successor.    *)
Fallback(n) ==
  LET c == finger[n][idx[n]]
      NextCandidate ==
        IF idx[n] > 1 THEN Goto(n, "fallback", idx[n] - 1, None, <<>>)
        ELSE Goto(n, "fix", 0, None, <<>>)
  IN /\ Locks(n, "fallback")
     /\ \/ /\ c # n /\ Answers(c)
           /\ SetSucc(n, c)
           /\ Goto(n, "fix", 0, None, <<>>)
        \/ c # n /\ Fails(c) /\ NextCandidate /\ UNCHANGED finger
        \/ c = n /\ NextCandidate /\ UNCHANGED <<finger, budget>>
     /\ UNCHANGED <<status, pred, farewell, misses>>

(***************************************************************************)
(* find_successor as a chain of nested calls, for fix_fingers and join.    *)
(***************************************************************************)
Key(n) == IF status[n] = "joining" THEN n ELSE FingerStart(n, idx[n])

(* The calls of the chain that can fail: all but a node's call to itself.  *)
Remote(n) == {k \in 1 .. Len(path[n]) : path[n][k] # n}

(* One node of the chain decides: it knows the answer, or it delegates.    *)
LookupHop(n) ==
  /\ pc[n] = "lookup" /\ \A k \in Remote(n) : path[n][k] \in Up
  /\ LET t == path[n][Len(path[n])]
         next == ClosestPreceding(t, Key(n), finger[t])
     IN IF InRangeInc(Key(n), t, Succ(t)) \/ next = t
        THEN Goto(n, "set", idx[n], Succ(t), <<>>)
        ELSE Goto(n, "lookup", idx[n], None, Append(path[n], next))
  /\ UNCHANGED <<node, misses, budget>>

(* Call k of the chain fails: the caller answers its own successor.  The   *)
(* first call of a join has no such caller: the process exits.             *)
LookupFails(n) ==
  /\ pc[n] = "lookup"
  /\ \E k \in Remote(n) :
       /\ \A j \in Remote(n) : j < k => path[n][j] \in Up
       /\ Fails(path[n][k])
       /\ IF k = 1
          THEN /\ status' = [status EXCEPT ![n] = "down"]
               /\ Goto(n, "off", 0, None, <<>>)
          ELSE /\ UNCHANGED status
               /\ Goto(n, "set", idx[n], Succ(path[n][k-1]), <<>>)
  /\ UNCHANGED <<finger, pred, farewell, misses>>

(***************************************************************************)
(* fix_fingers                                                             *)
(***************************************************************************)
(* random.randint(1, M - 1)                                                *)
FixFinger(n, i) ==
  /\ Locks(n, "fix")
  /\ Goto(n, "lookup", i, None, <<n>>)
  /\ UNCHANGED <<node, misses, budget>>

(* Mutant of SetFinger: only an entry never filled before is written.      *)
SetFingerIfUnset(n) ==
  /\ Locks(n, "set")
  /\ finger' = [finger EXCEPT ![n][idx[n]] = IF @ = n THEN tgt[n] ELSE @]
  /\ Goto(n, "check", 0, None, <<>>)
  /\ UNCHANGED <<status, pred, farewell, misses, budget>>

SetFinger(n) ==
  /\ Locks(n, "set")
  /\ finger' = [finger EXCEPT ![n][idx[n]] = tgt[n]]
  /\ Goto(n, "check", 0, None, <<>>)
  /\ UNCHANGED <<status, pred, farewell, misses, budget>>

(***************************************************************************)
(* check_predecessor                                                       *)
(***************************************************************************)
CheckPredecessor(n) ==
  /\ Locks(n, "check")
  /\ IF pred[n] = None THEN Goto(n, "stabilize", 0, None, <<>>)
     ELSE Goto(n, "ping", 0, pred[n], <<>>)
  /\ UNCHANGED <<node, misses, budget>>

(* Mutants of PingPredecessor: the counter is not reset once the pointer   *)
(* is cleared; it is reset by every ping.                                  *)
PingNeverResets(n) ==
  LET p == tgt[n]
  IN /\ Locks(n, "ping")
     /\ \/ Answers(p) /\ UNCHANGED <<misses, pred>>
        \/ /\ Fails(p)
           /\ misses' = [misses EXCEPT ![n] = @ + 1]
           /\ IF misses[n] >= 1 /\ pred[n] = p
              THEN pred' = [pred EXCEPT ![n] = None]
              ELSE UNCHANGED pred
     /\ Goto(n, "stabilize", 0, None, <<>>)
     /\ UNCHANGED <<status, finger, farewell>>
PingAlwaysResets(n) ==
  LET p == tgt[n]
  IN /\ Locks(n, "ping")
     /\ Answers(p) \/ Fails(p)
     /\ misses' = [misses EXCEPT ![n] = 0]
     /\ IF misses[n] = 1 /\ pred[n] = p
        THEN pred' = [pred EXCEPT ![n] = None]
        ELSE UNCHANGED pred
     /\ Goto(n, "stabilize", 0, None, <<>>)
     /\ UNCHANGED <<status, finger, farewell>>

(* The second failure in a row clears the pointer if it still names the    *)
(* node that was pinged.                                                   *)
PingPredecessor(n) ==
  LET p == tgt[n]
  IN /\ Locks(n, "ping")
     /\ \/ /\ Answers(p)
           /\ misses' = [misses EXCEPT ![n] = 0]
           /\ UNCHANGED pred
        \/ /\ Fails(p)
           /\ misses' = [misses EXCEPT ![n] = 1 - @]
           /\ IF misses[n] = 1 /\ pred[n] = p
              THEN pred' = [pred EXCEPT ![n] = None]
              ELSE UNCHANGED pred
     /\ Goto(n, "stabilize", 0, None, <<>>)
     /\ UNCHANGED <<status, finger, farewell>>

(***************************************************************************)
(* join, leave, crash                                                      *)
(***************************************************************************)
(* A process starts and asks a node it knows for its successor; it serves  *)
(* no calls before it has joined.                                          *)
Join(n) ==
  /\ status[n] = "down" /\ budget.join > 0
  /\ budget' = [budget EXCEPT !.join = @ - 1]
  /\ \E known \in Up : Goto(n, "lookup", 0, None, <<known>>)
  /\ status' = [status EXCEPT ![n] = "joining"]
  /\ UNCHANGED <<finger, pred, farewell, misses>>

(* Mutant of Joined: the answer is not stored.                             *)
JoinedAlone(n) ==
  /\ status[n] = "joining" /\ pc[n] = "set"
  /\ status' = [status EXCEPT ![n] = "up"]
  /\ Goto(n, "stabilize", 0, None, <<>>)
  /\ UNCHANGED <<finger, pred, farewell, misses, budget>>

(* The successor is stored and the node's thread starts.                   *)
Joined(n) ==
  /\ status[n] = "joining" /\ pc[n] = "set"
  /\ SetSucc(n, tgt[n])
  /\ status' = [status EXCEPT ![n] = "up"]
  /\ Goto(n, "stabilize", 0, None, <<>>)
  /\ UNCHANGED <<pred, farewell, misses, budget>>

(* leave() takes the lock.  A node that is its own successor               *)
(* has nobody to tell, and one without a predecessor tells nobody.         *)
Leave(n) ==
  /\ status[n] = "up" /\ budget.leave > 0
  /\ budget' = [budget EXCEPT !.leave = @ - 1]
  /\ status' = [status EXCEPT ![n] = "leaving"]
  /\ farewell' = [farewell EXCEPT ![n] =
       IF Succ(n) = n \/ pred[n] = None THEN <<>>
       ELSE << [to |-> Succ(n), pointer |-> "pred", value |-> pred[n]],
               [to |-> pred[n], pointer |-> "succ", value |-> Succ(n)] >>]
  /\ UNCHANGED <<finger, pred, pc, idx, tgt, path, misses>>

(* The handlers of update_predecessor and update_successor: plain          *)
(* assignments, taken without the lock.                                    *)
Updated(f) ==
  IF f.pointer = "pred"
  THEN pred' = [pred EXCEPT ![f.to] = f.value] /\ UNCHANGED finger
  ELSE SetSucc(f.to, f.value) /\ UNCHANGED pred

(* The next update; an error is logged and forgotten.                      *)
SendFarewell(n) ==
  /\ farewell[n] # <<>>
  /\ LET f == Head(farewell[n])
     IN \/ Answers(f.to) /\ Updated(f)
        \/ Fails(f.to) /\ UNCHANGED <<finger, pred>>
  /\ farewell' = [farewell EXCEPT ![n] = Tail(@)]
  /\ UNCHANGED <<status, pc, idx, tgt, path, misses>>

(* The process ends.  Pointers are not persisted: what is kept here are    *)
(* the values __init__ gives them when the process is started again.       *)
Stopped(n) ==
  /\ status' = [status EXCEPT ![n] = "down"]
  /\ finger' = [finger EXCEPT ![n] = FreshTable(n)]
  /\ pred' = [pred EXCEPT ![n] = None]
  /\ Goto(n, "off", 0, None, <<>>)
  /\ farewell' = [farewell EXCEPT ![n] = <<>>]
  /\ misses' = [misses EXCEPT ![n] = 0]

(* os._exit after leave().                                                 *)
Exit(n) ==
  /\ status[n] = "leaving" /\ farewell[n] = <<>>
  /\ Stopped(n) /\ UNCHANGED budget

(* /admin/crash, or the process or host dies.                              *)
Crash(n) ==
  /\ status[n] # "down" /\ budget.crash > 0
  /\ budget' = [budget EXCEPT !.crash = @ - 1]
  /\ Stopped(n)

(***************************************************************************)
(* Specification                                                           *)
(***************************************************************************)
Lookup(n) == LookupHop(n) \/ LookupFails(n)

Maintain(n) ==
  \/ Stabilize(n) \/ AdoptPredecessor(n)
  \/ GetPredecessor(n) \/ Adopt(n) \/ Notify(n) \/ Fallback(n)
  \/ \E i \in 1 .. M-1 : FixFinger(n, i)
  \/ Lookup(n) \/ SetFinger(n)
  \/ CheckPredecessor(n) \/ PingPredecessor(n)

Depart(n) == SendFarewell(n) \/ Exit(n)

Next ==
  \E n \in Nodes :
    \/ Maintain(n) \/ Joined(n) \/ Depart(n)
    \/ Join(n) \/ Leave(n) \/ Crash(n)

(* Threads run for ever and remote calls end, with an answer or an error;  *)
(* fix_fingers draws each index again and again.  Nobody is obliged to     *)
(* join, leave or crash.                                                   *)
Fairness ==
  \A n \in Nodes :
    /\ WF_vars(Maintain(n) \/ Joined(n)) /\ WF_vars(Depart(n))
    /\ \A i \in 1 .. M-1 : SF_vars(FixFinger(n, i))

SpecBootstrap == InitBootstrap /\ [][Next]_vars /\ Fairness
SpecSettled == InitSettled /\ [][Next]_vars /\ Fairness

(***************************************************************************)
(* Properties                                                              *)
(***************************************************************************)

(* The ring every repair aims at: the tables of every running node are     *)
(* those of the ring of the running nodes.                                 *)
Ideal ==
  \A n \in Up :
    /\ Succ(n) = IdealSuccessor(Up, n)
    /\ \A i \in 1 .. M-1 : finger[n][i] = Owner(Up, FingerStart(n, i))
    /\ Cardinality(Up) > 1 => pred[n] = IdealPredecessor(Up, n)

(* README: "The ring self-heals via stabilize/fix_fingers/check_predecessor*)
(* background maintenance".                                                *)
SelfHeals == <>[]Ideal

(* The nodes reached from n along successor pointers.                      *)
Walk(n) ==
  LET hop[k \in 0 .. Cardinality(Nodes)] ==
        IF k = 0 THEN n ELSE Succ(hop[k-1])
  IN {hop[k] : k \in 0 .. Cardinality(Nodes)}
OnRing(n) == \E m \in Up : Succ(m) = n /\ m \in Walk(n)

(* While no node stops, at every moment: the nodes of the ring proper      *)
(* form one cycle, in identifier order, and every other node leads to it   *)
(* (stabilize, notify, join).  Nobody is cut off.  The fallback after a    *)
(* call that failed although the successor is alive bends a pointer; one   *)
(* such call on three nodes does no harm, but several on five nodes can    *)
(* wind the ring around the circle twice.                                  *)
OneOrderedRing ==
  LET ring == {n \in Up : OnRing(n)}
  IN /\ \A n \in ring : Succ(n) = IdealSuccessor(ring, n)
     /\ \A n \in Up : Walk(n) \cap ring # {}

(* While no node stops, a successor pointer only ever moves closer, the    *)
(* fallback apart: stabilize and the stale answers it works with never     *)
(* skip a node.                                                            *)
Gap(n, s) == IF s = n THEN RingSize ELSE Dist(n, s)
SuccessorOnlyCloser ==
  [][\A n \in Nodes : status[n] = "up" /\ pc[n] # "fallback" /\ Succ(n)' # Succ(n) =>
       Gap(n, Succ(n)') < Gap(n, Succ(n))]_vars

(* A predecessor pointer to a dead node does not stay (check_predecessor), *)
(* so a live predecessor's notify is accepted again.                       *)
DeadPredecessorCleared ==
  \A n \in Nodes : \A p \in Nodes \ {n} :
    (n \in Up /\ pred[n] = p /\ p \notin Up) ~> (n \notin Up \/ pred[n] # p \/ p \in Up)

(* A node whose successor has crashed finds a live one if two of its       *)
(* entries name live nodes (the except branch of stabilize): before the    *)
(* sweep over the fingers starts, fix_fingers can overwrite one entry, not *)
(* two, with the dead node.                                                *)
LiveFingers(n) == {i \in 1 .. M-1 : finger[n][i] \in Up \ {n}}
TwoLiveFingersSuffice ==
  \A n \in Nodes :
    (n \in Up /\ Succ(n) \notin Up /\ Cardinality(LiveFingers(n)) > 1)
      ~> (n \notin Up \/ Succ(n) \in Up)

(* A departure heals once the ring has forgotten the node: when no         *)
(* pointer, and nothing a thread has read, names a node that is gone, the  *)
(* fingers that still do are repaired and the ring becomes ideal for good  *)
(* (stabilize, notify, fix_fingers, and find_successor's fallback).        *)
Forgotten ==
  /\ budget.leave = 0 /\ budget.crash = 0 /\ budget.join = 0
  /\ \A n \in Nodes : status[n] \in {"up", "down"}
  /\ \A n \in Up : {Succ(n), pred[n], tgt[n]} \subseteq Up \cup {None}
HealsOnceForgotten == Forgotten ~> []Ideal
=============================================================================
