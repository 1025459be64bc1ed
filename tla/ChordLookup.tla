---------------------------- MODULE ChordLookup -----------------------------
(***************************************************************************)
(* One find_successor call on a ring whose successor pointers have         *)
(* settled, hop by hop.  finger[n][0] is the successor pointer; the other  *)
(* entries hold any value an earlier, smaller ring could have left there.  *)
(***************************************************************************)
EXTENDS RingTables, FiniteSets, Sequences

CONSTANTS MaxMembers,  \* bound: size of the rings enumerated
          None

ASSUME LookupAssumption == MaxMembers \in Nat \ {0} /\ None \notin Ids

VARIABLES members,  \* the nodes of the ring
          finger,   \* finger[n][i]: entry i of node n's table
          key,      \* the identifier looked up
          path,     \* nodes the call has visited, the entry point first
          result    \* the node returned, None while the call is open

vars == <<members, finger, key, path, result>>

At == path[Len(path)]

TypeOK ==
  /\ members \in SUBSET Ids
  /\ finger \in [members -> [0 .. M-1 -> members]]
  /\ key \in Ids
  /\ path \in Seq(members) /\ path # <<>>
  /\ result \in members \cup {None}

(* What finger i >= 1 of n can hold when nodes only ever joined: the owner *)
(* of its start in the ring of some earlier moment.  n was a member then,  *)
(* so the entry never lies beyond n; n itself is the initial value.        *)
PastOwners(nodes, n, i) ==
  {m \in nodes : Dist(FingerStart(n, i), m) <= Dist(FingerStart(n, i), n)}

Tables(nodes) ==
  {t \in [nodes -> [0 .. M-1 -> nodes]] :
     \A n \in nodes :
       /\ t[n][0] = IdealSuccessor(nodes, n)
       /\ \A i \in 1 .. M-1 : t[n][i] \in PastOwners(nodes, n, i)}

Init ==
  /\ members \in {S \in SUBSET Ids : S # {} /\ Cardinality(S) <= MaxMembers}
  /\ finger \in Tables(members)
  /\ key \in Ids
  /\ \E n \in members : path = <<n>>
  /\ result = None

(* Mutant of Answer: the key is returned in place of the node.             *)
AnswerKey ==
  /\ result = None
  /\ InRangeInc(key, At, finger[At][0])
  /\ result' = key
  /\ UNCHANGED <<members, finger, key, path>>

(* The key lies in (n, successor]: the successor is the answer.            *)
Answer ==
  /\ result = None
  /\ InRangeInc(key, At, finger[At][0])
  /\ result' = finger[At][0]
  /\ UNCHANGED <<members, finger, key, path>>

(* Mutant of Stop: the node asks itself, again and again.                  *)
StopAsksItself ==
  /\ result = None
  /\ ~InRangeInc(key, At, finger[At][0])
  /\ ClosestPreceding(At, key, finger[At]) = At
  /\ UNCHANGED vars

(* No closer node is known: the successor is returned to stop the search.  *)
Stop ==
  /\ result = None
  /\ ~InRangeInc(key, At, finger[At][0])
  /\ ClosestPreceding(At, key, finger[At]) = At
  /\ result' = finger[At][0]
  /\ UNCHANGED <<members, finger, key, path>>

(* Mutant of Forward: without the test that the next node is another one.  *)
ForwardAnyway ==
  /\ result = None
  /\ ~InRangeInc(key, At, finger[At][0])
  /\ path' = Append(path, ClosestPreceding(At, key, finger[At]))
  /\ UNCHANGED <<members, finger, key, result>>

(* The call is delegated to the closest preceding node.                    *)
Forward ==
  /\ result = None
  /\ ~InRangeInc(key, At, finger[At][0])
  /\ LET next == ClosestPreceding(At, key, finger[At])
     IN /\ next # At
        /\ path' = Append(path, next)
  /\ UNCHANGED <<members, finger, key, result>>

Done == result # None /\ UNCHANGED vars

Next == Answer \/ Stop \/ Forward \/ Done

Spec == Init /\ [][Next]_vars /\ WF_vars(Answer \/ Stop \/ Forward)

(***************************************************************************)
(* Properties                                                              *)
(***************************************************************************)

(* Steps left to the key; a call that starts on the key goes once around.  *)
Remaining(n) == IF n = key THEN RingSize ELSE Dist(n, key)

(* Routing is consistent: whatever stale but live fingers the nodes hold,  *)
(* a lookup started anywhere except on the key itself returns the node the *)
(* key belongs to (find_successor, _closest_preceding_node).               *)
LookupCorrect ==
  result # None /\ path[1] # key => result = Owner(members, key)

(* Every delegation gets strictly closer to the key without reaching it,   *)
(* so the chain of nested RPCs cannot cycle (the comment "avoid infinite   *)
(* loop" in find_successor is about the one-node case only).               *)
HopsApproachKey ==
  [][path' # path => Remaining(At') < Remaining(At) /\ At' # key]_vars

(* A lookup always returns.                                                *)
LookupReturns == <>(result # None)

(* A lookup visits no node twice, so it never needs more RPCs than there   *)
(* are other nodes.                                                        *)
VisitsEachNodeOnce ==
  \A i, j \in 1 .. Len(path) : path[i] = path[j] => i = j
=============================================================================
