--------------------------- MODULE RingTablesProofs ---------------------------
(***************************************************************************)
(* Facts about the identifier circle: the code's interval tests stated     *)
(* with distances, the node that owns a key, and what a node's routing     *)
(* decision returns.                                                       *)
(***************************************************************************)
EXTENDS RingTables, WellFoundedInduction, NaturalsInduction, TLAPS

(***************************************************************************)
(* The circle                                                              *)
(***************************************************************************)
(* A ring has at least one identifier.                                     *)
LEMMA RingSizeNat == RingSize \in Nat \ {0}
PROOF
  BY MAssumption, PowerAssumption DEF RingSize

(* The clockwise distance is a distance below the size of the ring.        *)
LEMMA DistNat ==
  ASSUME NEW a \in Ids, NEW b \in Ids
  PROVE  Dist(a, b) \in Nat /\ Dist(a, b) < RingSize /\ (Dist(a, b) = 0 <=> a = b)
PROOF
  BY RingSizeNat DEF Dist, Ids

(* in_range, stated with distances: an open interval between two           *)
(* identifiers that differ.                                                *)
LEMMA InRangeDist ==
  ASSUME NEW a \in Ids, NEW b \in Ids, NEW x \in Ids, a # b
  PROVE  InRange(x, a, b) <=> 0 < Dist(a, x) /\ Dist(a, x) < Dist(a, b)
PROOF
  BY RingSizeNat DEF InRange, Dist, Ids

(* ... and with the upper bound included.                                  *)
LEMMA InRangeIncDist ==
  ASSUME NEW a \in Ids, NEW b \in Ids, NEW x \in Ids, a # b
  PROVE  InRangeInc(x, a, b) <=> 0 < Dist(a, x) /\ Dist(a, x) <= Dist(a, b)
PROOF
  BY RingSizeNat DEF InRangeInc, Dist, Ids

(* Distances along one way round add up.                                   *)
LEMMA DistSplit ==
  ASSUME NEW a \in Ids, NEW k \in Ids, NEW x \in Ids, Dist(a, k) <= Dist(a, x)
  PROVE  Dist(k, x) = Dist(a, x) - Dist(a, k)
PROOF
  BY RingSizeNat DEF Dist, Ids

(* The identifier after a.                                                 *)
LEMMA NextId ==
  ASSUME NEW a \in Ids
  PROVE  /\ (a + 1) % RingSize \in Ids
         /\ \A x \in Ids \ {a} : Dist((a + 1) % RingSize, x) = Dist(a, x) - 1
         /\ Dist((a + 1) % RingSize, a) = RingSize - 1
PROOF
<1>1. (a + 1) % RingSize = IF a + 1 = RingSize THEN 0 ELSE a + 1
  <2>1. a \in Nat /\ a < RingSize /\ RingSize \in Nat \ {0}
    BY RingSizeNat DEF Ids
  <2> QED BY <2>1
<1> QED BY <1>1, RingSizeNat DEF Dist, Ids

(* Two identifiers at the same distance are equal.                         *)
LEMMA DistInjective ==
  ASSUME NEW k \in Ids, NEW a \in Ids, NEW b \in Ids, Dist(k, a) = Dist(k, b)
  PROVE  a = b
PROOF
  BY RingSizeNat DEF Dist, Ids

(***************************************************************************)
(* Owners                                                                  *)
(***************************************************************************)
(* n is the first of the nodes at or after k.                              *)
First(nodes, k, n) == n \in nodes /\ \A m \in nodes : Dist(k, n) <= Dist(k, m)

(* Some node comes first after a key.                                      *)
LEMMA FirstExists ==
  ASSUME NEW nodes \in SUBSET Ids, nodes # {}, NEW k \in Ids
  PROVE  \E n \in nodes : First(nodes, k, n)
PROOF
<1> DEFINE T == {Dist(k, n) : n \in nodes}
<1>1. T \subseteq Nat /\ T # {}
  BY DistNat
<1>2. \E d \in T : \A e \in T : ~(<<e, d>> \in OpToRel(<, Nat))
  <2> HIDE DEF T
  <2> QED BY <1>1, NatLessThanWellFounded, WFMin, Zenon
<1>3. PICK n \in nodes : \A e \in T : ~(<<e, Dist(k, n)>> \in OpToRel(<, Nat))
  BY <1>2
<1>4. \A m \in nodes : ~(Dist(k, m) < Dist(k, n))
  BY <1>1, <1>3 DEF OpToRel
<1>5. \A m \in nodes : Dist(k, n) <= Dist(k, m)
  BY <1>4, DistNat
<1> QED BY <1>5 DEF First

(* The owner of a key is the one node that comes first.                    *)
LEMMA OwnerFirst ==
  ASSUME NEW nodes \in SUBSET Ids, nodes # {}, NEW k \in Ids
  PROVE  /\ First(nodes, k, Owner(nodes, k))
         /\ \A n : First(nodes, k, n) => n = Owner(nodes, k)
PROOF
<1>1. First(nodes, k, Owner(nodes, k))
  BY FirstExists DEF First, Owner
<1>2. ASSUME NEW n, First(nodes, k, n) PROVE n = Owner(nodes, k)
  <2>1. /\ n \in Ids /\ Owner(nodes, k) \in Ids
        /\ Dist(k, n) <= Dist(k, Owner(nodes, k))
        /\ Dist(k, Owner(nodes, k)) <= Dist(k, n)
    BY <1>1, <1>2 DEF First
  <2> QED BY <2>1, DistNat, DistInjective
<1> QED BY <1>1, <1>2

(* A ring of nodes gives each of them a predecessor.                       *)
LEMMA PredecessorType ==
  ASSUME NEW nodes \in SUBSET Ids, NEW n \in nodes
  PROVE  IdealPredecessor(nodes, n) \in nodes
PROOF
<1>1. CASE nodes = {n}
  BY <1>1 DEF IdealPredecessor
<1>2. CASE nodes # {n}
  <2> DEFINE others == nodes \ {n}
             T == {Dist(m, n) : m \in others}
  <2>1. T \subseteq Nat /\ T # {}
    BY <1>2, DistNat
  <2>2. \E d \in T : \A e \in T : ~(<<e, d>> \in OpToRel(<, Nat))
    <3> HIDE DEF T
    <3> QED BY <2>1, NatLessThanWellFounded, WFMin, Zenon
  <2>3. PICK p \in others : \A e \in T : ~(<<e, Dist(p, n)>> \in OpToRel(<, Nat))
    BY <2>2
  <2>4. \A m \in others : ~(Dist(m, n) < Dist(p, n))
    BY <2>1, <2>3 DEF OpToRel
  <2>5. \A m \in others : Dist(p, n) <= Dist(m, n)
    BY <2>4, DistNat
  <2> QED BY <1>2, <2>5 DEF IdealPredecessor
<1> QED BY <1>1, <1>2

(* A finger starts at an identifier of the ring.                           *)
LEMMA FingerStartType ==
  ASSUME NEW n \in Ids, NEW i \in 0 .. M-1
  PROVE  FingerStart(n, i) \in Ids
PROOF
<1>1. 2 ^ i \in Nat /\ n \in Nat
  BY PowerAssumption, MAssumption, RingSizeNat DEF Ids
<1>2. n + 2 ^ i \in Nat
  BY <1>1
<1>3. \A x \in Nat, r \in Nat \ {0} : x % r \in 0 .. r - 1
  OBVIOUS
<1> QED BY <1>2, <1>3, RingSizeNat DEF FingerStart, Ids

(* A node's successor owns every key between the two.                      *)
LEMMA SuccessorOwns ==
  ASSUME NEW nodes \in SUBSET Ids, NEW t \in nodes, NEW k \in Ids,
         t # k, InRangeInc(k, t, IdealSuccessor(nodes, t))
  PROVE  IdealSuccessor(nodes, t) = Owner(nodes, k)
PROOF
<1> DEFINE s == IdealSuccessor(nodes, t)
           u == (t + 1) % RingSize
<1>1. u \in Ids /\ t \in Ids
  BY NextId
<1>2. First(nodes, u, s)
  BY <1>1, OwnerFirst DEF IdealSuccessor
<1>3. s \in Ids
  BY <1>2 DEF First
<1>4. Dist(u, k) <= Dist(u, s)
  <2>1. CASE s = t
    BY <2>1, <1>1, NextId, DistNat, RingSizeNat
  <2>2. CASE s # t
    <3>1. Dist(t, k) <= Dist(t, s)
      BY <2>2, <1>1, <1>3, InRangeIncDist
    <3> QED BY <2>2, <3>1, <1>1, <1>3, NextId, DistNat
  <2> QED BY <2>1, <2>2
<1>5. \A m \in nodes : Dist(k, m) = Dist(u, m) - Dist(u, k)
  <2> TAKE m \in nodes
  <2>1. Dist(u, s) <= Dist(u, m)
    BY <1>2 DEF First
  <2>2. Dist(u, k) <= Dist(u, m)
    BY <2>1, <1>1, <1>3, <1>4, DistNat
  <2> QED BY <2>2, <1>1, DistSplit
<1>6. First(nodes, k, s)
  <2> SUFFICES ASSUME NEW m \in nodes PROVE Dist(k, s) <= Dist(k, m)
    BY <1>2 DEF First
  <2>1. Dist(u, s) <= Dist(u, m) /\ s \in nodes
    BY <1>2 DEF First
  <2>2. Dist(u, s) \in Nat /\ Dist(u, m) \in Nat /\ Dist(u, k) \in Nat
    BY <1>1, <1>3, DistNat
  <2> QED BY <2>1, <2>2, <1>5
<1> QED BY <1>6, OwnerFirst

(* What _closest_preceding_node returns: the node itself, and then no      *)
(* entry lies before the key, or an entry that does.                       *)
LEMMA ClosestPrecedingChoice ==
  ASSUME NEW n, NEW k, NEW table
  PROVE  \/ /\ ClosestPreceding(n, k, table) = n
            /\ \A i \in 0 .. M-1 : ~InRange(table[i], n, k)
         \/ \E i \in 0 .. M-1 : /\ ClosestPreceding(n, k, table) = table[i]
                                /\ InRange(table[i], n, k)
PROOF
<1>1. CASE ~\E i \in 0 .. M-1 : InRange(table[i], n, k)
  BY <1>1 DEF ClosestPreceding
<1>2. CASE \E i \in 0 .. M-1 : InRange(table[i], n, k)
  <2> DEFINE I == {i \in 0 .. M-1 : InRange(table[i], n, k)}
             Down == {M-1 - i : i \in I}
  <2>1. Down \subseteq Nat /\ Down # {}
    BY <1>2, MAssumption
  <2>2. \E d \in Down : \A e \in Down : ~(<<e, d>> \in OpToRel(<, Nat))
    <3> HIDE DEF Down
    <3> QED BY <2>1, NatLessThanWellFounded, WFMin, Zenon
  <2>3. PICK b \in I : \A e \in Down : ~(<<e, M-1 - b>> \in OpToRel(<, Nat))
    BY <2>2
  <2>4. \A j \in I : ~(M-1 - j < M-1 - b)
    BY <2>1, <2>3 DEF OpToRel
  <2>5. /\ InRange(table[b], n, k)
        /\ \A j \in 0 .. M-1 : j > b => ~InRange(table[j], n, k)
    <3>1. b \in 0 .. M-1 /\ InRange(table[b], n, k)
      BY <2>3
    <3>2. \A j \in 0 .. M-1 : j > b => ~(j \in I)
      BY <3>1, <2>4, MAssumption
    <3> QED BY <3>1, <3>2
  <2> DEFINE best == CHOOSE i \in 0 .. M-1 :
                       /\ InRange(table[i], n, k)
                       /\ \A j \in 0 .. M-1 : j > i => ~InRange(table[j], n, k)
  <2>6. best \in 0 .. M-1 /\ InRange(table[best], n, k)
    <3>1. b \in 0 .. M-1
      BY <2>3
    <3> QED BY <3>1, <2>5, Zenon
  <2>7. ClosestPreceding(n, k, table) = table[best]
    BY <1>2 DEF ClosestPreceding
  <2> QED BY <2>6, <2>7
<1> QED BY <1>1, <1>2
===============================================================================
