----------------------------- MODULE LookupProofs -----------------------------
(***************************************************************************)
(* Lookups are correct on a settled ring of any size, with any identifiers *)
(* and whatever stale fingers the nodes hold.                              *)
(***************************************************************************)
EXTENDS ChordLookup, RingTablesProofs

(***************************************************************************)
(* Lookups                                                                 *)
(***************************************************************************)
(* The variables of a lookup keep their types.                             *)
THEOREM LookupTypeCorrect == Spec => []TypeOK
PROOF
<1>1. Init => TypeOK
  BY DEF Init, TypeOK, Tables
<1>2. TypeOK /\ [Next]_vars => TypeOK'
  <2> SUFFICES ASSUME TypeOK, [Next]_vars PROVE TypeOK'
    OBVIOUS
  <2>1. At \in members /\ finger[At] \in [0 .. M-1 -> members] /\ 0 \in 0 .. M-1
    BY MAssumption DEF TypeOK, At
  <2>2. CASE Answer
    BY <2>1, <2>2 DEF Answer, TypeOK
  <2>3. CASE Stop
    BY <2>1, <2>3 DEF Stop, TypeOK
  <2>4. CASE Forward
    <3>1. ClosestPreceding(At, key, finger[At]) \in members
      BY <2>1, ClosestPrecedingChoice, ZenonT(60)
    <3> QED BY <2>4, <3>1 DEF Forward, TypeOK
  <2>5. CASE Done \/ UNCHANGED vars
    BY <2>5 DEF Done, vars, TypeOK
  <2> QED BY <2>2, <2>3, <2>4, <2>5 DEF Next
<1> QED BY <1>1, <1>2, PTL DEF Spec

(* A delegation goes to a node strictly closer to the key, and never to    *)
(* the key's own node.                                                     *)
LEMMA ForwardApproaches ==
  ASSUME TypeOK, Forward
  PROVE  /\ path' = Append(path, At') /\ At' \in members
         /\ Remaining(At') < Remaining(At) /\ At' # key
PROOF
<1> DEFINE next == ClosestPreceding(At, key, finger[At])
<1>1. At \in members /\ finger[At] \in [0 .. M-1 -> members] /\ members \subseteq Ids
      /\ key \in Ids
  BY DEF TypeOK, At
<1>2. next # At /\ path' = Append(path, next) /\ key' = key
  BY DEF Forward
<1>3. next \in members /\ InRange(next, At, key)
  BY <1>1, <1>2, ClosestPrecedingChoice
<1>4. At' = next
  BY <1>2, <1>3 DEF At, TypeOK
<1>5. ~InRangeInc(key, At, finger[At][0])
  BY DEF Forward
<1>6. next # key /\ Remaining(next) < Remaining(At)
  <2>1. CASE At = key
    <3>1. next # key
      BY <2>1, <1>2
    <3> QED BY <2>1, <3>1, <1>1, <1>3, DistNat DEF Remaining
  <2>2. CASE At # key
    <3>1. 0 < Dist(At, next) /\ Dist(At, next) < Dist(At, key)
      BY <2>2, <1>1, <1>3, InRangeDist
    <3>2. next # key
      BY <3>1, <1>1, <1>3, DistNat
    <3>3. Dist(next, key) = Dist(At, key) - Dist(At, next)
      BY <3>1, <1>1, <1>3, DistSplit, DistNat
    <3>4. Dist(At, key) \in Nat /\ Dist(At, next) \in Nat
      BY <1>1, <1>3, DistNat
    <3> QED BY <2>2, <3>1, <3>2, <3>3, <3>4 DEF Remaining
  <2> QED BY <2>1, <2>2
<1> QED BY <1>2, <1>3, <1>4, <1>6

(* Every delegation of find_successor approaches the key.                  *)
THEOREM HopsApproach == Spec => HopsApproachKey
PROOF
<1>1. TypeOK /\ [Next]_vars =>
        [path' # path => Remaining(At') < Remaining(At) /\ At' # key]_vars
  <2> SUFFICES ASSUME TypeOK, Next, path' # path
               PROVE  Remaining(At') < Remaining(At) /\ At' # key
    OBVIOUS
  <2>1. Forward
    BY DEF Next, Answer, Stop, Done, vars
  <2> QED BY <2>1, ForwardApproaches
<1> QED BY <1>1, LookupTypeCorrect, PTL DEF Spec, HopsApproachKey

(* The lookup's inductive invariant: successors are the settled ones, a    *)
(* call that did not start on the key never arrives there, each hop of the *)
(* path is closer than all before it, and an answer is the owner.          *)
Settled == \A n \in members : finger[n][0] = IdealSuccessor(members, n)
OffKey == path[1] # key => At # key
Closing ==
  \A i, j \in 1 .. Len(path) : i < j => Remaining(path[j]) < Remaining(path[i])

LookupInv == Settled /\ OffKey /\ Closing /\ LookupCorrect

(* The invariant is kept by every step of find_successor.                  *)
LEMMA LookupInvInductive ==
  ASSUME TypeOK, TypeOK', LookupInv, [Next]_vars
  PROVE  LookupInv'
PROOF
<1>1. At \in members /\ members \subseteq Ids /\ key \in Ids
  BY DEF TypeOK, At
<1>2. CASE Answer
  <2>1. At # key => finger[At][0] = Owner(members, key)
    BY <1>1, <1>2, SuccessorOwns DEF Answer, LookupInv, Settled
  <2> QED BY <1>2, <2>1 DEF Answer, LookupInv, Settled, OffKey, Closing, LookupCorrect,
                           At, Remaining
<1>3. CASE Stop
  <2>1. At = key
    <3> SUFFICES ASSUME At # key PROVE FALSE
      OBVIOUS
    <3> DEFINE s == finger[At][0]
    <3>1. s \in Ids /\ 0 \in 0 .. M-1
      BY <1>1, MAssumption DEF TypeOK
    <3>2. ~InRangeInc(key, At, s)
      BY <1>3 DEF Stop
    <3>3. s # At
      BY <3>2 DEF InRangeInc
    <3>4. 0 < Dist(At, s) /\ Dist(At, s) < Dist(At, key)
      <4>1. Dist(At, key) \in Nat /\ Dist(At, key) # 0
            /\ Dist(At, s) \in Nat /\ Dist(At, s) # 0
        BY <1>1, <3>1, <3>3, DistNat
      <4> QED BY <1>1, <3>1, <3>2, <3>3, <4>1, InRangeIncDist
    <3>5. InRange(s, At, key)
      BY <1>1, <3>1, <3>4, InRangeDist
    <3>6. ClosestPreceding(At, key, finger[At]) = At
      BY <1>3 DEF Stop
    <3>7. PICK i \in 0 .. M-1 : finger[At][i] = At /\ InRange(finger[At][i], At, key)
      BY <3>1, <3>5, <3>6, ClosestPrecedingChoice
    <3>8. 0 < Dist(At, At)
      BY <1>1, <3>7, InRangeDist
    <3> QED BY <1>1, <3>8, DistNat
  <2> QED BY <1>3, <2>1 DEF Stop, LookupInv, Settled, OffKey, Closing, LookupCorrect,
                           At, Remaining
<1>4. CASE Forward
  <2>1. /\ path' = Append(path, At') /\ At' \in members
        /\ Remaining(At') < Remaining(At) /\ At' # key
    BY <1>4, ForwardApproaches
  <2>2. UNCHANGED <<members, finger, key, result>> /\ result = None
    BY <1>4 DEF Forward
  <2>3. Settled' /\ OffKey' /\ LookupCorrect'
    BY <2>1, <2>2 DEF LookupInv, Settled, OffKey, LookupCorrect, TypeOK
  <2>4. Closing'
    <3>1. Len(path) \in Nat \ {0} /\ path \in [1 .. Len(path) -> members]
      BY DEF TypeOK
    <3>2. /\ Len(path') = Len(path) + 1 /\ path'[Len(path) + 1] = At'
          /\ \A i \in 1 .. Len(path) : path'[i] = path[i]
      BY <2>1, <3>1 DEF TypeOK
    <3>3. \A n \in Ids : Remaining(n) \in Nat
      BY <1>1, RingSizeNat, DistNat DEF Remaining
    <3>4. \A i \in 1 .. Len(path) : path[i] \in Ids /\ Remaining(At) <= Remaining(path[i])
      <4> TAKE i \in 1 .. Len(path)
      <4>1. path[i] \in Ids
        BY <1>1, <3>1
      <4>2. CASE i = Len(path)
        <5>1. At = path[i] /\ Remaining(At) \in Nat
          BY <4>1, <4>2, <3>3 DEF At
        <5> QED BY <5>1, <4>1
      <4>3. CASE i # Len(path)
        <5>0. Len(path) \in Nat \ {0}
          BY <3>1
        <5>1. i < Len(path) /\ Len(path) \in 1 .. Len(path)
          BY <4>3, <5>0
        <5>2. Remaining(path[Len(path)]) < Remaining(path[i])
          BY <5>1 DEF LookupInv, Closing
        <5>3. Remaining(At) < Remaining(path[i])
          BY <5>2 DEF At
        <5>4. Remaining(At) \in Nat /\ Remaining(path[i]) \in Nat
          BY <4>1, <1>1, <3>3
        <5> QED BY <5>3, <5>4, <4>1
      <4> QED BY <4>2, <4>3
    <3>5. \A i \in 1 .. Len(path) : Remaining(At') < Remaining(path[i])
      <4>1. At' \in Ids /\ At \in Ids
        BY <1>1, <2>1
      <4>2. Remaining(At') \in Nat /\ Remaining(At) \in Nat
        BY <4>1, <3>3
      <4> QED BY <2>1, <3>3, <3>4, <4>2
    <3>6. \A i, j \in 1 .. Len(path') : i < j => Remaining(path'[j]) < Remaining(path'[i])
      <4> TAKE i, j \in 1 .. Len(path')
      <4> HAVE i < j
      <4>1. CASE j = Len(path) + 1
        BY <3>1, <3>2, <3>5, <4>1
      <4>2. CASE j # Len(path) + 1
        <5>1. j \in 1 .. Len(path) /\ i \in 1 .. Len(path)
          BY <3>1, <3>2, <4>2
        <5> QED BY <5>1, <3>2 DEF LookupInv, Closing
      <4> QED BY <4>1, <4>2
    <3>7. key' = key
      BY <2>2
    <3> QED BY <3>6, <3>7 DEF Closing, Remaining
  <2> QED BY <2>3, <2>4 DEF LookupInv
<1>5. CASE Done \/ UNCHANGED vars
  BY <1>5 DEF Done, vars, LookupInv, Settled, OffKey, Closing, LookupCorrect, At, Remaining
<1> QED BY <1>2, <1>3, <1>4, <1>5 DEF Next

(* It holds throughout a lookup.                                           *)
LEMMA LookupInvAlways == Spec => []LookupInv
PROOF
<1>1. Init => LookupInv
  <2> SUFFICES ASSUME Init PROVE LookupInv
    OBVIOUS
  <2>1. PICK n \in members : path = <<n>>
    BY DEF Init
  <2> QED BY <2>1 DEF Init, Tables, LookupInv, Settled, OffKey, Closing, LookupCorrect, At
<1>2. TypeOK /\ TypeOK' /\ LookupInv /\ [Next]_vars => LookupInv'
  BY LookupInvInductive
<1> QED BY <1>1, <1>2, LookupTypeCorrect, PTL DEF Spec

(* find_successor, asked anywhere but on the key itself, returns the first *)
(* node at or after the key: for rings of any size and stale fingers.      *)
THEOREM LookupIsCorrect == Spec => []LookupCorrect
PROOF
  BY LookupInvAlways, PTL DEF LookupInv

(* A lookup visits no node twice, so a chain of nested calls is never      *)
(* longer than the ring.                                                   *)
THEOREM NoNodeTwice == Spec => []VisitsEachNodeOnce
PROOF
<1>1. TypeOK /\ LookupInv => VisitsEachNodeOnce
  <2> SUFFICES ASSUME TypeOK, LookupInv,
                      NEW i \in 1 .. Len(path), NEW j \in 1 .. Len(path), path[i] = path[j]
               PROVE  i = j
    BY DEF VisitsEachNodeOnce
  <2>1. Remaining(path[i]) \in Nat
    <3>1. path[i] \in Ids /\ key \in Ids
      BY DEF TypeOK
    <3> QED BY <3>1, RingSizeNat, DistNat DEF Remaining
  <2> QED BY <2>1 DEF LookupInv, Closing
<1> QED BY <1>1, LookupTypeCorrect, LookupInvAlways, PTL
=============================================================================
