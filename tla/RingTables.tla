----------------------------- MODULE RingTables -----------------------------
(***************************************************************************)
(* The identifier circle of chord/node.py: ring intervals, finger starts   *)
(* and the local routing decision a node takes from its own tables.        *)
(* A node is represented by its identifier; the code carries the pair      *)
(* {"id", "address"} and every address has one identifier.                 *)
(***************************************************************************)
EXTENDS Integers

CONSTANT M    \* bits of an identifier (8 in the repository's test ring)

ASSUME MAssumption == M \in Nat \ {0}

(* Powers of two are positive: arithmetic the provers do not know.         *)
ASSUME PowerAssumption == \A i \in 0 .. M : 2 ^ i \in Nat \ {0}

RingSize == 2 ^ M
Ids == 0 .. RingSize - 1

(* in_range(x, a, b): the open interval (a, b) on the circle; equal bounds *)
(* mean the entire ring, a itself included.                                *)
InRange(x, a, b) ==
  \/ a = b
  \/ a < b /\ a < x /\ x < b
  \/ a > b /\ (x > a \/ x < b)

(* in_range(x, a, b, inclusive_b=True): the half-open interval (a, b].     *)
InRangeInc(x, a, b) ==
  \/ a = b
  \/ a < b /\ a < x /\ x <= b
  \/ a > b /\ (x > a \/ x <= b)

(* start of finger i: (n + 2^i) mod 2^M.                                   *)
FingerStart(n, i) == (n + 2 ^ i) % RingSize

(* Mutants of ClosestPreceding: the key's own node is a candidate; the     *)
(* bounds of the interval are swapped.                                     *)
ClosestPrecedingUpTo(n, key, table) ==
  LET Before(i) == InRangeInc(table[i], n, key)
  IN IF \E i \in 0 .. M-1 : Before(i)
     THEN table[CHOOSE i \in 0 .. M-1 :
                  Before(i) /\ \A j \in 0 .. M-1 : j > i => ~Before(j)]
     ELSE n
ClosestPrecedingSwapped(n, key, table) ==
  LET Before(i) == InRange(table[i], key, n)
  IN IF \E i \in 0 .. M-1 : Before(i)
     THEN table[CHOOSE i \in 0 .. M-1 :
                  Before(i) /\ \A j \in 0 .. M-1 : j > i => ~Before(j)]
     ELSE n

(* _closest_preceding_node: the entry with the highest index that lies     *)
(* strictly between n and the key, n itself when there is none.  Entry 0   *)
(* of the table is the successor pointer.                                  *)
ClosestPreceding(n, key, table) ==
  IF \E i \in 0 .. M-1 : InRange(table[i], n, key)
  THEN LET best == CHOOSE i \in 0 .. M-1 :
                     /\ InRange(table[i], n, key)
                     /\ \A j \in 0 .. M-1 : j > i => ~InRange(table[j], n, key)
       IN table[best]
  ELSE n

(***************************************************************************)
(* Reference definitions, in terms of the clockwise distance: not taken    *)
(* from the code, used to state what the code's tests must mean.           *)
(***************************************************************************)
Dist(a, b) == IF a <= b THEN b - a ELSE b - a + RingSize

(* The node responsible for a key: the first one at or after the key.      *)
Owner(nodes, key) ==
  CHOOSE n \in nodes : \A m \in nodes : Dist(key, n) <= Dist(key, m)

(* The first other node clockwise of n (n itself when it is alone).        *)
IdealSuccessor(nodes, n) == Owner(nodes, (n + 1) % RingSize)

(* The first other node counter-clockwise of n.                            *)
IdealPredecessor(nodes, n) ==
  IF nodes = {n} THEN n
  ELSE CHOOSE p \in nodes \ {n} :
         \A m \in nodes \ {n} : Dist(p, n) <= Dist(m, n)
=============================================================================
