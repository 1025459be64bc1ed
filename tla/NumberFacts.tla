---------------------------- MODULE NumberFacts -----------------------------
(***************************************************************************)
(* Least and greatest elements of sets of numbers, induction in the        *)
(* form of a set that is closed under successor, and the existence of      *)
(* functions defined by recursion on an interval.  The nodes of a ring are *)
(* numbers; the models name neighbours by the least or the greatest one    *)
(* (next member, owner, predecessor), and the proofs need them to exist.   *)
(***************************************************************************)
EXTENDS Integers, WellFoundedInduction, TLAPS

(* Every nonempty set of natural numbers has a least element.              *)
LEMMA LeastNumber ==
  ASSUME NEW T, T \subseteq Nat, T # {}
  PROVE  \E x \in T : \A y \in T : x <= y
<1> DEFINE R == {p \in Nat \X Nat : p[1] < p[2]}
<1>1. IsWellFoundedOn(R, Nat)
  BY NatLessThanWellFounded, Zenon DEF OpToRel
<1>2. PICK x \in T : \A y \in T : <<y, x>> \notin R
  <2> HIDE DEF R
  <2> QED BY <1>1, WFMin, Zenon
<1>3. \A y \in T : ~(y < x)
  BY <1>2
<1> QED BY <1>3

(* Every nonempty set of natural numbers with a bound has a greatest one.  *)
LEMMA GreatestNumber ==
  ASSUME NEW B \in Nat, NEW T, T \subseteq 0 .. B, T # {}
  PROVE  \E x \in T : \A y \in T : y <= x
<1> DEFINE U == {m \in 0 .. B : B - m \in T}
<1>1. U \subseteq Nat
  OBVIOUS
<1>2. U # {}
  <2>1. PICK z \in T : TRUE
    OBVIOUS
  <2>2. B - z \in 0 .. B /\ B - (B - z) = z
    OBVIOUS
  <2>3. B - z \in U
    BY <2>1, <2>2
  <2> QED BY <2>3
<1>3. PICK x \in U : \A y \in U : x <= y
  <2> HIDE DEF U
  <2> QED BY <1>1, <1>2, LeastNumber
<1>4. \A y \in T : B - y \in U
  OBVIOUS
<1> WITNESS B - x \in T
<1> QED BY <1>3, <1>4, SMTT(60)

(* Induction: a set with 0 that is closed under successor holds them all.  *)
LEMMA SetInduction ==
  ASSUME NEW T, 0 \in T, \A n \in Nat : n \in T => n + 1 \in T
  PROVE  Nat \subseteq T
<1> SUFFICES ASSUME Nat \ T # {} PROVE FALSE
  OBVIOUS
<1>1. PICK x \in Nat \ T : \A y \in Nat \ T : x <= y
  <2>1. Nat \ T \subseteq Nat
    OBVIOUS
  <2> QED BY <2>1, LeastNumber, Zenon
<1>2. x # 0 /\ x - 1 \in Nat
  OBVIOUS
<1>3. x - 1 \in T
  BY <1>1, <1>2
<1>4. (x - 1) + 1 \in T
  BY <1>2, <1>3, Zenon
<1> QED BY <1>1, <1>4

(* A function defined by recursion on 0 .. m exists: c at 0, and step[i]   *)
(* applied to the value before.                                            *)
Recursion(f, c, step, m) ==
  \A i \in 0 .. m : f[i] = IF i = 0 THEN c ELSE step[i][f[i - 1]]
LEMMA RecursionExists ==
  ASSUME NEW S, NEW c \in S, NEW step \in [Nat -> [S -> S]], NEW m \in Nat
  PROVE  \E f \in [0 .. m -> S] : Recursion(f, c, step, m)
<1> DEFINE Good(f, n) == \A i \in 0 .. n : f[i] = IF i = 0 THEN c ELSE step[i][f[i - 1]]
           T == {n \in Nat : \E f \in [0 .. n -> S] : Good(f, n)}
<1>1. 0 \in T
  <2> DEFINE f == [i \in 0 .. 0 |-> c]
  <2>1. f \in [0 .. 0 -> S] /\ Good(f, 0)
    OBVIOUS
  <2> QED BY <2>1
<1>2. ASSUME NEW n \in Nat, n \in T PROVE n + 1 \in T
  <2>1. PICK f \in [0 .. n -> S] : Good(f, n)
    BY <1>2
  <2> DEFINE g == [i \in 0 .. n + 1 |-> IF i <= n THEN f[i] ELSE step[n + 1][f[n]]]
  <2>2. f[n] \in S /\ step[n + 1][f[n]] \in S
    OBVIOUS
  <2>3. g \in [0 .. n + 1 -> S]
    BY <2>2
  <2>4. ASSUME NEW i \in 0 .. n + 1 PROVE g[i] = IF i = 0 THEN c ELSE step[i][g[i - 1]]
    <3>1. CASE i <= n
      <4>1. i \in 0 .. n /\ g[i] = f[i] /\ f[i] = IF i = 0 THEN c ELSE step[i][f[i - 1]]
        BY <2>1, <3>1
      <4>2. i # 0 => g[i - 1] = f[i - 1]
        BY <3>1
      <4> QED BY <4>1, <4>2
    <3>2. CASE i = n + 1
      <4>1. g[i] = step[n + 1][f[n]] /\ g[i - 1] = f[n] /\ i # 0
        BY <3>2
      <4> QED BY <3>2, <4>1
    <3> QED BY <3>1, <3>2
  <2> HIDE DEF g
  <2>5. Good(g, n + 1)
    BY <2>4
  <2> HIDE DEF Good
  <2> QED BY <2>3, <2>5
<1>3. Nat \subseteq T
  <2> HIDE DEF T
  <2> QED BY <1>1, <1>2, SetInduction
<1>4. m \in T
  BY <1>3
<1> QED BY <1>4 DEF Recursion

(* What holds at 0 and is handed on holds on 0 .. m.                       *)
LEMMA IntervalInduction ==
  ASSUME NEW m \in Nat, NEW T, 0 \in T,
         \A i \in 1 .. m : i - 1 \in T => i \in T
  PROVE  0 .. m \subseteq T
<1> DEFINE U == {i \in Nat : i <= m => i \in T}
<1>1. 0 \in U
  OBVIOUS
<1>2. ASSUME NEW n \in Nat, n \in U PROVE n + 1 \in U
  <2>1. CASE n + 1 <= m
    <3>1. n + 1 \in 1 .. m /\ n \in T /\ (n + 1) - 1 = n
      BY <1>2, <2>1
    <3>2. n + 1 \in T
      BY <3>1
    <3> QED BY <3>2
  <2> QED BY <2>1
<1>3. Nat \subseteq U
  <2> HIDE DEF U
  <2> QED BY <1>1, <1>2, SetInduction
<1> QED BY <1>3
=============================================================================
