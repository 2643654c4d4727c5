-------------------------- MODULE InductionLemmas --------------------------
(***************************************************************************)
(* Induction over the natural numbers in a form that the provers can use:  *)
(* with sets and functions in place of operators.  The proofs about the    *)
(* queues, the timers and the page tables cite these lemmas.               *)
(***************************************************************************)
EXTENDS Integers, WellFoundedInduction, TLAPS

(* A set of natural numbers that is not empty has a least element. *)
LEMMA LeastNatural ==
  ASSUME NEW S \in SUBSET Nat, S # {}
  PROVE  \E x \in S : \A y \in S : x <= y
<1> DEFINE R == OpToRel(<, Nat)
<1>1. IsWellFoundedOn(R, Nat)
  BY NatLessThanWellFounded
<1>2. \E x \in S : \A y \in S : ~ (<<y, x>> \in R)
  BY <1>1, WFMin, Zenon
<1>3. \A x, y \in Nat : y < x => <<y, x>> \in R
  BY DEF OpToRel
<1> HIDE DEF R
<1>4. PICK x \in S : \A y \in S : ~ (<<y, x>> \in R)
  BY <1>2
<1>5. ASSUME NEW y \in S PROVE x <= y
  <2>1. x \in Nat /\ y \in Nat
    OBVIOUS
  <2>2. ~(<<y, x>> \in R)
    BY <1>4
  <2>3. ~(y < x)
    BY <2>1, <2>2, <1>3
  <2> QED
    BY <2>1, <2>3
<1> QED
  BY <1>5

(* Induction up to n for membership in a set: what holds for 0 and passes  *)
(* from each number below n to the next holds for all of them.             *)
LEMMA InductionUpTo ==
  ASSUME NEW n \in Nat, NEW S, 0 \in S,
         \A i \in 0 .. (n - 1) : i \in S => i + 1 \in S
  PROVE  \A i \in 0 .. n : i \in S
<1> SUFFICES ASSUME NEW k \in 0 .. n, k \notin S PROVE FALSE
  OBVIOUS
<1> DEFINE Bad == { i \in 0 .. n : i \notin S }
<1>1. Bad \in SUBSET Nat /\ Bad # {}
  OBVIOUS
<1>2. PICK x \in Bad : \A y \in Bad : x <= y
  <2> HIDE DEF Bad
  <2> QED BY <1>1, LeastNatural
<1>3. x \in 1 .. n /\ x \notin S
  OBVIOUS
<1>4. x - 1 \in 0 .. (n - 1) /\ (x - 1) + 1 = x
  BY <1>3
<1>5. x - 1 \in S
  <2>1. x - 1 \notin Bad
    BY <1>2, <1>4
  <2> QED BY <2>1, <1>4
<1>6. (x - 1) + 1 \in S
  BY <1>4, <1>5
<1> QED
  BY <1>3, <1>4, <1>6

(* f is defined on 0 .. n by recursion: it starts with a, and step G leads  *)
(* from one value to the next.                                             *)
Recursion(f, n, a, G) == f[0] = a /\ \A i \in 1 .. n : f[i] = G[<<f[i - 1], i>>]

(* A function on 0 .. n may be defined by recursion from its value at 0. *)
LEMMA RecursionUpTo ==
  ASSUME NEW n \in Nat, NEW T, NEW a \in T, NEW G \in [T \X (1 .. n) -> T]
  PROVE  \E f \in [0 .. n -> T] : Recursion(f, n, a, G)
<1> USE DEF Recursion
<1> DEFINE Upto(f, m) == Recursion(f, m, a, G)
           S == { m \in Nat : \E f \in [0 .. m -> T] : Upto(f, m) }
<1>1. 0 \in S
  <2> DEFINE f0 == [i \in 0 .. 0 |-> a]
  <2>1. f0 \in [0 .. 0 -> T] /\ Upto(f0, 0)
    OBVIOUS
  <2> QED BY <2>1
<1>2. ASSUME NEW m \in 0 .. (n - 1), m \in S PROVE m + 1 \in S
  <2>1. PICK f \in [0 .. m -> T] : Upto(f, m)
    BY <1>2
  <2> DEFINE last == G[<<f[m], m + 1>>]
             g == [i \in 0 .. (m + 1) |-> IF i <= m THEN f[i] ELSE last]
  <2>2. last \in T
    <3>1. m \in 0 .. m /\ m + 1 \in 1 .. n
      OBVIOUS
    <3>2. f[m] \in T
      BY <3>1
    <3>3. <<f[m], m + 1>> \in T \X (1 .. n)
      BY <3>1, <3>2
    <3> QED BY <3>3
  <2>3. g \in [0 .. (m + 1) -> T]
    <3> HIDE DEF last
    <3> QED BY <2>2
  <2>4. g[0] = a
    BY <2>1
  <2>5. ASSUME NEW i \in 1 .. (m + 1) PROVE g[i] = G[<<g[i - 1], i>>]
    <3>1. CASE i <= m
      <4>1. g[i] = f[i] /\ g[i - 1] = f[i - 1]
        BY <3>1
      <4>2. f[i] = G[<<f[i - 1], i>>]
        BY <2>1, <3>1
      <4> QED BY <4>1, <4>2
    <3>2. CASE ~(i <= m)
      <4>1. i = m + 1 /\ i - 1 = m
        BY <3>2
      <4>2. g[i] = last /\ g[i - 1] = f[m]
        BY <4>1
      <4> QED BY <4>1, <4>2
    <3> QED BY <3>1, <3>2
  <2>6. Upto(g, m + 1)
    BY <2>4, <2>5
  <2>7. m + 1 \in Nat
    OBVIOUS
  <2> HIDE DEF g
  <2> QED BY <2>3, <2>6, <2>7
<1>3. n \in 0 .. n
  OBVIOUS
<1>4. n \in S
  <2> HIDE DEF S
  <2> QED BY <1>1, <1>2, <1>3, InductionUpTo
<1> QED
  BY <1>4

(* A function that satisfies such a recursion keeps to the set in which    *)
(* its steps stay.                                                         *)
LEMMA RecursionStaysIn ==
  ASSUME NEW n \in Nat, NEW T, NEW F, F[0] \in T,
         \A i \in 1 .. n : F[i - 1] \in T => F[i] \in T
  PROVE  \A i \in 0 .. n : F[i] \in T
<1> DEFINE S == { i \in 0 .. n : F[i] \in T }
<1>1. 0 \in S
  OBVIOUS
<1>2. ASSUME NEW i \in 0 .. (n - 1), i \in S PROVE i + 1 \in S
  <2>1. i + 1 \in 1 .. n /\ (i + 1) - 1 = i /\ i + 1 \in 0 .. n
    OBVIOUS
  <2>2. F[i] \in T
    BY <1>2
  <2>3. F[i + 1] \in T
    BY <2>1, <2>2
  <2> QED BY <2>1, <2>3
<1>3. \A i \in 0 .. n : i \in S
  <2> HIDE DEF S
  <2> QED BY <1>1, <1>2, InductionUpTo
<1> QED
  BY <1>3

(* f is defined on 0 .. n by that recursion and its value at i is in TT[i]. *)
Through(f, n, TT, a, G) ==
  /\ f = [i \in 0 .. n |-> f[i]]
  /\ \A i \in 0 .. n : f[i] \in TT[i]
  /\ Recursion(f, n, a, G)

(* The same when each step leads from one set to the next: then the step   *)
(* has to be known on these sets alone.                                    *)
LEMMA RecursionThrough ==
  ASSUME NEW n \in Nat, NEW TT, NEW a \in TT[0], NEW G,
         \A i \in 1 .. n : \A x \in TT[i - 1] : G[<<x, i>>] \in TT[i]
  PROVE  \E f : Through(f, n, TT, a, G)
<1>0. \A i \in 1 .. n : i - 1 \in 0 .. n /\ i \in 0 .. n
  OBVIOUS
<1> DEFINE T == UNION { TT[i] : i \in 0 .. n }
           H(x, i) == IF x \in TT[i - 1] THEN G[<<x, i>>] ELSE a
           K == [p \in T \X (1 .. n) |-> H(p[1], p[2])]
<1>1. a \in T
  <2>1. 0 \in 0 .. n
    OBVIOUS
  <2> QED BY <2>1
<1>2. ASSUME NEW x \in T, NEW i \in 1 .. n PROVE H(x, i) \in T
  <2>1. i \in 0 .. n
    OBVIOUS
  <2>2. CASE x \in TT[i - 1]
    BY <2>1, <2>2
  <2>3. CASE x \notin TT[i - 1]
    BY <1>1, <2>3
  <2> QED BY <2>2, <2>3
<1>3. K \in [T \X (1 .. n) -> T]
  <2> HIDE DEF T, H
  <2> QED BY <1>2
<1>4. \A x \in T, i \in 1 .. n : K[<<x, i>>] = H(x, i)
  <2> HIDE DEF T, H
  <2> QED OBVIOUS
<1>5. PICK f \in [0 .. n -> T] : Recursion(f, n, a, K)
  <2> HIDE DEF T, K
  <2> QED BY <1>1, <1>3, RecursionUpTo
<1> DEFINE S == { i \in 0 .. n : f[i] \in TT[i] }
<1>6. 0 \in S
  BY <1>5 DEF Recursion
<1>7. ASSUME NEW i \in 1 .. n, f[i - 1] \in TT[i - 1]
      PROVE  f[i] = G[<<f[i - 1], i>>] /\ f[i] \in TT[i]
  <2>1. i - 1 \in 0 .. n
    BY <1>0
  <2>2. f[i - 1] \in T
    <3> HIDE DEF T
    <3> QED BY <2>1
  <2>3. f[i] = K[<<f[i - 1], i>>]
    BY <1>5 DEF Recursion
  <2>4. K[<<f[i - 1], i>>] = H(f[i - 1], i)
    <3> HIDE DEF T, K, H
    <3> QED BY <1>4, <2>2
  <2>5. f[i] = G[<<f[i - 1], i>>]
    BY <1>7, <2>3, <2>4
  <2> QED BY <1>7, <2>5
<1>8. ASSUME NEW i \in 0 .. (n - 1), i \in S PROVE i + 1 \in S
  <2>1. i + 1 \in 1 .. n /\ (i + 1) - 1 = i /\ i + 1 \in 0 .. n
    OBVIOUS
  <2>2. f[i] \in TT[i]
    BY <1>8
  <2>3. f[i + 1] \in TT[i + 1]
    BY <1>7, <2>1, <2>2
  <2> QED BY <2>1, <2>3
<1>9. \A i \in 0 .. n : i \in S
  <2> HIDE DEF S
  <2> QED BY <1>6, <1>8, InductionUpTo
<1>10. \A i \in 0 .. n : f[i] \in TT[i]
  BY <1>9
<1>11. \A i \in 1 .. n : f[i] = G[<<f[i - 1], i>>]
  <2> SUFFICES ASSUME NEW i \in 1 .. n PROVE f[i] = G[<<f[i - 1], i>>]
    OBVIOUS
  <2>1. i - 1 \in 0 .. n
    BY <1>0
  <2> QED BY <1>7, <1>10, <2>1
<1>12. f[0] = a
  BY <1>5 DEF Recursion
<1>13. f = [i \in 0 .. n |-> f[i]]
  <2> HIDE DEF T
  <2> QED OBVIOUS
<1> QED
  BY <1>10, <1>11, <1>12, <1>13 DEF Through, Recursion

=============================================================================
