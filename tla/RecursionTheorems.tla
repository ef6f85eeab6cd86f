------------------------- MODULE RecursionTheorems --------------------------
(***************************************************************************)
(* Induction and recursion over the natural numbers, stated with sets and  *)
(* functions where the library's theorems take operators: what the other   *)
(* proofs need to reason about the model's recursive functions.            *)
(***************************************************************************)
EXTENDS NaturalsInduction, WellFoundedInduction, TLAPS

\* A set of natural numbers has a least member.
LEMMA LeastMember ==
  ASSUME NEW S, S \subseteq Nat, S # {}
  PROVE  \E n \in S : \A m \in S : n <= m
<1> DEFINE R == {ss \in Nat \X Nat : ss[1] < ss[2]}
<1>1. IsWellFoundedOn(R, Nat)
  BY NatLessThanWellFounded DEF OpToRel
<1>2. \E x \in S : \A y \in S : <<y, x>> \notin R
  <2> HIDE DEF R
  <2> QED BY <1>1, WFMin
<1>3. PICK x \in S : \A y \in S : <<y, x>> \notin R
  BY <1>2
<1>4. ASSUME NEW y \in S PROVE x <= y
  <2>1. x \in Nat /\ y \in Nat /\ <<y, x>> \notin R
    BY <1>3
  <2>2. ~ (y < x)
    BY <2>1
  <2> QED BY <2>1, <2>2
<1> QED BY <1>4

\* What holds of 0, and of n + 1 when it holds of n, holds of every number.
LEMMA InductionOnSet ==
  ASSUME NEW S, 0 \in S, \A n \in Nat : n \in S => n + 1 \in S
  PROVE  \A n \in Nat : n \in S
<1> SUFFICES ASSUME Nat \ S # {} PROVE FALSE
  OBVIOUS
<1>1. PICK n \in Nat \ S : \A m \in Nat \ S : n <= m
  BY LeastMember
<1>2. n # 0 /\ n - 1 \in Nat /\ n - 1 \notin Nat \ S
  BY <1>1
<1>3. n - 1 + 1 \in S
  BY <1>2
<1> QED BY <1>1, <1>3

\* The same, up to a bound.
LEMMA InductionUpTo ==
  ASSUME NEW m \in Nat, NEW S, 0 \in S, \A n \in 0..m : n < m /\ n \in S => n + 1 \in S
  PROVE  \A n \in 0..m : n \in S
<1> DEFINE T == {n \in Nat : n <= m => n \in S}
<1>1. 0 \in T
  OBVIOUS
<1>2. ASSUME NEW n \in Nat, n \in T PROVE n + 1 \in T
  BY <1>2
<1>3. \A n \in Nat : n \in T
  <2> HIDE DEF T
  <2> QED BY <1>1, <1>2, InductionOnSet
<1> QED BY <1>3

\* f takes the values of a recursion that gives f[n] from n and f[n - 1].
Solves(f, V, base, Step, m) ==
  /\ f \in [0..m -> V]
  /\ f[0] = base
  /\ \A k \in 1..m : f[k] = Step[<<k, f[k - 1]>>]

\* Such a recursion defines a function.
LEMMA RecursionDefines ==
  ASSUME NEW V, NEW base \in V, NEW Step \in [Nat \X V -> V], NEW m \in Nat
  PROVE  \E f : Solves(f, V, base, Step, m)
<1> DEFINE S == {n \in Nat : \E f : Solves(f, V, base, Step, n)}
<1>1. 0 \in S
  <2>1. Solves([k \in 0..0 |-> base], V, base, Step, 0)
    BY DEF Solves
  <2> QED BY <2>1
<1>2. ASSUME NEW n \in Nat, n \in S PROVE n + 1 \in S
  <2>1. PICK f : Solves(f, V, base, Step, n)
    BY <1>2
  <2>2. PICK next : next = Step[<<n + 1, f[n]>>]
    OBVIOUS
  <2>3. next \in V
    BY <2>1, <2>2 DEF Solves
  <2>4. PICK g : g = [k \in 0..(n + 1) |-> IF k = n + 1 THEN next ELSE f[k]]
    OBVIOUS
  <2>5. g \in [0..(n + 1) -> V] /\ g[0] = base
    BY <2>1, <2>3, <2>4 DEF Solves
  <2>6. ASSUME NEW k \in 1..(n + 1)
        PROVE  g[k] = Step[<<k, g[k - 1]>>]
    <3>1. CASE k = n + 1
      <4>1. k - 1 = n /\ n \in 0..(n + 1) /\ n # n + 1
        BY <3>1
      <4>2. g[k] = next /\ g[k - 1] = f[n]
        BY <2>4, <3>1, <4>1
      <4> QED BY <2>2, <3>1, <4>1, <4>2
    <3>2. CASE k # n + 1
      <4>1. k \in 1..n /\ k - 1 \in 0..n /\ k - 1 \in 0..(n + 1) /\ k - 1 # n + 1
        BY <3>2
      <4>2. g[k] = f[k] /\ g[k - 1] = f[k - 1]
        BY <2>4, <3>2, <4>1
      <4> QED BY <2>1, <4>1, <4>2 DEF Solves
    <3> QED BY <3>1, <3>2
  <2>7. Solves(g, V, base, Step, n + 1)
    BY <2>5, <2>6 DEF Solves
  <2> QED BY <2>7
<1>3. m \in S
  <2> HIDE DEF S
  <2> QED BY <1>1, <1>2, InductionOnSet
<1> QED BY <1>3

\* Values that start in V and stay in V are in V.
LEMMA StaysIn ==
  ASSUME NEW m \in Nat, NEW V, NEW f, f[0] \in V,
         \A n \in 1..m : f[n - 1] \in V => f[n] \in V
  PROVE  \A n \in 0..m : f[n] \in V
<1> DEFINE S == {n \in Nat : n <= m => f[n] \in V}
<1>1. 0 \in S
  OBVIOUS
<1>2. ASSUME NEW n \in 0..m, n < m, n \in S PROVE n + 1 \in S
  <2>1. n + 1 \in 1..m /\ n + 1 - 1 = n /\ f[n] \in V
    BY <1>2
  <2> QED BY <2>1
<1>3. \A n \in 0..m : n \in S
  <2> HIDE DEF S
  <2> QED BY <1>1, <1>2, InductionUpTo
<1> QED BY <1>3
=============================================================================
