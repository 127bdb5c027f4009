------------------------------- MODULE Induction -------------------------------
(***************************************************************************)
(* Induction over the naturals, for functions that run along a sequence.   *)
(* The library's induction theorem takes an operator, which the provers    *)
(* cannot instantiate; that every set of naturals has a smallest element   *)
(* follows from their well-foundedness, and induction over a set from it.  *)
(***************************************************************************)
EXTENDS Integers, WellFoundedInduction, TLAPS

LEMMA SmallestOf ==
  ASSUME NEW T \in SUBSET Nat, T # {}
  PROVE  \E x \in T : \A y \in T : x <= y
<1>1. IsWellFoundedOn({p \in Nat \X Nat : p[1] < p[2]}, Nat)
  BY NatLessThanWellFounded DEF OpToRel
<1>2. PICK x \in T : \A y \in T : ~(<<y, x>> \in {p \in Nat \X Nat : p[1] < p[2]})
  BY <1>1, WFMin
<1>3. \A y \in T : ~(y < x)
  BY <1>2
<1> QED  BY <1>3

\* Induction up to n, over a set of numbers in place of a predicate.
LEMMA Upwards ==
  ASSUME NEW n \in Nat, NEW P \in SUBSET (0..n),
         0 \in P, \A i \in P : i < n => i + 1 \in P
  PROVE  P = 0..n
<1> DEFINE T == {i \in 0..n : i \notin P}
<1> SUFFICES ASSUME T # {} PROVE FALSE
  OBVIOUS
<1>1. T \in SUBSET Nat
  OBVIOUS
<1>2. PICK x \in T : \A y \in T : x <= y
  BY <1>1, SmallestOf
<1>3. x \in 0..n /\ x # 0
  BY <1>2
<1>4. x - 1 \in P
  BY <1>2, <1>3
<1>5. x \in P
  BY <1>3, <1>4
<1> QED  BY <1>2, <1>5

\* The values of a function that begins with b and goes on by F.
IsIteration(g, n, b, F) == g[0] = b /\ \A i \in 1..n : g[i] = F[<<i, g[i - 1]>>]

\* A function given by its beginning and by each step from the one before exists.
LEMMA IterationExists ==
  ASSUME NEW n \in Nat, NEW S, NEW b \in S, NEW F \in [(1..n) \X S -> S]
  PROVE  \E g \in [0..n -> S] : IsIteration(g, n, b, F)
<1> DEFINE P == {i \in 0..n : \E g \in [0..i -> S] : IsIteration(g, i, b, F)}
<1>1. 0 \in P
  <2>1. [i \in 0..0 |-> b] \in [0..0 -> S] /\ IsIteration([i \in 0..0 |-> b], 0, b, F)
    BY DEF IsIteration
  <2> QED  BY <2>1
<1>2. ASSUME NEW i \in P, i < n PROVE i + 1 \in P
  <2>1. i \in 0..n /\ i + 1 \in 0..n /\ i + 1 \in 1..n /\ i \in Nat
    BY <1>2
  <2>2. PICK g \in [0..i -> S] : IsIteration(g, i, b, F)
    BY <1>2
  <2> DEFINE next == F[<<i + 1, g[i]>>]
             h == [j \in 0..i + 1 |-> IF j = i + 1 THEN next ELSE g[j]]
  <2>3. next \in S
    <3>1. i \in 0..i
      BY <2>1
    <3>2. g[i] \in S
      BY <2>2, <3>1
    <3>3. <<i + 1, g[i]>> \in (1..n) \X S
      BY <2>1, <3>2
    <3> QED  BY <3>3
  <2> HIDE DEF next
  <2>4. h \in [0..i + 1 -> S] /\ h[i + 1] = next /\ \A j \in 0..i : h[j] = g[j]
    BY <2>1, <2>3
  <2> HIDE DEF h
  <2>5. h[0] = b
    <3>1. 0 \in 0..i
      BY <2>1
    <3> QED  BY <2>2, <2>4, <3>1 DEF IsIteration
  <2>6. ASSUME NEW j \in 1..i + 1 PROVE h[j] = F[<<j, h[j - 1]>>]
    <3>1. CASE j = i + 1
      <4>1. j - 1 = i /\ i \in 0..i
        BY <2>1, <3>1
      <4>2. h[j - 1] = g[i]
        BY <2>4, <4>1
      <4> QED  BY <2>4, <3>1, <4>2 DEF next
    <3>2. CASE j # i + 1
      <4>1. j \in 1..i /\ j \in 0..i /\ j - 1 \in 0..i
        BY <2>1, <3>2
      <4> QED  BY <2>2, <2>4, <4>1 DEF IsIteration
    <3> QED  BY <3>1, <3>2
  <2>7. IsIteration(h, i + 1, b, F)
    BY <2>5, <2>6 DEF IsIteration
  <2> QED  BY <2>1, <2>4, <2>7
<1>3. P \in SUBSET (0..n)
  OBVIOUS
<1> HIDE DEF P
<1>4. n \in P
  BY <1>1, <1>2, <1>3, Upwards
<1> QED  BY <1>4 DEF P
=============================================================================
