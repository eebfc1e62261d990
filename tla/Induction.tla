------------------------------ MODULE Induction ------------------------------
(***************************************************************************)
(* Induction over the numbers for sets instead of predicates, and what a     *)
(* function that is defined by recursion over the positions of a sequence     *)
(* is. The theorems of NaturalsInduction say the same of operators; these     *)
(* can be instantiated with a set or a function that a proof defines.        *)
(***************************************************************************)
EXTENDS Integers, WellFoundedInduction, TLAPS

\* A set of numbers that is not empty has a least element.
LEMMA Least ==
    ASSUME NEW T, T \subseteq Nat, T # {}
    PROVE  \E x \in T : \A y \in T : x <= y
<1> DEFINE R == {ss \in Nat \X Nat : ss[1] < ss[2]}
<1>1. R = OpToRel(<, Nat)
  BY DEF OpToRel
<1>2. IsWellFoundedOn(R, Nat)
  BY <1>1, NatLessThanWellFounded
<1> HIDE DEF R
<1>3. PICK x \in T : \A y \in T : <<y, x>> \notin R
  BY <1>2, WFMin
<1>4. \A y \in T : ~(y < x)
  BY <1>3 DEF R
<1>5. QED  BY <1>3, <1>4

LEMMA SetInduction ==
    ASSUME NEW P, 0 \in P, \A n \in Nat : n \in P => n + 1 \in P
    PROVE  Nat \subseteq P
<1> SUFFICES ASSUME Nat \ P # {}
             PROVE  FALSE
  OBVIOUS
<1>1. PICK x \in Nat \ P : \A y \in Nat \ P : x <= y
  BY Least
<1>2. x # 0 /\ x - 1 \in Nat
  BY <1>1
<1>3. x - 1 \in P
  BY <1>1, <1>2
<1>4. QED  BY <1>1, <1>2, <1>3

\* Induction up to a bound.
LEMMA BoundedInduction ==
    ASSUME NEW m \in Nat, NEW P, 0 \in P,
           \A n \in 0 .. m : n \in P /\ n < m => n + 1 \in P
    PROVE  0 .. m \subseteq P
<1> DEFINE Q == {n \in Nat : n <= m => n \in P}
<1>1. 0 \in Q
  OBVIOUS
<1>2. ASSUME NEW n \in Nat, n \in Q
      PROVE  n + 1 \in Q
  BY <1>2
<1> HIDE DEF Q
<1>3. Nat \subseteq Q
  BY <1>1, <1>2, SetInduction
<1>4. QED  BY <1>3 DEF Q

\* Induction from a to b; there may be no number between them.
LEMMA IntervalInduction ==
    ASSUME NEW a \in Int, NEW b \in Int, NEW P, a <= b => a \in P,
           \A i \in a .. b : i \in P /\ i < b => i + 1 \in P
    PROVE  a .. b \subseteq P
<1>1. CASE a > b
  BY <1>1
<1>2. CASE a <= b
  <2> DEFINE Q == {k \in 0 .. b - a : a + k \in P}
  <2>1. b - a \in Nat
    BY <1>2
  <2>2. 0 \in Q
    BY <1>2, <2>1
  <2>3. ASSUME NEW k \in 0 .. b - a, k \in Q, k < b - a
        PROVE  k + 1 \in Q
    <3>1. a + k \in a .. b /\ a + k < b /\ k + 1 \in 0 .. b - a
          /\ (a + k) + 1 = a + (k + 1)
      BY <2>1, <2>3
    <3>2. QED  BY <2>3, <3>1
  <2> HIDE DEF Q
  <2>4. 0 .. b - a \subseteq Q
    BY <2>1, <2>2, <2>3, BoundedInduction
  <2>5. \A i \in a .. b : i - a \in Q /\ a + (i - a) = i
    BY <2>4
  <2>6. QED  BY <2>5 DEF Q
<1>3. QED  BY <1>1, <1>2

\* Two functions that are alike at a and stay alike are alike up to b.
Alike(g, h, a, b) == \A i \in a .. b : g[i] = h[i]
StayAlike(g, h, a, b) ==
    /\ a <= b => g[a] = h[a]
    /\ \A i \in a .. b - 1 : g[i] = h[i] => g[i + 1] = h[i + 1]

LEMMA Agreement ==
    ASSUME NEW a \in Int, NEW b \in Int, NEW g, NEW h, StayAlike(g, h, a, b)
    PROVE  Alike(g, h, a, b)
<1> DEFINE P == {i \in a .. b : g[i] = h[i]}
<1>1. a <= b => a \in P
  BY DEF StayAlike
<1>2. ASSUME NEW i \in a .. b, i \in P, i < b
      PROVE  i + 1 \in P
  <2>1. i \in a .. b - 1
    BY <1>2
  <2>2. QED  BY <1>2, <2>1 DEF StayAlike
<1> HIDE DEF P
<1>3. a .. b \subseteq P
  BY <1>1, <1>2, IntervalInduction
<1>4. QED  BY <1>3 DEF P, Alike

\* g is what step makes of base, number by number.
Unfolds(g, n, base, step) ==
    /\ g[0] = base
    /\ \A i \in 1 .. n : g[i] = step[i][g[i - 1]]

LEMMA UnfoldedOnce ==
    ASSUME NEW S, NEW base \in S, NEW m \in Nat, NEW step \in [1 .. m -> [S -> S]],
           NEW n \in 0 .. m - 1, NEW g \in [0 .. n -> S], Unfolds(g, n, base, step)
    PROVE  \E h \in [0 .. n + 1 -> S] : Unfolds(h, n + 1, base, step)
<1> DEFINE h == [i \in 0 .. n + 1 |-> IF i = n + 1 THEN step[n + 1][g[n]] ELSE g[i]]
<1>1. n + 1 \in 1 .. m /\ n \in 0 .. n
  OBVIOUS
<1>2. step[n + 1] \in [S -> S] /\ g[n] \in S
  BY <1>1
<1>3. h \in [0 .. n + 1 -> S]
  BY <1>2
<1>4. h[0] = base
  BY DEF Unfolds
<1>5. ASSUME NEW i \in 1 .. n + 1
      PROVE  h[i] = step[i][h[i - 1]]
  <2>1. CASE i = n + 1
    BY <2>1
  <2>2. CASE i # n + 1
    <3>1. i \in 1 .. n /\ i - 1 \in 0 .. n /\ i - 1 # n + 1
      BY <2>2
    <3>2. h[i] = g[i] /\ h[i - 1] = g[i - 1]
      BY <2>2, <3>1
    <3>3. QED  BY <3>1, <3>2 DEF Unfolds
  <2>3. QED  BY <2>1, <2>2
<1> HIDE DEF h
<1>6. QED  BY <1>3, <1>4, <1>5 DEF Unfolds

\* A recursion over 0 .. m has a solution.
LEMMA RecursionExists ==
    ASSUME NEW S, NEW base \in S, NEW m \in Nat, NEW step \in [1 .. m -> [S -> S]]
    PROVE  \E g \in [0 .. m -> S] : Unfolds(g, m, base, step)
<1> DEFINE P == {n \in 0 .. m : \E g \in [0 .. n -> S] : Unfolds(g, n, base, step)}
<1>1. 0 \in P
  <2> DEFINE g == [i \in 0 .. 0 |-> base]
  <2>1. g \in [0 .. 0 -> S] /\ Unfolds(g, 0, base, step)
    BY DEF Unfolds
  <2>2. QED  BY <2>1
<1>2. ASSUME NEW n \in 0 .. m, n \in P, n < m
      PROVE  n + 1 \in P
  <2>1. PICK g \in [0 .. n -> S] : Unfolds(g, n, base, step)
    BY <1>2
  <2>2. n \in 0 .. m - 1
    BY <1>2
  <2>3. QED  BY <2>1, <2>2, UnfoldedOnce
<1> HIDE DEF P
<1>3. 0 .. m \subseteq P
  BY <1>1, <1>2, BoundedInduction
<1>4. QED  BY <1>3 DEF P
=============================================================================
