--------------------------- MODULE PriceDataProofs ---------------------------
(***************************************************************************)
(* Proofs about Strategy and PriceData, for every file, every price and all   *)
(* windows: what the loops of the strategy compute is what the definitions    *)
(* say, and which bars a job is given.                                      *)
(*                                                                         *)
(* Each recursive function is first shown to be what its equations say: some  *)
(* function solves them, so the one that is chosen does; what  *)
(* is said of it then follows by induction over the positions.               *)
(***************************************************************************)
EXTENDS PriceData, Induction, FiniteSetTheorems, SequenceTheorems

LEMMA Windows ==
    /\ ShortWindow \in Nat \ {0} /\ LongWindow \in Nat \ {0}
    /\ InitialCapital \in Nat \ {0} /\ AtNoPrice \in Int
BY StrategyAssumption

-----------------------------------------------------------------------------
(* Sums *)

\* g[k] is the sum of the first k numbers.
Adds(g, numbers, n) ==
    /\ g \in [0 .. n -> Int]
    /\ g[0] = 0
    /\ \A k \in 1 .. n : g[k] = g[k - 1] + numbers[k]

LEMMA SumSolved ==
    ASSUME NEW numbers, NEW n \in Nat, \A k \in 1 .. n : numbers[k] \in Int
    PROVE  \E g : Adds(g, numbers, n) /\ SumTo(numbers, n) = g[n]
<1> DEFINE body(g) == [k \in 0 .. n |-> IF k = 0 THEN 0 ELSE g[k - 1] + numbers[k]]
           step == [k \in 1 .. n |-> [a \in Int |-> a + numbers[k]]]
<1>1. step \in [1 .. n -> [Int -> Int]] /\ 0 \in Int
  OBVIOUS
<1>2. PICK g \in [0 .. n -> Int] : Unfolds(g, n, 0, step)
  <2> HIDE DEF step
  <2>1. QED  BY <1>1, RecursionExists
<1>3. Adds(g, numbers, n)
  <2>1. ASSUME NEW k \in 1 .. n
        PROVE  g[k] = g[k - 1] + numbers[k]
    <3>1. k - 1 \in 0 .. n
      OBVIOUS
    <3>2. g[k - 1] \in Int /\ g[k] = step[k][g[k - 1]]
      BY <1>2, <3>1 DEF Unfolds
    <3>3. QED  BY <3>2
  <2>2. QED  BY <1>2, <2>1 DEF Adds, Unfolds
<1> HIDE DEF step
<1>4. g = body(g)
  <2>1. ASSUME NEW k \in 0 .. n
        PROVE  g[k] = IF k = 0 THEN 0 ELSE g[k - 1] + numbers[k]
    BY <1>3 DEF Adds
  <2>2. QED  BY <2>1
<1>5. PICK f : f = body(f) /\ SumTo(numbers, n) = f[n]
  <2> DEFINE chosen == CHOOSE h : h = body(h)
  <2>1. chosen = body(chosen)
    BY <1>4
  <2>2. SumTo(numbers, n) = chosen[n]
    BY DEF SumTo
  <2> HIDE DEF chosen
  <2>3. QED  BY <2>1, <2>2
<1>7. /\ f = [k \in 0 .. n |-> f[k]] /\ f[0] = 0
      /\ \A k \in 1 .. n : f[k] = f[k - 1] + numbers[k]
  <2>1. \A k \in 0 .. n : f[k] = body(f)[k]
    BY <1>5
  <2>2. f = [k \in 0 .. n |-> f[k]]
    BY <1>5
  <2>3. f[0] = 0
    BY <2>1
  <2>4. ASSUME NEW k \in 1 .. n
        PROVE  f[k] = f[k - 1] + numbers[k]
    <3>1. k \in 0 .. n /\ k # 0
      OBVIOUS
    <3>2. QED  BY <2>1, <3>1
  <2>5. QED  BY <2>2, <2>3, <2>4
<1>8. \A k \in 0 .. n : f[k] = g[k]
  <2>1. ASSUME NEW i \in 0 .. n - 1, f[i] = g[i]
        PROVE  f[i + 1] = g[i + 1]
    <3>1. i + 1 \in 1 .. n /\ (i + 1) - 1 = i
      OBVIOUS
    <3>2. f[i + 1] = f[i] + numbers[i + 1] /\ g[i + 1] = g[i] + numbers[i + 1]
      BY <1>3, <1>7, <3>1 DEF Adds
    <3>3. QED  BY <2>1, <3>2
  <2>2. StayAlike(f, g, 0, n)
    BY <1>3, <1>7, <2>1 DEF Adds, StayAlike
  <2>3. 0 \in Int /\ n \in Int
    OBVIOUS
  <2>4. QED  BY <2>2, <2>3, Agreement DEF Alike
<1>9. QED  BY <1>3, <1>5, <1>8

\* All sums of the first numbers at once.
LEMMA SumsSolved ==
    ASSUME NEW numbers, NEW n \in Nat, \A k \in 1 .. n : numbers[k] \in Int
    PROVE  \E g : Adds(g, numbers, n) /\ \A i \in 0 .. n : SumTo(numbers, i) = g[i]
<1>1. PICK g : Adds(g, numbers, n)
  BY SumSolved
<1>2. ASSUME NEW i \in 0 .. n
      PROVE  SumTo(numbers, i) = g[i]
  <2>1. i \in Nat /\ i \in Int /\ 0 \in Int /\ \A k \in 1 .. i : numbers[k] \in Int
    OBVIOUS
  <2>2. PICK h : Adds(h, numbers, i) /\ SumTo(numbers, i) = h[i]
    BY <2>1, SumSolved
  <2>3. ASSUME NEW k \in 0 .. i - 1, h[k] = g[k]
        PROVE  h[k + 1] = g[k + 1]
    <3>1. k + 1 \in 1 .. i /\ k + 1 \in 1 .. n /\ (k + 1) - 1 = k
      OBVIOUS
    <3>2. h[k + 1] = h[k] + numbers[k + 1] /\ g[k + 1] = g[k] + numbers[k + 1]
      BY <1>1, <2>2, <3>1 DEF Adds
    <3>3. QED  BY <2>3, <3>2
  <2>4. StayAlike(h, g, 0, i)
    BY <1>1, <2>2, <2>3 DEF Adds, StayAlike
  <2>5. Alike(h, g, 0, i)
    BY <2>1, <2>4, Agreement
  <2>6. i \in 0 .. i
    BY <2>1
  <2>7. QED  BY <2>2, <2>5, <2>6 DEF Alike
<1>3. QED  BY <1>1, <1>2

LEMMA Sums ==
    ASSUME NEW numbers, NEW n \in Nat, \A k \in 1 .. n : numbers[k] \in Int
    PROVE  /\ SumTo(numbers, 0) = 0
           /\ \A i \in 0 .. n : SumTo(numbers, i) \in Int
           /\ \A i \in 1 .. n : SumTo(numbers, i) = SumTo(numbers, i - 1) + numbers[i]
<1>1. PICK g : Adds(g, numbers, n) /\ \A i \in 0 .. n : SumTo(numbers, i) = g[i]
  BY SumsSolved
<1>2. 0 \in 0 .. n /\ \A i \in 1 .. n : i \in 0 .. n /\ i - 1 \in 0 .. n
  OBVIOUS
<1>3. \A i \in 0 .. n : SumTo(numbers, i) \in Int
  BY <1>1 DEF Adds
<1>4. SumTo(numbers, 0) = 0
  BY <1>1, <1>2 DEF Adds
<1>5. ASSUME NEW i \in 1 .. n
      PROVE  SumTo(numbers, i) = SumTo(numbers, i - 1) + numbers[i]
  <2>1. SumTo(numbers, i) = g[i] /\ SumTo(numbers, i - 1) = g[i - 1]
    BY <1>1, <1>2
  <2>2. QED  BY <1>1, <2>1 DEF Adds
<1>6. QED  BY <1>3, <1>4, <1>5

\* The sum of a stretch is the difference of two sums from the start.
LEMMA SumOfStretch ==
    ASSUME NEW p \in Seq(Int), NEW a \in Nat, NEW n \in Nat, a + n <= Len(p)
    PROVE  SumTo(SubSeq(p, a + 1, a + n), n) = SumTo(p, a + n) - SumTo(p, a)
<1> DEFINE s == SubSeq(p, a + 1, a + n)
           g == [i \in 0 .. n |-> SumTo(s, i)]
           h == [i \in 0 .. n |-> SumTo(p, a + i) - SumTo(p, a)]
<1>1. \A i \in 1 .. n : s[i] = p[a + i] /\ s[i] \in Int
  <2>1. a + 1 \in 1 .. Len(p) + 1 /\ a + n \in a .. Len(p) /\ Len(p) \in Nat
    OBVIOUS
  <2>2. ASSUME NEW i \in 1 .. n
        PROVE  s[i] = p[a + i] /\ s[i] \in Int
    <3>1. a + i \in 1 .. Len(p) /\ (a + 1) + i - 1 = a + i
      BY <2>1
    <3>2. s[i] = p[a + i]
      BY <2>1, <3>1
    <3>3. p[a + i] \in Int
      BY <3>1
    <3>4. QED  BY <3>2, <3>3
  <2>3. QED  BY <2>2
<1> HIDE DEF s
<1>2. Len(p) \in Nat /\ \A k \in 1 .. Len(p) : p[k] \in Int
  OBVIOUS
<1>3. /\ \A i \in 0 .. Len(p) : SumTo(p, i) \in Int
      /\ \A i \in 1 .. Len(p) : SumTo(p, i) = SumTo(p, i - 1) + p[i]
  BY <1>2, Sums
<1>4. /\ SumTo(s, 0) = 0
      /\ \A i \in 1 .. n : SumTo(s, i) = SumTo(s, i - 1) + s[i]
  BY <1>1, Sums
<1>5. g[0] = h[0]
  <2>1. SumTo(p, a) \in Int /\ a + 0 = a /\ 0 \in 0 .. n
    BY <1>2, <1>3
  <2>2. QED  BY <1>4, <2>1
<1>6. ASSUME NEW i \in 0 .. n - 1, g[i] = h[i]
      PROVE  g[i + 1] = h[i + 1]
  <2>1. /\ i \in 0 .. n /\ i + 1 \in 0 .. n /\ i + 1 \in 1 .. n /\ (i + 1) - 1 = i
        /\ a \in 0 .. Len(p) /\ a + i \in 0 .. Len(p) /\ a + (i + 1) \in 1 .. Len(p)
        /\ (a + (i + 1)) - 1 = a + i
    BY <1>2
  <2>2. SumTo(s, i + 1) = SumTo(s, i) + p[a + (i + 1)]
    BY <1>1, <1>4, <2>1
  <2>3. SumTo(p, a + (i + 1)) = SumTo(p, a + i) + p[a + (i + 1)]
    BY <1>3, <2>1
  <2>4. SumTo(p, a) \in Int /\ SumTo(p, a + i) \in Int /\ p[a + (i + 1)] \in Int
    BY <1>2, <1>3, <2>1
  <2>5. SumTo(s, i) = SumTo(p, a + i) - SumTo(p, a)
    BY <1>6, <2>1
  <2>6. g[i + 1] = SumTo(s, i + 1) /\ h[i + 1] = SumTo(p, a + (i + 1)) - SumTo(p, a)
    BY <2>1
  <2> HIDE DEF g, h
  <2>7. QED  BY <2>2, <2>3, <2>4, <2>5, <2>6
<1>7. n \in Int /\ 0 \in Int /\ n \in 0 .. n /\ g[n] = SumTo(s, n)
      /\ h[n] = SumTo(p, a + n) - SumTo(p, a)
  OBVIOUS
<1> HIDE DEF g, h
<1>8. StayAlike(g, h, 0, n)
  BY <1>5, <1>6 DEF StayAlike
<1>9. Alike(g, h, 0, n)
  BY <1>7, <1>8, Agreement
<1>10. g[n] = h[n]
  BY <1>7, <1>9 DEF Alike
<1>11. QED  BY <1>7, <1>10 DEF s

-----------------------------------------------------------------------------
(* Averages and crossings *)

\* What the window that ends at bar i adds up to, as a difference of sums.
LEMMA WindowDifference ==
    ASSUME NEW p \in Seq(Int), NEW w \in Nat \ {0}, NEW i \in w .. Len(p)
    PROVE  WindowSum(p, i, w) = SumTo(p, i) - SumTo(p, i - w) /\ WindowSum(p, i, w) \in Int
<1>1. i - w \in Nat /\ w \in Nat /\ (i - w) + w = i /\ i \in Int /\ Len(p) \in Nat
      /\ (i - w) + w <= Len(p)
  OBVIOUS
<1>2. SumTo(SubSeq(p, (i - w) + 1, (i - w) + w), w) = SumTo(p, (i - w) + w) - SumTo(p, i - w)
  BY <1>1, SumOfStretch
<1>3. WindowSum(p, i, w) = SumTo(p, i) - SumTo(p, i - w)
  BY <1>1, <1>2 DEF WindowSum
<1>4. \A k \in 1 .. Len(p) : p[k] \in Int
  OBVIOUS
<1>5. i \in 0 .. Len(p) /\ i - w \in 0 .. Len(p)
  BY <1>1
<1>6. SumTo(p, i) \in Int /\ SumTo(p, i - w) \in Int
  BY <1>1, <1>4, <1>5, Sums
<1>7. QED  BY <1>3, <1>6

\* The running sums are the sums of the windows.
LEMMA SlidingSumsAreSums ==
    ASSUME NEW p \in Seq(Int), NEW w \in Nat \ {0}
    PROVE  /\ DOMAIN SlidingSums(p, w) = 1 .. Len(p)
           /\ \A i \in 1 .. Len(p) :
                SlidingSums(p, w)[i] = IF i < w THEN 0 ELSE WindowSum(p, i, w)
<1> DEFINE body(g) == [i \in w .. Len(p) |-> IF i = w THEN SumTo(p, w)
                                             ELSE g[i - 1] - p[i - w] + p[i]]
           g == [i \in w .. Len(p) |-> SumTo(p, i) - SumTo(p, i - w)]
<1>1. Len(p) \in Nat /\ w \in Int /\ Len(p) \in Int /\ DOMAIN p = 1 .. Len(p)
      /\ \A k \in 1 .. Len(p) : p[k] \in Int
  OBVIOUS
<1>2. /\ SumTo(p, 0) = 0
      /\ \A i \in 0 .. Len(p) : SumTo(p, i) \in Int
      /\ \A i \in 1 .. Len(p) : SumTo(p, i) = SumTo(p, i - 1) + p[i]
  BY <1>1, Sums
<1>3. ASSUME NEW i \in w .. Len(p)
      PROVE  g[i] = IF i = w THEN SumTo(p, w) ELSE g[i - 1] - p[i - w] + p[i]
  <2>1. CASE i = w
    <3>1. w \in 0 .. Len(p) /\ w - w = 0
      BY <2>1
    <3>2. g[i] = SumTo(p, w) - SumTo(p, 0)
      BY <2>1, <3>1
    <3>3. QED  BY <1>2, <2>1, <3>1, <3>2
  <2>2. CASE i # w
    <3>1. /\ i - 1 \in w .. Len(p) /\ i \in 1 .. Len(p) /\ i - w \in 1 .. Len(p)
          /\ (i - 1) - w = (i - w) - 1 /\ i \in 0 .. Len(p) /\ i - 1 \in 0 .. Len(p)
          /\ (i - w) - 1 \in 0 .. Len(p)
      BY <2>2
    <3>2. g[i] = SumTo(p, i) - SumTo(p, i - w) /\ g[i - 1] = SumTo(p, i - 1) - SumTo(p, (i - w) - 1)
      BY <3>1
    <3>3. SumTo(p, i) = SumTo(p, i - 1) + p[i]
          /\ SumTo(p, i - w) = SumTo(p, (i - w) - 1) + p[i - w]
      BY <1>2, <3>1
    <3>4. p[i] \in Int /\ p[i - w] \in Int /\ SumTo(p, i - 1) \in Int
          /\ SumTo(p, (i - w) - 1) \in Int
      BY <1>1, <1>2, <3>1
    <3> DEFINE a == SumTo(p, i - 1)
               b == SumTo(p, (i - w) - 1)
               in == p[i]
               out == p[i - w]
    <3>5. /\ a \in Int /\ b \in Int /\ in \in Int /\ out \in Int
          /\ g[i] = (a + in) - (b + out) /\ g[i - 1] = a - b
      BY <3>2, <3>3, <3>4
    <3> HIDE DEF g, a, b, in, out
    <3>6. (a + in) - (b + out) = (a - b) - out + in
      BY <3>5
    <3>7. g[i] = g[i - 1] - out + in
      BY <3>5, <3>6
    <3>8. QED  BY <2>2, <3>7 DEF in, out
  <2>3. QED  BY <2>1, <2>2
<1>4. g = body(g)
  <2>1. body(g) = [i \in w .. Len(p) |-> g[i]]
    BY <1>3
  <2>2. QED  BY <2>1
<1>5. PICK f : /\ f = body(f)
               /\ SlidingSums(p, w) = [i \in DOMAIN p |-> IF i < w THEN 0 ELSE f[i]]
  <2> DEFINE chosen == CHOOSE h : h = body(h)
  <2>1. chosen = body(chosen)
    BY <1>4
  <2>2. SlidingSums(p, w) = [i \in DOMAIN p |-> IF i < w THEN 0 ELSE chosen[i]]
    BY DEF SlidingSums
  <2> HIDE DEF chosen
  <2>3. QED  BY <2>1, <2>2
<1>6. \A i \in w .. Len(p) :
        f[i] = IF i = w THEN SumTo(p, w) ELSE f[i - 1] - p[i - w] + p[i]
  <2>1. \A i \in w .. Len(p) : f[i] = body(f)[i]
    BY <1>5
  <2>2. QED  BY <2>1
<1> HIDE DEF g, body
<1>7. StayAlike(f, g, w, Len(p))
  <2>1. w <= Len(p) => f[w] = g[w]
    <3>1. w <= Len(p) => w \in w .. Len(p)
      BY <1>1
    <3>2. QED  BY <1>3, <1>6, <3>1
  <2>2. ASSUME NEW i \in w .. Len(p) - 1, f[i] = g[i]
        PROVE  f[i + 1] = g[i + 1]
    <3>1. i + 1 \in w .. Len(p) /\ i + 1 # w /\ (i + 1) - 1 = i
      OBVIOUS
    <3>2. /\ f[i + 1] = f[i] - p[i + 1 - w] + p[i + 1]
          /\ g[i + 1] = g[i] - p[i + 1 - w] + p[i + 1]
      BY <1>3, <1>6, <3>1
    <3>3. QED  BY <2>2, <3>2
  <2>3. QED  BY <2>1, <2>2 DEF StayAlike
<1>8. Alike(f, g, w, Len(p))
  BY <1>1, <1>7, Agreement
<1>9. ASSUME NEW i \in 1 .. Len(p)
      PROVE  SlidingSums(p, w)[i] = IF i < w THEN 0 ELSE WindowSum(p, i, w)
  <2>1. CASE i < w
    BY <1>1, <1>5, <2>1
  <2>2. CASE ~(i < w)
    <3>1. i \in w .. Len(p)
      BY <2>2
    <3>2. SlidingSums(p, w)[i] = f[i] /\ f[i] = g[i]
      BY <1>1, <1>5, <1>8, <2>2, <3>1 DEF Alike
    <3>3. g[i] = WindowSum(p, i, w)
      BY <3>1, WindowDifference DEF g
    <3>4. QED  BY <2>2, <3>2, <3>3
  <2>3. QED  BY <2>1, <2>2
<1>10. DOMAIN SlidingSums(p, w) = 1 .. Len(p)
  BY <1>1, <1>5
<1>11. QED  BY <1>9, <1>10

\* What the last counting bar says after one more bar.
LEMMA WasAboveStep ==
    ASSUME NEW p, NEW i \in Int, i > LongWindow
    PROVE  WasAbove(p, i + 1) <=> IF Counts(p, i) THEN IsAbove(p, i) ELSE WasAbove(p, i)
<1>1. LongWindow \in Nat
  BY Windows
<1>2. (i + 1) - 1 = i /\ i \in LongWindow + 1 .. i
      /\ \A j \in LongWindow + 1 .. i - 1 : j \in LongWindow + 1 .. i
  BY <1>1
<1>3. CASE Counts(p, i)
  <2>1. ASSUME IsAbove(p, i)
        PROVE  WasAbove(p, i + 1)
    <3>1. \A k \in i + 1 .. i : ~Counts(p, k)
      OBVIOUS
    <3>2. \E j \in LongWindow + 1 .. i :
            /\ Counts(p, j) /\ IsAbove(p, j)
            /\ \A k \in j + 1 .. i : ~Counts(p, k)
      BY <1>2, <1>3, <2>1, <3>1
    <3>3. QED  BY <1>2, <3>2 DEF WasAbove
  <2>2. ASSUME WasAbove(p, i + 1)
        PROVE  IsAbove(p, i)
    <3>1. PICK j \in LongWindow + 1 .. i :
            /\ Counts(p, j) /\ IsAbove(p, j)
            /\ \A k \in j + 1 .. i : ~Counts(p, k)
      BY <1>2, <2>2 DEF WasAbove
    <3>2. j # i => i \in j + 1 .. i
      BY <1>1, <3>1
    <3>3. j = i
      BY <1>3, <3>1, <3>2
    <3>4. QED  BY <3>1, <3>3
  <2>3. QED  BY <1>3, <2>1, <2>2
<1>4. CASE ~Counts(p, i)
  <2>1. ASSUME WasAbove(p, i + 1)
        PROVE  WasAbove(p, i)
    <3>1. PICK j \in LongWindow + 1 .. i :
            /\ Counts(p, j) /\ IsAbove(p, j)
            /\ \A k \in j + 1 .. i : ~Counts(p, k)
      BY <1>2, <2>1 DEF WasAbove
    <3>2. j # i
      BY <1>4, <3>1
    <3>3. j \in LongWindow + 1 .. i - 1 /\ \A k \in j + 1 .. i - 1 : k \in j + 1 .. i
      BY <1>1, <3>1, <3>2
    <3>4. QED  BY <3>1, <3>3 DEF WasAbove
  <2>2. ASSUME WasAbove(p, i)
        PROVE  WasAbove(p, i + 1)
    <3>1. PICK j \in LongWindow + 1 .. i - 1 :
            /\ Counts(p, j) /\ IsAbove(p, j)
            /\ \A k \in j + 1 .. i - 1 : ~Counts(p, k)
      BY <2>2 DEF WasAbove
    <3>2. j \in LongWindow + 1 .. i
          /\ \A k \in j + 1 .. i : k # i => k \in j + 1 .. i - 1
      BY <1>1, <3>1
    <3>3. \A k \in j + 1 .. i : ~Counts(p, k)
      BY <1>4, <3>1, <3>2
    <3>4. \E x \in LongWindow + 1 .. i :
            /\ Counts(p, x) /\ IsAbove(p, x)
            /\ \A k \in x + 1 .. i : ~Counts(p, k)
      BY <3>1, <3>2, <3>3
    <3>5. QED  BY <1>2, <3>4 DEF WasAbove
  <2>3. QED  BY <1>4, <2>1, <2>2
<1>5. QED  BY <1>3, <1>4

\* Nothing has counted before the second bar at which the long average is there.
LEMMA NothingWasAbove ==
    ASSUME NEW p
    PROVE  ~WasAbove(p, LongWindow + 1)
<1>1. LongWindow + 1 .. (LongWindow + 1) - 1 = {}
  BY Windows
<1>2. QED  BY <1>1 DEF WasAbove

Holds(p, i) ==
    \/ i < LongWindow + 2
    \/ ~Counts(p, i)
    \/ IsAbove(p, i) <=> WasAbove(p, i)

LEMMA Crossings ==
    ASSUME NEW p \in Seq(Int)
    PROVE  /\ DOMAIN Signals(p) = 1 .. Len(p)
           /\ \A i \in 1 .. Len(p) :
                Signals(p)[i] = IF Holds(p, i) THEN "HOLD"
                                ELSE IF IsAbove(p, i) THEN "BUY" ELSE "SELL"
<1> DEFINE short == SlidingSums(p, ShortWindow)
           long == SlidingSums(p, LongWindow)
           over(i) == short[i] * LongWindow > long[i] * ShortWindow
           body(g) == [i \in LongWindow .. Len(p) |->
                        IF i = LongWindow THEN FALSE
                        ELSE IF short[i] > 0 /\ long[i] > 0 THEN over(i)
                        ELSE g[i - 1]]
           crosses(g, i) == i > LongWindow + 1 /\ ~(g[i] <=> g[i - 1])
           g == [i \in LongWindow .. Len(p) |-> WasAbove(p, i + 1)]
<1>1. LongWindow \in Int /\ Len(p) \in Nat /\ Len(p) \in Int /\ DOMAIN p = 1 .. Len(p)
  BY Windows
<1>2. ASSUME NEW i \in LongWindow .. Len(p)
      PROVE  /\ short[i] = IF i >= ShortWindow THEN WindowSum(p, i, ShortWindow) ELSE 0
             /\ long[i] = WindowSum(p, i, LongWindow)
  <2>1. i \in 1 .. Len(p) /\ (i >= ShortWindow <=> ~(i < ShortWindow)) /\ ~(i < LongWindow)
    BY Windows
  <2>2. QED  BY <2>1, Windows, SlidingSumsAreSums
<1> HIDE DEF short, long
<1>3. \A i \in LongWindow .. Len(p) :
        /\ (short[i] > 0 /\ long[i] > 0) <=> Counts(p, i)
        /\ Counts(p, i) => (over(i) <=> IsAbove(p, i))
  BY <1>2 DEF Counts, IsAbove
<1>4. ASSUME NEW i \in LongWindow .. Len(p)
      PROVE  g[i] = IF i = LongWindow THEN FALSE
                    ELSE IF short[i] > 0 /\ long[i] > 0 THEN over(i) ELSE g[i - 1]
  <2>1. CASE i = LongWindow
    <3>1. g[i] = WasAbove(p, i + 1)
      OBVIOUS
    <3>2. ~WasAbove(p, i + 1) /\ WasAbove(p, i + 1) \in BOOLEAN
      BY <2>1, NothingWasAbove DEF WasAbove
    <3> HIDE DEF g
    <3>3. g[i] = FALSE
      BY <3>1, <3>2
    <3>4. QED  BY <2>1, <3>3
  <2>2. CASE i # LongWindow
    <3>1. i - 1 \in LongWindow .. Len(p) /\ (i - 1) + 1 = i /\ i > LongWindow /\ i \in Int
      BY <1>1, <2>2
    <3>2. WasAbove(p, i + 1) \in BOOLEAN /\ over(i) \in BOOLEAN
      BY DEF WasAbove
    <3>3. WasAbove(p, i + 1) <=> IF Counts(p, i) THEN IsAbove(p, i) ELSE WasAbove(p, i)
      BY <3>1, WasAboveStep
    <3>4. g[i] = WasAbove(p, i + 1) /\ g[i - 1] = WasAbove(p, i)
      BY <3>1
    <3> HIDE DEF g, over
    <3>5. CASE Counts(p, i)
      <4>1. g[i] <=> over(i)
        BY <1>3, <3>3, <3>4, <3>5
      <4>2. g[i] = over(i)
        BY <3>2, <3>4, <4>1
      <4>3. QED  BY <1>3, <2>2, <3>5, <4>2
    <3>6. CASE ~Counts(p, i)
      <4>1. WasAbove(p, i) \in BOOLEAN
        BY DEF WasAbove
      <4>2. g[i] = g[i - 1]
        BY <3>2, <3>3, <3>4, <3>6, <4>1
      <4>3. QED  BY <1>3, <2>2, <3>6, <4>2
    <3>7. QED  BY <3>5, <3>6
  <2>3. QED  BY <2>1, <2>2
<1>5. g = body(g)
  <2>1. body(g) = [i \in LongWindow .. Len(p) |-> g[i]]
    BY <1>4
  <2>2. QED  BY <2>1
<1>6. PICK f : /\ f = body(f)
               /\ Signals(p) = [i \in DOMAIN p |-> IF ~crosses(f, i) THEN "HOLD"
                                                   ELSE IF f[i] THEN "BUY" ELSE "SELL"]
  <2> DEFINE chosen == CHOOSE h : h = body(h)
  <2>1. chosen = body(chosen)
    BY <1>5
  <2>2. Signals(p) = [i \in DOMAIN p |-> IF ~crosses(chosen, i) THEN "HOLD"
                                         ELSE IF chosen[i] THEN "BUY" ELSE "SELL"]
    BY DEF Signals, short, long
  <2> HIDE DEF chosen
  <2>3. QED  BY <2>1, <2>2
<1>7. \A i \in LongWindow .. Len(p) :
        f[i] = IF i = LongWindow THEN FALSE
               ELSE IF short[i] > 0 /\ long[i] > 0 THEN over(i) ELSE f[i - 1]
  <2>1. \A i \in LongWindow .. Len(p) : f[i] = body(f)[i]
    BY <1>6
  <2>2. QED  BY <2>1
<1> HIDE DEF body, over
<1>8. /\ \A i \in LongWindow .. Len(p) : g[i] = WasAbove(p, i + 1)
      /\ \A i \in LongWindow .. Len(p) : g[i] \in BOOLEAN
  BY DEF WasAbove
<1> HIDE DEF g
<1>9. StayAlike(f, g, LongWindow, Len(p))
  <2>1. LongWindow <= Len(p) => f[LongWindow] = g[LongWindow]
    <3>1. LongWindow <= Len(p) => LongWindow \in LongWindow .. Len(p)
      BY <1>1
    <3>2. QED  BY <1>4, <1>7, <3>1
  <2>2. ASSUME NEW i \in LongWindow .. Len(p) - 1, f[i] = g[i]
        PROVE  f[i + 1] = g[i + 1]
    <3>1. i + 1 \in LongWindow .. Len(p) /\ i + 1 # LongWindow /\ (i + 1) - 1 = i
      BY <1>1
    <3>2. f[i + 1] = IF short[i + 1] > 0 /\ long[i + 1] > 0 THEN over(i + 1) ELSE f[(i + 1) - 1]
      BY <1>7, <3>1
    <3>3. g[i + 1] = IF short[i + 1] > 0 /\ long[i + 1] > 0 THEN over(i + 1) ELSE g[(i + 1) - 1]
      BY <1>4, <3>1
    <3>4. QED  BY <2>2, <3>1, <3>2, <3>3
  <2>3. QED  BY <2>1, <2>2 DEF StayAlike
<1>10. Alike(f, g, LongWindow, Len(p))
  BY <1>1, <1>9, Agreement
<1>11. ASSUME NEW i \in 1 .. Len(p)
       PROVE  Signals(p)[i] = IF Holds(p, i) THEN "HOLD"
                              ELSE IF IsAbove(p, i) THEN "BUY" ELSE "SELL"
  <2>1. Signals(p)[i] = IF ~crosses(f, i) THEN "HOLD" ELSE IF f[i] THEN "BUY" ELSE "SELL"
    BY <1>1, <1>6
  <2>2. CASE i < LongWindow + 2
    <3>1. ~crosses(f, i) /\ Holds(p, i)
      BY <1>1, <2>2 DEF Holds
    <3>2. QED  BY <2>1, <3>1
  <2>3. CASE ~(i < LongWindow + 2)
    <3>1. /\ i \in LongWindow .. Len(p) /\ i - 1 \in LongWindow .. Len(p) /\ i # LongWindow
          /\ (i - 1) + 1 = i /\ i > LongWindow + 1 /\ i > LongWindow /\ i \in Int
      BY <1>1, <2>3
    <3>2. f[i] = g[i] /\ f[i - 1] = g[i - 1]
      BY <1>10, <3>1 DEF Alike
    <3>3. g[i] = WasAbove(p, i + 1) /\ g[i - 1] = WasAbove(p, i)
      BY <1>8, <3>1
    <3>4. WasAbove(p, i) \in BOOLEAN /\ WasAbove(p, i + 1) \in BOOLEAN
      BY DEF WasAbove
    <3>5. WasAbove(p, i + 1) <=> IF Counts(p, i) THEN IsAbove(p, i) ELSE WasAbove(p, i)
      BY <3>1, WasAboveStep
    <3>6. crosses(f, i) <=> ~(WasAbove(p, i + 1) <=> WasAbove(p, i))
      BY <3>1, <3>2, <3>3, <3>4
    <3>7. f[i] <=> WasAbove(p, i + 1)
      BY <3>2, <3>3
    <3>8. Holds(p, i) <=> (~Counts(p, i) \/ (IsAbove(p, i) <=> WasAbove(p, i)))
      BY <2>3 DEF Holds
    <3> HIDE DEF crosses
    <3>9. CASE Counts(p, i)
      BY <2>1, <3>5, <3>6, <3>7, <3>8, <3>9
    <3>10. CASE ~Counts(p, i)
      BY <2>1, <3>5, <3>6, <3>7, <3>8, <3>10
    <3>11. QED  BY <3>9, <3>10
  <2>4. QED  BY <2>2, <2>3
<1>12. DOMAIN Signals(p) = 1 .. Len(p)
  BY <1>1, <1>6
<1>13. QED  BY <1>11, <1>12

-----------------------------------------------------------------------------
(* What is sifted out of a sequence *)

\* f[i] is what is sifted out of the first i rows.
Sifts(f, rows, some) ==
    /\ f \in [0 .. Len(rows) -> Seq(some)]
    /\ f[0] = <<>>
    /\ \A i \in 1 .. Len(rows) :
        f[i] = IF rows[i] \in some THEN Append(f[i - 1], rows[i]) ELSE f[i - 1]

LEMMA SiftedSolved ==
    ASSUME NEW rows, NEW some, Len(rows) \in Nat
    PROVE  \E f : Sifts(f, rows, some) /\ Sifted(rows, some) = f[Len(rows)]
<1> DEFINE n == Len(rows)
           body(g) == [i \in 0 .. n |->
                        IF i = 0 THEN <<>>
                        ELSE IF rows[i] \in some THEN Append(g[i - 1], rows[i]) ELSE g[i - 1]]
           step == [i \in 1 .. n |->
                        [s \in Seq(some) |-> IF rows[i] \in some THEN Append(s, rows[i]) ELSE s]]
<1>1. <<>> \in Seq(some) /\ n \in Nat /\ n \in Int /\ 0 \in Int
  OBVIOUS
<1>2. step \in [1 .. n -> [Seq(some) -> Seq(some)]]
  OBVIOUS
<1>3. PICK g \in [0 .. n -> Seq(some)] : Unfolds(g, n, <<>>, step)
  <2> HIDE DEF step, n
  <2>1. QED  BY <1>1, <1>2, RecursionExists
<1>4. ASSUME NEW i \in 1 .. n
      PROVE  g[i] = IF rows[i] \in some THEN Append(g[i - 1], rows[i]) ELSE g[i - 1]
  <2>1. i - 1 \in 0 .. n
    OBVIOUS
  <2>2. g[i - 1] \in Seq(some) /\ g[i] = step[i][g[i - 1]]
    BY <1>3, <2>1 DEF Unfolds
  <2>3. QED  BY <2>2
<1>5. Sifts(g, rows, some)
  BY <1>3, <1>4 DEF Sifts, Unfolds
<1>6. g = body(g)
  <2>1. ASSUME NEW i \in 0 .. n
        PROVE  g[i] = IF i = 0 THEN <<>>
                      ELSE IF rows[i] \in some THEN Append(g[i - 1], rows[i]) ELSE g[i - 1]
    <3>1. CASE i = 0
      BY <1>5, <3>1 DEF Sifts
    <3>2. CASE i # 0
      <4>1. i \in 1 .. n
        BY <3>2
      <4>2. QED  BY <1>4, <3>2, <4>1
    <3>3. QED  BY <3>1, <3>2
  <2>2. body(g) = [i \in 0 .. n |-> g[i]]
    BY <2>1
  <2>3. QED  BY <2>2
<1>7. PICK f : f = body(f) /\ Sifted(rows, some) = f[n]
  <2> DEFINE chosen == CHOOSE h : h = body(h)
  <2>1. chosen = body(chosen)
    BY <1>6
  <2>2. Sifted(rows, some) = chosen[n]
    BY DEF Sifted
  <2> HIDE DEF chosen
  <2>3. QED  BY <2>1, <2>2
<1>8. \A i \in 0 .. n :
        f[i] = IF i = 0 THEN <<>>
               ELSE IF rows[i] \in some THEN Append(f[i - 1], rows[i]) ELSE f[i - 1]
  <2>1. \A i \in 0 .. n : f[i] = body(f)[i]
    BY <1>7
  <2>2. QED  BY <2>1
<1> HIDE DEF body, step
<1>9. StayAlike(f, g, 0, n)
  <2>1. f[0] = g[0]
    BY <1>1, <1>5, <1>8 DEF Sifts
  <2>2. ASSUME NEW i \in 0 .. n - 1, f[i] = g[i]
        PROVE  f[i + 1] = g[i + 1]
    <3>1. i + 1 \in 1 .. n /\ i + 1 \in 0 .. n /\ i + 1 # 0 /\ (i + 1) - 1 = i
      BY <1>1
    <3>2. f[i + 1] = IF rows[i + 1] \in some THEN Append(f[(i + 1) - 1], rows[i + 1])
                     ELSE f[(i + 1) - 1]
      BY <1>8, <3>1
    <3>3. g[i + 1] = IF rows[i + 1] \in some THEN Append(g[(i + 1) - 1], rows[i + 1])
                     ELSE g[(i + 1) - 1]
      BY <1>4, <3>1
    <3>4. QED  BY <2>2, <3>1, <3>2, <3>3
  <2>3. QED  BY <2>1, <2>2 DEF StayAlike
<1>10. Alike(f, g, 0, n)
  BY <1>1, <1>9, Agreement
<1>11. f[n] = g[n]
  BY <1>1, <1>10 DEF Alike
<1>12. QED  BY <1>5, <1>7, <1>11

LEMMA SiftedType ==
    ASSUME NEW rows, NEW some, Len(rows) \in Nat
    PROVE  Sifted(rows, some) \in Seq(some)
<1>1. PICK f : Sifts(f, rows, some) /\ Sifted(rows, some) = f[Len(rows)]
  BY SiftedSolved
<1>2. Len(rows) \in 0 .. Len(rows)
  OBVIOUS
<1>3. QED  BY <1>1, <1>2 DEF Sifts

LEMMA SiftedEmpty ==
    ASSUME NEW some
    PROVE  Sifted(<<>>, some) = <<>>
<1>1. Len(<<>>) = 0 /\ Len(<<>>) \in Nat
  OBVIOUS
<1>2. PICK f : Sifts(f, <<>>, some) /\ Sifted(<<>>, some) = f[Len(<<>>)]
  BY <1>1, SiftedSolved
<1>3. QED  BY <1>1, <1>2 DEF Sifts

LEMMA SiftedAppend ==
    ASSUME NEW R, NEW s \in Seq(R), NEW x \in R, NEW some
    PROVE  Sifted(Append(s, x), some)
             = IF x \in some THEN Append(Sifted(s, some), x) ELSE Sifted(s, some)
<1> DEFINE n == Len(s)
           r == Append(s, x)
<1>1. /\ n \in Nat /\ n \in Int /\ 0 \in Int /\ Len(r) = n + 1 /\ n + 1 \in Nat
      /\ n + 1 \in 1 .. n + 1 /\ (n + 1) - 1 = n /\ n \in 0 .. n
      /\ r[n + 1] = x /\ \A i \in 1 .. n : r[i] = s[i]
  OBVIOUS
<1> HIDE DEF n, r
<1>2. PICK f : Sifts(f, s, some) /\ Sifted(s, some) = f[n]
  BY <1>1, SiftedSolved DEF n
<1>3. PICK g : Sifts(g, r, some) /\ Sifted(r, some) = g[n + 1]
  BY <1>1, SiftedSolved
<1>4. StayAlike(g, f, 0, n)
  <2>1. g[0] = f[0]
    BY <1>2, <1>3 DEF Sifts
  <2>2. ASSUME NEW i \in 0 .. n - 1, g[i] = f[i]
        PROVE  g[i + 1] = f[i + 1]
    <3>1. i + 1 \in 1 .. n /\ i + 1 \in 1 .. n + 1 /\ (i + 1) - 1 = i
      BY <1>1
    <3>2. g[i + 1] = IF r[i + 1] \in some THEN Append(g[(i + 1) - 1], r[i + 1]) ELSE g[(i + 1) - 1]
      BY <1>1, <1>3, <3>1 DEF Sifts
    <3>3. f[i + 1] = IF s[i + 1] \in some THEN Append(f[(i + 1) - 1], s[i + 1]) ELSE f[(i + 1) - 1]
      BY <1>2, <3>1 DEF Sifts, n
    <3>4. r[i + 1] = s[i + 1]
      BY <1>1, <3>1
    <3>5. QED  BY <2>2, <3>1, <3>2, <3>3, <3>4
  <2>3. QED  BY <2>1, <2>2 DEF StayAlike
<1>5. Alike(g, f, 0, n)
  BY <1>1, <1>4, Agreement
<1>6. g[n] = f[n]
  BY <1>1, <1>5 DEF Alike
<1>7. g[n + 1] = IF r[n + 1] \in some THEN Append(g[(n + 1) - 1], r[n + 1]) ELSE g[(n + 1) - 1]
  BY <1>1, <1>3 DEF Sifts
<1>8. Sifted(r, some) = IF x \in some THEN Append(Sifted(s, some), x) ELSE Sifted(s, some)
  BY <1>1, <1>2, <1>3, <1>6, <1>7
<1>9. QED  BY <1>8 DEF r

\* Sifting twice is sifting once, if the second sieve is the finer one.
LEMMA SiftedTwice ==
    ASSUME NEW s, Len(s) \in Nat, NEW A, NEW B, B \subseteq A
    PROVE  Sifted(Sifted(s, A), B) = Sifted(s, B)
<1> DEFINE n == Len(s)
<1>1. n \in Nat /\ n \in Int /\ 0 \in Int /\ n \in 0 .. n
  OBVIOUS
<1>2. PICK f : Sifts(f, s, A) /\ Sifted(s, A) = f[n]
  BY SiftedSolved
<1>3. PICK g : Sifts(g, s, B) /\ Sifted(s, B) = g[n]
  BY SiftedSolved
<1> DEFINE h == [i \in 0 .. n |-> Sifted(f[i], B)]
<1>4. \A i \in 0 .. n : h[i] = Sifted(f[i], B)
  OBVIOUS
<1> HIDE DEF n, h
<1>5. StayAlike(h, g, 0, n)
  <2>1. h[0] = g[0]
    <3>1. 0 \in 0 .. n
      BY <1>1
    <3>2. QED  BY <1>2, <1>3, <1>4, <3>1, SiftedEmpty DEF Sifts
  <2>2. ASSUME NEW i \in 0 .. n - 1, h[i] = g[i]
        PROVE  h[i + 1] = g[i + 1]
    <3>1. /\ i + 1 \in 1 .. n /\ i \in 0 .. n /\ i + 1 \in 0 .. n /\ (i + 1) - 1 = i
      BY <1>1
    <3>2. f[i + 1] = IF s[i + 1] \in A THEN Append(f[(i + 1) - 1], s[i + 1]) ELSE f[(i + 1) - 1]
      BY <1>2, <3>1 DEF Sifts, n
    <3>3. g[i + 1] = IF s[i + 1] \in B THEN Append(g[(i + 1) - 1], s[i + 1]) ELSE g[(i + 1) - 1]
      BY <1>3, <3>1 DEF Sifts, n
    <3>4. f[i] \in Seq(A)
      BY <1>2, <3>1 DEF Sifts, n
    <3>5. h[i] = Sifted(f[i], B) /\ h[i + 1] = Sifted(f[i + 1], B)
      BY <1>4, <3>1
    <3>6. CASE s[i + 1] \in A
      <4>1. \A u \in Seq(A), x \in A :
                Sifted(Append(u, x), B)
                  = IF x \in B THEN Append(Sifted(u, B), x) ELSE Sifted(u, B)
        BY SiftedAppend
      <4>2. Sifted(Append(f[i], s[i + 1]), B)
              = IF s[i + 1] \in B THEN Append(Sifted(f[i], B), s[i + 1]) ELSE Sifted(f[i], B)
        BY <3>4, <3>6, <4>1
      <4>3. QED  BY <2>2, <3>1, <3>2, <3>3, <3>5, <3>6, <4>2
    <3>7. CASE s[i + 1] \notin A
      BY <2>2, <3>1, <3>2, <3>3, <3>5, <3>7
    <3>8. QED  BY <3>6, <3>7
  <2>3. QED  BY <2>1, <2>2 DEF StayAlike
<1>6. Alike(h, g, 0, n)
  BY <1>1, <1>5, Agreement
<1>7. h[n] = g[n]
  BY <1>1, <1>6 DEF Alike
<1>8. QED  BY <1>1, <1>2, <1>3, <1>4, <1>7

-----------------------------------------------------------------------------
(* Fractions and the worst loss *)

LEMMA ProductsGrow ==
    ASSUME NEW a \in Int, NEW b \in Int, NEW c \in Nat, a <= b
    PROVE  a * c <= b * c /\ c * a <= c * b
OBVIOUS

LEMMA ProductsGrowStrictly ==
    ASSUME NEW a \in Int, NEW b \in Int, NEW c \in Nat \ {0}, a < b
    PROVE  a * c < b * c /\ c * a < c * b
OBVIOUS

Fraction == Nat \X (Nat \ {0})

\* What is not above a fraction is not above a larger one.
LEMMA BelowTransitive ==
    ASSUME NEW x \in Fraction, NEW y \in Fraction, NEW z \in Fraction,
           Below(x, y), ~Below(x, z)
    PROVE  ~Below(y, z)
<1> SUFFICES ASSUME Below(y, z)
             PROVE  FALSE
  OBVIOUS
<1> DEFINE a == x[1]
           b == x[2]
           c == y[1]
           d == y[2]
           e == z[1]
           g == z[2]
<1>1. a \in Nat /\ c \in Nat /\ e \in Nat /\ b \in Nat \ {0} /\ d \in Nat \ {0}
      /\ g \in Nat \ {0}
  BY DEF Fraction
<1>2. a * d < c * b /\ ~(a * g < e * b) /\ c * g < e * d
  BY DEF Below
<1> HIDE DEF a, b, c, d, e, g
<1>3. (a * d) * g < (c * b) * g
  BY <1>1, <1>2, ProductsGrowStrictly
<1>4. (e * b) * d <= (a * g) * d
  BY <1>1, <1>2, ProductsGrow
<1>5. (c * g) * b < (e * d) * b
  BY <1>1, <1>2, ProductsGrowStrictly
<1>6. /\ (a * d) * g = (a * g) * d /\ (c * b) * g = (c * g) * b
      /\ (e * b) * d = (e * d) * b
  BY <1>1
<1>7. QED  BY <1>1, <1>3, <1>4, <1>5, <1>6

\* A loss from a lower peak to the same value is not worse.
LEMMA LowerPeak ==
    ASSUME NEW w \in Fraction, NEW peak \in Nat \ {0}, NEW before \in Nat, NEW now \in Nat,
           before <= peak, now <= peak, ~Below(w, <<peak - now, peak>>)
    PROVE  ~Below(w, <<before - now, before>>)
<1> SUFFICES ASSUME Below(w, <<before - now, before>>)
             PROVE  FALSE
  OBVIOUS
<1> DEFINE a == w[1]
           b == w[2]
<1>1. a \in Nat /\ b \in Nat \ {0}
  BY DEF Fraction
<1>2. a * before < (before - now) * b /\ ~(a * peak < (peak - now) * b)
  BY DEF Below
<1> HIDE DEF a, b
<1>3. CASE before <= now
  <2>1. (before - now) * b <= 0 * b
    BY <1>1, <1>3, ProductsGrow
  <2>2. a * before >= 0
    BY <1>1
  <2>3. QED  BY <1>1, <1>2, <2>1, <2>2
<1>4. CASE before > now
  <2> DEFINE ab == a * before
             ap == a * peak
             bb == (before - now) * b
             pb == (peak - now) * b
  <2>1. ab \in Int /\ ap \in Int /\ bb \in Int /\ pb \in Int
        /\ before \in Nat \ {0} /\ ab < bb /\ pb <= ap
    BY <1>1, <1>2, <1>4
  <2>2. (ab * peak = ap * before) /\ bb * peak = (before * peak) * b - (now * b) * peak
        /\ pb * before = (before * peak) * b - (now * b) * before
    BY <1>1
  <2> HIDE DEF ab, ap, bb, pb
  <2>3. ab * peak < bb * peak
    BY <2>1, ProductsGrowStrictly
  <2>4. pb * before <= ap * before
    BY <2>1, ProductsGrow
  <2>5. (now * b) * before <= (now * b) * peak
    BY <1>1, ProductsGrow
  <2>6. (before * peak) * b \in Int /\ (now * b) * peak \in Int /\ (now * b) * before \in Int
        /\ ab * peak \in Int /\ pb * before \in Int
    BY <1>1, <2>1
  <2>7. QED  BY <2>2, <2>3, <2>4, <2>5, <2>6
<1>5. QED  BY <1>3, <1>4

\* pk[i] is the largest of the first i values.
Peaks(pk, v) ==
    /\ pk \in [1 .. Len(v) -> Int]
    /\ pk[1] = v[1]
    /\ \A i \in 2 .. Len(v) : pk[i] = IF v[i] <= pk[i - 1] THEN pk[i - 1] ELSE v[i]

\* w[i] is the worst of the first i falls.
Worsts(w, pk, v) ==
    /\ w \in [0 .. Len(v) -> Nat \X Int]
    /\ w[0] = <<0, 1>>
    /\ \A i \in 1 .. Len(v) :
        w[i] = IF Below(w[i - 1], <<pk[i] - v[i], pk[i]>>) THEN <<pk[i] - v[i], pk[i]>>
               ELSE w[i - 1]

PeakBody(g, v) ==
    [i \in DOMAIN v |-> IF i > 1 /\ v[i] <= g[i - 1] THEN g[i - 1] ELSE v[i]]

LEMMA PeaksSolve ==
    ASSUME NEW v \in Seq(Int), Len(v) > 0
    PROVE  \E g : Peaks(g, v) /\ g = PeakBody(g, v)
<1> DEFINE n == Len(v)
           step == [i \in 1 .. n |-> [a \in Int |-> IF i > 1 /\ v[i] <= a THEN a ELSE v[i]]]
<1>1. /\ n \in Nat /\ n \in Int /\ 0 \in Int /\ 1 \in 1 .. n /\ DOMAIN v = 1 .. n
      /\ \A i \in 1 .. n : v[i] \in Int
  OBVIOUS
<1>2. step \in [1 .. n -> [Int -> Int]]
  BY <1>1
<1>3. PICK h \in [0 .. n -> Int] : Unfolds(h, n, 0, step)
  <2> HIDE DEF step, n
  <2>1. QED  BY <1>1, <1>2, RecursionExists
<1>4. ASSUME NEW i \in 1 .. n
      PROVE  h[i] = IF i > 1 /\ v[i] <= h[i - 1] THEN h[i - 1] ELSE v[i]
  <2>1. i - 1 \in 0 .. n
    OBVIOUS
  <2>2. h[i - 1] \in Int /\ h[i] = step[i][h[i - 1]]
    BY <1>3, <2>1 DEF Unfolds
  <2>3. QED  BY <2>2
<1> HIDE DEF step
<1> DEFINE g == [i \in 1 .. n |-> h[i]]
<1>5. g \in [1 .. n -> Int] /\ \A i \in 1 .. n : g[i] = h[i]
  OBVIOUS
<1> HIDE DEF g
<1>6. g[1] = v[1]
  <2>1. h[1] = v[1]
    BY <1>1, <1>4
  <2>2. QED  BY <1>1, <1>5, <2>1
<1>7. ASSUME NEW i \in 2 .. n
      PROVE  g[i] = IF v[i] <= g[i - 1] THEN g[i - 1] ELSE v[i]
  <2>1. i \in 1 .. n /\ i - 1 \in 1 .. n /\ i > 1
    BY <1>1
  <2>2. QED  BY <1>4, <1>5, <2>1
<1>8. Peaks(g, v)
  BY <1>5, <1>6, <1>7 DEF Peaks
<1>9. ASSUME NEW i \in DOMAIN v
      PROVE  g[i] = IF i > 1 /\ v[i] <= g[i - 1] THEN g[i - 1] ELSE v[i]
  <2>1. CASE i = 1
    BY <1>6, <2>1
  <2>2. CASE i # 1
    <3>1. i \in 2 .. n /\ i > 1
      BY <1>1, <2>2
    <3>2. QED  BY <1>7, <3>1
  <2>3. QED  BY <2>1, <2>2
<1>10. PeakBody(g, v) = [i \in DOMAIN v |-> g[i]]
  BY <1>9 DEF PeakBody
<1>11. g = PeakBody(g, v)
  BY <1>1, <1>5, <1>10
<1>12. QED  BY <1>8, <1>11

\* Whatever solves the equation of the peaks is their function.
LEMMA PeaksAlone ==
    ASSUME NEW v \in Seq(Int), Len(v) > 0, NEW f, f = PeakBody(f, v)
    PROVE  Peaks(f, v)
<1>1. PICK g : Peaks(g, v) /\ g = PeakBody(g, v)
  BY PeaksSolve
<1>2. Len(v) \in Nat /\ Len(v) \in Int /\ 1 \in Int /\ DOMAIN v = 1 .. Len(v) /\ 1 \in 1 .. Len(v)
  OBVIOUS
<1>3. \A i \in 1 .. Len(v) : f[i] = IF i > 1 /\ v[i] <= f[i - 1] THEN f[i - 1] ELSE v[i]
  <2>1. \A i \in 1 .. Len(v) : f[i] = PeakBody(f, v)[i]
    OBVIOUS
  <2>2. QED  BY <1>2, <2>1 DEF PeakBody
<1>4. \A i \in 1 .. Len(v) : g[i] = IF i > 1 /\ v[i] <= g[i - 1] THEN g[i - 1] ELSE v[i]
  <2>1. \A i \in 1 .. Len(v) : g[i] = PeakBody(g, v)[i]
    BY <1>1
  <2>2. QED  BY <1>2, <2>1 DEF PeakBody
<1>5. StayAlike(f, g, 1, Len(v))
  <2>1. f[1] = g[1]
    BY <1>2, <1>3, <1>4
  <2>2. ASSUME NEW i \in 1 .. Len(v) - 1, f[i] = g[i]
        PROVE  f[i + 1] = g[i + 1]
    <3>1. i + 1 \in 1 .. Len(v) /\ i + 1 > 1 /\ (i + 1) - 1 = i
      BY <1>2
    <3>2. f[i + 1] = IF v[i + 1] <= f[i] THEN f[i] ELSE v[i + 1]
      BY <1>3, <3>1
    <3>3. g[i + 1] = IF v[i + 1] <= g[i] THEN g[i] ELSE v[i + 1]
      BY <1>4, <3>1
    <3>4. QED  BY <2>2, <3>2, <3>3
  <2>3. QED  BY <2>1, <2>2 DEF StayAlike
<1>6. Alike(f, g, 1, Len(v))
  BY <1>2, <1>5, Agreement
<1>7. f = g
  <2>1. f = [i \in 1 .. Len(v) |-> f[i]]
    BY <1>2 DEF PeakBody
  <2>2. g = [i \in 1 .. Len(v) |-> g[i]]
    BY <1>1 DEF Peaks
  <2>3. \A i \in 1 .. Len(v) : f[i] = g[i]
    BY <1>6 DEF Alike
  <2>4. QED  BY <2>1, <2>2, <2>3
<1>8. QED  BY <1>1, <1>7

\* A peak is a value that is not later, and no such value is above it.
LEMMA PeaksAreLargest ==
    ASSUME NEW v \in Seq(Int), Len(v) > 0, NEW pk, Peaks(pk, v)
    PROVE  \A i \in 1 .. Len(v) :
              /\ \A j \in 1 .. i : v[j] <= pk[i]
              /\ \E j \in 1 .. i : v[j] = pk[i]
<1> DEFINE P == {i \in 1 .. Len(v) :
                    /\ \A j \in 1 .. i : v[j] <= pk[i]
                    /\ \E j \in 1 .. i : v[j] = pk[i]}
<1>1. Len(v) \in Nat /\ Len(v) \in Int /\ 1 \in Int /\ 1 \in 1 .. Len(v)
      /\ \A i \in 1 .. Len(v) : v[i] \in Int
  OBVIOUS
<1>2. 1 \in P
  BY <1>1 DEF Peaks
<1>3. ASSUME NEW i \in 1 .. Len(v), i \in P, i < Len(v)
      PROVE  i + 1 \in P
  <2>1. /\ i + 1 \in 1 .. Len(v) /\ i + 1 \in 2 .. Len(v) /\ (i + 1) - 1 = i
        /\ \A j \in 1 .. i + 1 : j # i + 1 => j \in 1 .. i
        /\ \A j \in 1 .. i : j \in 1 .. i + 1 /\ j \in 1 .. Len(v)
        /\ i + 1 \in 1 .. i + 1
    BY <1>1, <1>3
  <2>2. pk[i] \in Int /\ v[i + 1] \in Int
        /\ pk[i + 1] = IF v[i + 1] <= pk[i] THEN pk[i] ELSE v[i + 1]
    BY <1>1, <2>1 DEF Peaks
  <2>3. CASE v[i + 1] <= pk[i]
    <3>1. \A j \in 1 .. i + 1 : v[j] <= pk[i + 1]
      BY <1>3, <2>1, <2>2, <2>3
    <3>2. \E j \in 1 .. i + 1 : v[j] = pk[i + 1]
      BY <1>3, <2>1, <2>2, <2>3
    <3>3. QED  BY <2>1, <3>1, <3>2
  <2>4. CASE ~(v[i + 1] <= pk[i])
    <3>1. ASSUME NEW j \in 1 .. i + 1
          PROVE  v[j] <= pk[i + 1]
      <4>1. CASE j = i + 1
        BY <2>2, <2>4, <4>1
      <4>2. CASE j # i + 1
        <5>1. v[j] <= pk[i] /\ v[j] \in Int
          BY <1>1, <1>3, <2>1, <4>2
        <5>2. QED  BY <2>2, <2>4, <5>1
      <4>3. QED  BY <4>1, <4>2
    <3>2. \E j \in 1 .. i + 1 : v[j] = pk[i + 1]
      BY <2>1, <2>2, <2>4
    <3>3. QED  BY <2>1, <3>1, <3>2
  <2>5. QED  BY <2>3, <2>4
<1> HIDE DEF P
<1>4. 1 .. Len(v) \subseteq P
  BY <1>1, <1>2, <1>3, IntervalInduction
<1>5. QED  BY <1>4 DEF P

LEMMA DrawdownSolved ==
    ASSUME NEW v \in Seq(Int), Len(v) > 0
    PROVE  \E pk, w : Peaks(pk, v) /\ Worsts(w, pk, v) /\ MaxDrawdown(v) = w[Len(v)]
<1> DEFINE n == Len(v)
           pk == CHOOSE g : g = PeakBody(g, v)
           fall(i) == <<pk[i] - v[i], pk[i]>>
           body(g) == [i \in 0 .. n |->
                        IF i = 0 THEN <<0, 1>>
                        ELSE IF Below(g[i - 1], fall(i)) THEN fall(i) ELSE g[i - 1]]
           step == [i \in 1 .. n |->
                        [a \in Nat \X Int |-> IF Below(a, fall(i)) THEN fall(i) ELSE a]]
           w == CHOOSE g : g = body(g)
<1>1. MaxDrawdown(v) = w[n]
  BY DEF MaxDrawdown, PeakBody
<1>2. Peaks(pk, v)
  <2>1. pk = PeakBody(pk, v)
    BY PeaksSolve
  <2> HIDE DEF pk
  <2>2. QED  BY <2>1, PeaksAlone
<1> HIDE DEF pk
<1>3. /\ n \in Nat /\ n \in Int /\ 0 \in Int /\ n \in 0 .. n /\ <<0, 1>> \in Nat \X Int
      /\ \A i \in 1 .. n : v[i] \in Int
  OBVIOUS
<1>4. ASSUME NEW i \in 1 .. n
      PROVE  fall(i) \in Nat \X Int
  <2>1. v[i] <= pk[i]
    <3>1. i \in 1 .. i
      OBVIOUS
    <3>2. QED  BY <1>2, <3>1, PeaksAreLargest
  <2>2. pk[i] \in Int
    BY <1>2 DEF Peaks
  <2>3. QED  BY <1>3, <2>1, <2>2
<1> HIDE DEF fall
<1>5. step \in [1 .. n -> [Nat \X Int -> Nat \X Int]]
  BY <1>4
<1>6. PICK g \in [0 .. n -> Nat \X Int] : Unfolds(g, n, <<0, 1>>, step)
  <2> DEFINE base == <<0, 1>>
  <2>1. base \in Nat \X Int
    BY <1>3
  <2> HIDE DEF step, n, base
  <2>2. \E g \in [0 .. n -> Nat \X Int] : Unfolds(g, n, base, step)
    BY <1>3, <1>5, <2>1, RecursionExists
  <2>3. QED  BY <2>2 DEF base
<1>7. ASSUME NEW i \in 1 .. n
      PROVE  g[i] = IF Below(g[i - 1], fall(i)) THEN fall(i) ELSE g[i - 1]
  <2>1. i - 1 \in 0 .. n
    OBVIOUS
  <2>2. g[i - 1] \in Nat \X Int /\ g[i] = step[i][g[i - 1]]
    BY <1>6, <2>1 DEF Unfolds
  <2>3. QED  BY <2>2
<1> HIDE DEF step
<1>8. g[0] = <<0, 1>>
  BY <1>6 DEF Unfolds
<1>9. g = body(g)
  <2>1. ASSUME NEW i \in 0 .. n
        PROVE  g[i] = IF i = 0 THEN <<0, 1>>
                      ELSE IF Below(g[i - 1], fall(i)) THEN fall(i) ELSE g[i - 1]
    <3>1. CASE i = 0
      BY <1>8, <3>1
    <3>2. CASE i # 0
      <4>1. i \in 1 .. n
        BY <3>2
      <4>2. QED  BY <1>7, <3>2, <4>1
    <3>3. QED  BY <3>1, <3>2
  <2>2. body(g) = [i \in 0 .. n |-> g[i]]
    BY <2>1
  <2>3. QED  BY <2>2
<1>10. w = body(w)
  BY <1>9
<1> HIDE DEF w
<1>11. \A i \in 0 .. n :
         w[i] = IF i = 0 THEN <<0, 1>>
                ELSE IF Below(w[i - 1], fall(i)) THEN fall(i) ELSE w[i - 1]
  <2>1. \A i \in 0 .. n : w[i] = body(w)[i]
    BY <1>10
  <2>2. QED  BY <2>1
<1>12. w = [i \in 0 .. n |-> w[i]]
  BY <1>10
<1> HIDE DEF body
<1>13. StayAlike(w, g, 0, n)
  <2>1. w[0] = g[0]
    BY <1>3, <1>8, <1>11
  <2>2. ASSUME NEW i \in 0 .. n - 1, w[i] = g[i]
        PROVE  w[i + 1] = g[i + 1]
    <3>1. i + 1 \in 1 .. n /\ i + 1 \in 0 .. n /\ i + 1 # 0 /\ (i + 1) - 1 = i
      BY <1>3
    <3>2. w[i + 1] = IF Below(w[(i + 1) - 1], fall(i + 1)) THEN fall(i + 1) ELSE w[(i + 1) - 1]
      BY <1>11, <3>1
    <3>3. g[i + 1] = IF Below(g[(i + 1) - 1], fall(i + 1)) THEN fall(i + 1) ELSE g[(i + 1) - 1]
      BY <1>7, <3>1
    <3>4. QED  BY <2>2, <3>1, <3>2, <3>3
  <2>3. QED  BY <2>1, <2>2 DEF StayAlike
<1>14. Alike(w, g, 0, n)
  BY <1>3, <1>13, Agreement
<1>15. w \in [0 .. n -> Nat \X Int]
  <2>1. \A i \in 0 .. n : w[i] \in Nat \X Int
    BY <1>6, <1>14 DEF Alike
  <2>2. QED  BY <1>12, <2>1
<1>16. Worsts(w, pk, v)
  <2>1. \A i \in 1 .. n : i \in 0 .. n /\ i # 0
    OBVIOUS
  <2>2. w[0] = <<0, 1>>
    BY <1>3, <1>11
  <2>3. \A i \in 1 .. n :
          w[i] = IF Below(w[i - 1], fall(i)) THEN fall(i) ELSE w[i - 1]
    BY <1>11, <2>1
  <2>4. QED  BY <1>15, <2>2, <2>3 DEF Worsts, fall
<1>17. QED  BY <1>1, <1>2, <1>16

\* The drawdown is the loss between a value above zero and a later one, and no
\* such loss is worse if the later value is not below zero.
IsWorstLoss(v, worst) ==
    LET later == {p \in (DOMAIN v) \X (DOMAIN v) : p[1] <= p[2] /\ v[p[1]] > 0}
        losses == {<<v[p[1]] - v[p[2]], v[p[1]]>> : p \in later}
    IN  /\ \A loss \in losses : loss[1] <= loss[2] => ~Below(worst, loss)
        /\ \E loss \in losses : ~Below(loss, worst)

LEMMA DrawdownOfValues ==
    ASSUME NEW v \in Seq(Int), Len(v) > 0, v[1] > 0
    PROVE  IsWorstLoss(v, MaxDrawdown(v)) /\ MaxDrawdown(v) \in Nat \X Nat
<1>1. PICK pk, w : Peaks(pk, v) /\ Worsts(w, pk, v) /\ MaxDrawdown(v) = w[Len(v)]
  BY DrawdownSolved
<1> DEFINE n == Len(v)
           fall(i) == <<pk[i] - v[i], pk[i]>>
           P == {i \in 0 .. n : /\ w[i] \in Fraction
                                /\ \A j \in 1 .. i : ~Below(w[i], fall(j))
                                /\ w[i] = <<0, 1>> \/ \E j \in 1 .. i : w[i] = fall(j)}
<1>2. /\ n \in Nat /\ n \in Int /\ 0 \in Int /\ n \in 0 .. n /\ n \in 1 .. n /\ 1 \in 1 .. n
      /\ DOMAIN v = 1 .. n /\ \A i \in 1 .. n : v[i] \in Int
  OBVIOUS
<1>3. \A i \in 1 .. n : pk[i] \in Nat \ {0} /\ \A j \in 1 .. i : v[j] <= pk[i]
  <2>1. ASSUME NEW i \in 1 .. n
        PROVE  pk[i] \in Nat \ {0}
    <3>1. pk[i] \in Int /\ 1 \in 1 .. i
      BY <1>1 DEF Peaks
    <3>2. v[1] <= pk[i]
      BY <1>1, <3>1, PeaksAreLargest
    <3>3. QED  BY <1>2, <3>1, <3>2
  <2>2. QED  BY <1>1, <2>1, PeaksAreLargest
<1>4. ASSUME NEW i \in 1 .. n
      PROVE  fall(i) \in Fraction /\ ~Below(fall(i), fall(i))
  <2>1. i \in 1 .. i
    OBVIOUS
  <2>2. pk[i] \in Nat \ {0} /\ v[i] <= pk[i] /\ v[i] \in Int
    BY <1>2, <1>3, <2>1
  <2>3. pk[i] - v[i] \in Nat /\ (pk[i] - v[i]) * pk[i] \in Int
    BY <2>2
  <2>4. QED  BY <2>2, <2>3 DEF Fraction, Below
<1>5. \A i \in 1 .. n : w[i] = IF Below(w[i - 1], fall(i)) THEN fall(i) ELSE w[i - 1]
  BY <1>1 DEF Worsts
<1> HIDE DEF fall
<1>6. 0 \in P
  BY <1>1, <1>2 DEF Worsts, Fraction
<1>7. ASSUME NEW i \in 0 .. n, i \in P, i < n
      PROVE  i + 1 \in P
  <2>1. /\ i + 1 \in 1 .. n /\ (i + 1) - 1 = i /\ i + 1 \in 0 .. n /\ i + 1 \in 1 .. i + 1
        /\ \A j \in 1 .. i + 1 : j \in 1 .. n /\ (j # i + 1 => j \in 1 .. i)
        /\ \A j \in 1 .. i : j \in 1 .. i + 1
    BY <1>2, <1>7
  <2>2. w[i + 1] = IF Below(w[i], fall(i + 1)) THEN fall(i + 1) ELSE w[i]
    BY <1>5, <2>1
  <2>3. fall(i + 1) \in Fraction /\ ~Below(fall(i + 1), fall(i + 1))
    BY <1>4, <2>1
  <2>4. CASE Below(w[i], fall(i + 1))
    <3>1. w[i + 1] = fall(i + 1)
      BY <2>2, <2>4
    <3>2. ASSUME NEW j \in 1 .. i + 1
          PROVE  ~Below(fall(i + 1), fall(j))
      <4>1. CASE j = i + 1
        BY <2>3, <4>1
      <4>2. CASE j # i + 1
        <5>1. fall(j) \in Fraction /\ ~Below(w[i], fall(j)) /\ w[i] \in Fraction
          BY <1>4, <1>7, <2>1, <4>2
        <5>2. QED  BY <2>3, <2>4, <5>1, BelowTransitive
      <4>3. QED  BY <4>1, <4>2
    <3>3. QED  BY <2>1, <2>3, <3>1, <3>2
  <2>5. CASE ~Below(w[i], fall(i + 1))
    <3>1. w[i + 1] = w[i]
      BY <2>2, <2>5
    <3>2. ASSUME NEW j \in 1 .. i + 1
          PROVE  ~Below(w[i], fall(j))
      BY <1>7, <2>1, <2>5
    <3>3. w[i] = <<0, 1>> \/ \E j \in 1 .. i + 1 : w[i] = fall(j)
      BY <1>7, <2>1
    <3>4. QED  BY <1>7, <2>1, <3>1, <3>2, <3>3
  <2>6. QED  BY <2>4, <2>5
<1> HIDE DEF P
<1>8. 0 .. n \subseteq P
  BY <1>2, <1>6, <1>7, BoundedInduction
<1> DEFINE worst == w[n]
<1>9. /\ worst \in Fraction
      /\ \A j \in 1 .. n : ~Below(worst, fall(j))
      /\ worst = <<0, 1>> \/ \E j \in 1 .. n : worst = fall(j)
  BY <1>2, <1>8 DEF P
<1>10. MaxDrawdown(v) = worst
  BY <1>1
<1> HIDE DEF worst
<1>11. ASSUME NEW i \in 1 .. n, NEW j \in 1 .. n, i <= j, v[i] > 0, v[i] - v[j] <= v[i]
       PROVE  ~Below(worst, <<v[i] - v[j], v[i]>>)
  <2>1. i \in 1 .. j /\ j \in 1 .. j
    BY <1>2, <1>11
  <2>2. /\ v[i] <= pk[j] /\ v[j] <= pk[j] /\ pk[j] \in Nat \ {0}
        /\ v[i] \in Int /\ v[j] \in Int
    BY <1>2, <1>3, <2>1
  <2>3. ~Below(worst, <<pk[j] - v[j], pk[j]>>)
    BY <1>9, <2>1 DEF fall
  <2> DEFINE before == v[i]
             now == v[j]
             peak == pk[j]
  <2>4. before \in Int /\ now \in Int /\ before > 0 /\ before - now <= before
        /\ before <= peak /\ now <= peak /\ peak \in Nat \ {0}
        /\ ~Below(worst, <<peak - now, peak>>)
    BY <1>11, <2>2, <2>3
  <2> HIDE DEF before, now, peak
  <2>5. before \in Nat /\ now \in Nat
    BY <2>4
  <2>6. ~Below(worst, <<before - now, before>>)
    BY <1>9, <2>4, <2>5, LowerPeak
  <2>7. QED  BY <2>6 DEF before, now
<1>12. \E i, j \in 1 .. n :
         /\ i <= j /\ v[i] > 0 /\ ~Below(<<v[i] - v[j], v[i]>>, worst)
  <2>1. CASE worst = <<0, 1>>
    <3>1. 1 \in 1 .. n /\ 1 <= 1 /\ v[1] - v[1] = 0 /\ v[1] \in Int
      BY <1>2
    <3>2. ~Below(<<0, v[1]>>, worst)
      BY <2>1, <3>1 DEF Below
    <3>3. ~Below(<<v[1] - v[1], v[1]>>, worst)
      BY <3>1, <3>2
    <3>4. QED  BY <3>1, <3>3
  <2>2. CASE \E j \in 1 .. n : worst = fall(j)
    <3>1. PICK j \in 1 .. n : worst = fall(j)
      BY <2>2
    <3>2. PICK i \in 1 .. j : v[i] = pk[j]
      BY <1>1, PeaksAreLargest
    <3>3. i \in 1 .. n /\ i <= j /\ v[i] > 0
      BY <1>2, <1>3, <3>2
    <3>4. worst = <<v[i] - v[j], v[i]>>
      BY <3>1, <3>2 DEF fall
    <3>5. ~Below(worst, worst)
      BY <1>4, <3>1
    <3>6. QED  BY <3>3, <3>4, <3>5
  <2>3. QED  BY <1>9, <2>1, <2>2
<1> DEFINE later == {p \in (DOMAIN v) \X (DOMAIN v) : p[1] <= p[2] /\ v[p[1]] > 0}
           losses == {<<v[p[1]] - v[p[2]], v[p[1]]>> : p \in later}
<1>13. ASSUME NEW loss
       PROVE  loss \in losses <=>
                \E i, j \in 1 .. n : i <= j /\ v[i] > 0 /\ loss = <<v[i] - v[j], v[i]>>
  <2>1. \A p : p \in later <=>
            p \in (1 .. n) \X (1 .. n) /\ p[1] <= p[2] /\ v[p[1]] > 0
    BY <1>2
  <2>2. loss \in losses <=> \E p \in later : loss = <<v[p[1]] - v[p[2]], v[p[1]]>>
    OBVIOUS
  <2> HIDE DEF later, losses, n
  <2>3. ASSUME NEW p \in later, loss = <<v[p[1]] - v[p[2]], v[p[1]]>>
        PROVE  \E i, j \in 1 .. n : i <= j /\ v[i] > 0 /\ loss = <<v[i] - v[j], v[i]>>
    <3>1. p[1] \in 1 .. n /\ p[2] \in 1 .. n /\ p[1] <= p[2] /\ v[p[1]] > 0
      BY <2>1
    <3>2. QED  BY <2>3, <3>1
  <2>4. ASSUME NEW i \in 1 .. n, NEW j \in 1 .. n, i <= j, v[i] > 0,
               loss = <<v[i] - v[j], v[i]>>
        PROVE  \E p \in later : loss = <<v[p[1]] - v[p[2]], v[p[1]]>>
    <3>1. <<i, j>> \in later
      BY <2>1, <2>4
    <3>2. QED  BY <2>4, <3>1
  <2>5. QED  BY <2>2, <2>3, <2>4
<1> HIDE DEF later, losses
<1>14. ASSUME NEW loss \in losses, loss[1] <= loss[2]
       PROVE  ~Below(worst, loss)
  <2>1. PICK i \in 1 .. n, j \in 1 .. n : i <= j /\ v[i] > 0 /\ loss = <<v[i] - v[j], v[i]>>
    BY <1>13
  <2>2. v[i] - v[j] <= v[i]
    BY <1>14, <2>1
  <2>3. QED  BY <1>11, <2>1, <2>2
<1>15. \E loss \in losses : ~Below(loss, worst)
  <2>1. PICK i \in 1 .. n, j \in 1 .. n :
          i <= j /\ v[i] > 0 /\ ~Below(<<v[i] - v[j], v[i]>>, worst)
    BY <1>12
  <2>2. <<v[i] - v[j], v[i]>> \in losses
    BY <1>13, <2>1
  <2>3. QED  BY <2>1, <2>2
<1>16. IsWorstLoss(v, worst)
  BY <1>14, <1>15 DEF IsWorstLoss, losses, later
<1>17. worst \in Nat \X Nat
  BY <1>9 DEF Fraction
<1>18. QED  BY <1>10, <1>16, <1>17

-----------------------------------------------------------------------------
(* The portfolio *)

Trade == [signal : {"BUY", "SELL"}, value : Int]

Book == [cash : Int, shares : Nat, prev : {"HOLD", "BUY", "SELL"},
         trades : Seq(Trade), values : Seq(Int)]

\* What a turn of the loop may make of p.
Kept(p, q) == q.cash = p.cash /\ q.shares = p.shares /\ q.trades = p.trades

Bought(p, q, v) ==
    /\ p.shares = 0 /\ q.shares > 0 /\ q.cash = p.cash - v
    /\ q.trades = Append(p.trades, [signal |-> "BUY", value |-> v])

Sold(p, q, v) ==
    /\ p.shares > 0 /\ q.shares = 0 /\ q.cash = p.cash + v
    /\ q.trades = Append(p.trades, [signal |-> "SELL", value |-> v])

LEMMA Products ==
    /\ \A a, b \in Int : a * b \in Int
    /\ \A a \in Int : 0 * a = 0
OBVIOUS

LEMMA Quotients ==
    ASSUME NEW a \in Nat, NEW b \in Nat \ {0}
    PROVE  a \div b \in Int
OBVIOUS

\* What is bought is a number of shares, whatever the signs of cash and price.
LEMMA PurchaseType ==
    ASSUME NEW cash \in Int, NEW price \in Int
    PROVE  Purchase(cash, price) \in Nat
<1> DEFINE n == Affordable(cash, price)
<1>1. CASE price = 0
  <2>1. n = AtNoPrice \/ n = 0
    BY <1>1 DEF Affordable
  <2>2. n \in Int
    BY <2>1, Windows
  <2> HIDE DEF n
  <2>3. QED  BY <2>2 DEF Purchase, n
<1>2. CASE price # 0
  <2>1. n \in Int
    <3>1. CASE cash > 0 /\ price > 0
      <4>1. n = cash \div price /\ cash \in Nat /\ price \in Nat \ {0}
        BY <1>2, <3>1 DEF Affordable
      <4> HIDE DEF n
      <4>2. QED  BY <4>1, Quotients
    <3>2. CASE cash < 0 /\ price < 0
      <4>1. n = (-cash) \div (-price) /\ -cash \in Nat /\ -price \in Nat \ {0}
        BY <1>2, <3>2 DEF Affordable
      <4> HIDE DEF n
      <4>2. QED  BY <4>1, Quotients
    <3>3. CASE ~(cash > 0 /\ price > 0) /\ ~(cash < 0 /\ price < 0)
      BY <1>2, <3>3 DEF Affordable
    <3>4. QED  BY <3>1, <3>2, <3>3
  <2> HIDE DEF n
  <2>2. QED  BY <2>1 DEF Purchase, n
<1>3. QED  BY <1>1, <1>2

LEMMA TurnCases ==
    ASSUME NEW p \in Book, NEW price \in Int, NEW signal \in {"HOLD", "BUY", "SELL"}
    PROVE  LET q == Turn(p, price, signal)
           IN  /\ q \in Book
               /\ q.values = Append(p.values, q.cash + q.shares * price)
               /\ signal = "HOLD" => Kept(p, q)
               /\ Kept(p, q) \/ \E v \in Int : Bought(p, q, v) \/ Sold(p, q, v)
<1> DEFINE new == signal # p.prev
           affordable == Purchase(p.cash, price)
           bought == IF new /\ signal = "BUY" /\ p.shares = 0 THEN affordable ELSE 0
           sold == IF new /\ signal = "SELL" THEN p.shares ELSE 0
           cash == p.cash + (sold - bought) * price
           shares == p.shares + bought - sold
           trades == IF bought + sold = 0 THEN p.trades
                     ELSE Append(p.trades, [signal |-> signal, value |-> (bought + sold) * price])
           q == Turn(p, price, signal)
<1>1. q = [cash |-> cash, shares |-> shares, prev |-> signal, trades |-> trades,
           values |-> Append(p.values, cash + shares * price)]
  BY DEF Turn
<1>2. p.cash \in Int /\ p.shares \in Nat /\ p.trades \in Seq(Trade) /\ p.values \in Seq(Int)
  BY DEF Book
<1>3. affordable \in Nat
  BY <1>2, PurchaseType
<1> HIDE DEF affordable
<1>4. CASE bought # 0
  <2>1. signal = "BUY" /\ p.shares = 0 /\ affordable > 0 /\ bought = affordable /\ sold = 0
    BY <1>3, <1>4
  <2> DEFINE v == affordable * price
  <2>2. v \in Int
    BY <1>3, Products
  <2> HIDE DEF bought, sold
  <2>3. cash = p.cash - v
    <3>1. (0 - affordable) * price = 0 - v
      BY <1>3, SMT
    <3> HIDE DEF v
    <3>2. p.cash + (0 - v) = p.cash - v
      BY <1>2, <2>2
    <3>3. QED  BY <2>1, <3>1, <3>2
  <2>4. shares = affordable
    BY <1>2, <1>3, <2>1
  <2>5. trades = Append(p.trades, [signal |-> "BUY", value |-> v])
    <3>1. bought + sold = affordable /\ bought + sold # 0
      BY <1>3, <1>4, <2>1
    <3>2. QED  BY <2>1, <3>1
  <2> HIDE DEF cash, shares, trades, q, v
  <2>6. Bought(p, q, v)
    BY <1>1, <2>1, <2>3, <2>4, <2>5 DEF Bought
  <2>7. cash \in Int /\ shares \in Nat /\ shares * price \in Int
    BY <1>2, <1>3, <2>2, <2>3, <2>4, Products
  <2>8. trades \in Seq(Trade)
    BY <1>2, <2>2, <2>5 DEF Trade
  <2>9. Append(p.values, cash + shares * price) \in Seq(Int)
    <3> DEFINE worth == shares * price
    <3>1. worth \in Int
      BY <2>7
    <3> HIDE DEF worth
    <3>2. cash + worth \in Int
      BY <2>7, <3>1
    <3>3. QED  BY <1>2, <3>2 DEF worth
  <2>10. q \in Book
    BY <1>1, <2>1, <2>7, <2>8, <2>9 DEF Book
  <2>11. q.values = Append(p.values, q.cash + q.shares * price)
    BY <1>1
  <2>12. QED  BY <2>1, <2>2, <2>6, <2>10, <2>11 DEF q
<1>5. CASE bought = 0 /\ sold # 0
  <2>1. signal = "SELL" /\ sold = p.shares /\ p.shares > 0
    BY <1>2, <1>5
  <2> DEFINE v == p.shares * price
  <2>2. v \in Int
    BY <1>2, Products
  <2> HIDE DEF bought, sold
  <2>3. cash = p.cash + v
    <3>1. sold - bought = p.shares
      BY <1>2, <1>5, <2>1
    <3>2. QED  BY <3>1
  <2>4. shares = 0
    BY <1>2, <1>5, <2>1
  <2>5. trades = Append(p.trades, [signal |-> "SELL", value |-> v])
    <3>1. bought + sold = p.shares /\ bought + sold # 0
      BY <1>2, <1>5, <2>1
    <3>2. QED  BY <2>1, <3>1
  <2> HIDE DEF cash, shares, trades, q, v
  <2>6. Sold(p, q, v)
    BY <1>1, <2>1, <2>3, <2>4, <2>5 DEF Sold
  <2>7. cash \in Int /\ shares \in Nat
    BY <1>2, <2>2, <2>3, <2>4
  <2>8. trades \in Seq(Trade)
    BY <1>2, <2>2, <2>5 DEF Trade
  <2>9. Append(p.values, cash + shares * price) \in Seq(Int)
    <3> DEFINE worth == shares * price
    <3>1. worth \in Int
      BY <2>7, Products
    <3> HIDE DEF worth
    <3>2. cash + worth \in Int
      BY <2>7, <3>1
    <3>3. QED  BY <1>2, <3>2 DEF worth
  <2>10. q \in Book
    BY <1>1, <2>1, <2>7, <2>8, <2>9 DEF Book
  <2>11. q.values = Append(p.values, q.cash + q.shares * price)
    BY <1>1
  <2>12. QED  BY <2>1, <2>2, <2>6, <2>10, <2>11 DEF q
<1>6. CASE bought = 0 /\ sold = 0
  <2> HIDE DEF bought, sold
  <2>1. cash = p.cash /\ shares = p.shares /\ trades = p.trades
    <3>1. (sold - bought) * price = 0
      BY <1>6, Products
    <3>2. QED  BY <1>2, <1>6, <3>1
  <2> HIDE DEF cash, shares, trades, q
  <2>2. cash \in Int /\ shares \in Nat
    BY <1>2, <2>1
  <2>3. Append(p.values, cash + shares * price) \in Seq(Int)
    <3> DEFINE worth == shares * price
    <3>1. worth \in Int
      BY <2>2, Products
    <3> HIDE DEF worth
    <3>2. cash + worth \in Int
      BY <2>2, <3>1
    <3>3. QED  BY <1>2, <3>2 DEF worth
  <2>4. q \in Book
    BY <1>1, <1>2, <2>1, <2>2, <2>3 DEF Book
  <2>5. q.values = Append(p.values, q.cash + q.shares * price) /\ Kept(p, q)
    BY <1>1, <2>1 DEF Kept
  <2>6. QED  BY <2>4, <2>5 DEF q
<1>7. QED  BY <1>4, <1>5, <1>6

\* f[i] is the portfolio after i bars.
Runs(f, prices) ==
    /\ f \in [0 .. Len(prices) -> Book]
    /\ f[0] = Start
    /\ \A i \in 1 .. Len(prices) : f[i] = Turn(f[i - 1], prices[i], Signals(prices)[i])

LEMMA SignalType ==
    ASSUME NEW prices \in Seq(Int), NEW i \in 1 .. Len(prices)
    PROVE  Signals(prices)[i] \in {"HOLD", "BUY", "SELL"}
BY Crossings

LEMMA StartIsBook == Start \in Book
<1>1. InitialCapital \in Nat
  BY Windows
<1>2. QED  BY <1>1 DEF Start, Book

LEMMA PortfolioSolved ==
    ASSUME NEW prices \in Seq(Int)
    PROVE  \E f : Runs(f, prices) /\ Portfolio(prices) = f[Len(prices)]
<1> DEFINE n == Len(prices)
           signals == Signals(prices)
           body(g) == [i \in 0 .. n |->
                        IF i = 0 THEN Start ELSE Turn(g[i - 1], prices[i], signals[i])]
           step == [i \in 1 .. n |-> [p \in Book |-> Turn(p, prices[i], signals[i])]]
           f == CHOOSE g : g = body(g)
<1>1. Portfolio(prices) = f[n]
  BY DEF Portfolio
<1>2. /\ n \in Nat /\ n \in Int /\ 0 \in Int /\ n \in 0 .. n
      /\ \A i \in 1 .. n : prices[i] \in Int /\ signals[i] \in {"HOLD", "BUY", "SELL"}
  BY SignalType
<1> HIDE DEF signals
<1>3. \A i \in 1 .. n : \A p \in Book : Turn(p, prices[i], signals[i]) \in Book
  BY <1>2, TurnCases
<1>4. step \in [1 .. n -> [Book -> Book]]
  BY <1>3
<1>5. PICK g \in [0 .. n -> Book] : Unfolds(g, n, Start, step)
  <2> HIDE DEF step, n
  <2>1. QED  BY <1>2, <1>4, StartIsBook, RecursionExists
<1>6. ASSUME NEW i \in 1 .. n
      PROVE  g[i] = Turn(g[i - 1], prices[i], signals[i])
  <2>1. i - 1 \in 0 .. n
    OBVIOUS
  <2>2. g[i - 1] \in Book /\ g[i] = step[i][g[i - 1]]
    BY <1>5, <2>1 DEF Unfolds
  <2>3. QED  BY <2>2
<1> HIDE DEF step
<1>7. g[0] = Start
  BY <1>5 DEF Unfolds
<1>8. g = body(g)
  <2>1. ASSUME NEW i \in 0 .. n
        PROVE  g[i] = IF i = 0 THEN Start ELSE Turn(g[i - 1], prices[i], signals[i])
    <3>1. CASE i = 0
      BY <1>7, <3>1
    <3>2. CASE i # 0
      <4>1. i \in 1 .. n
        BY <3>2
      <4>2. QED  BY <1>6, <3>2, <4>1
    <3>3. QED  BY <3>1, <3>2
  <2>2. body(g) = [i \in 0 .. n |-> g[i]]
    BY <2>1
  <2>3. QED  BY <2>2
<1>9. f = body(f)
  BY <1>8
<1> HIDE DEF f
<1>10. \A i \in 0 .. n :
         f[i] = IF i = 0 THEN Start ELSE Turn(f[i - 1], prices[i], signals[i])
  <2>1. \A i \in 0 .. n : f[i] = body(f)[i]
    BY <1>9
  <2>2. QED  BY <2>1
<1>11. f = [i \in 0 .. n |-> f[i]]
  BY <1>9
<1> HIDE DEF body
<1>12. StayAlike(f, g, 0, n)
  <2>1. f[0] = g[0]
    BY <1>2, <1>7, <1>10
  <2>2. ASSUME NEW i \in 0 .. n - 1, f[i] = g[i]
        PROVE  f[i + 1] = g[i + 1]
    <3>1. i + 1 \in 1 .. n /\ i + 1 \in 0 .. n /\ i + 1 # 0 /\ (i + 1) - 1 = i
      BY <1>2
    <3>2. f[i + 1] = Turn(f[(i + 1) - 1], prices[i + 1], signals[i + 1])
      BY <1>10, <3>1
    <3>3. g[i + 1] = Turn(g[(i + 1) - 1], prices[i + 1], signals[i + 1])
      BY <1>6, <3>1
    <3>4. QED  BY <2>2, <3>1, <3>2, <3>3
  <2>3. QED  BY <2>1, <2>2 DEF StayAlike
<1>13. Alike(f, g, 0, n)
  BY <1>2, <1>12, Agreement
<1>14. Runs(f, prices)
  <2>1. \A i \in 0 .. n : f[i] \in Book
    BY <1>5, <1>13 DEF Alike
  <2>2. f \in [0 .. n -> Book]
    BY <1>11, <2>1
  <2>3. f[0] = Start /\ \A i \in 1 .. n : i \in 0 .. n /\ i # 0
    BY <1>2, <1>10
  <2>4. \A i \in 1 .. n : f[i] = Turn(f[i - 1], prices[i], signals[i])
    BY <1>10, <2>3
  <2>5. QED  BY <2>2, <2>3, <2>4 DEF Runs, signals
<1>15. QED  BY <1>1, <1>14

\* What the sales of the trades have earned, and a book that says so.
Profits(t) == [k \in 1 .. Len(t) \div 2 |-> t[2 * k].value - t[2 * k - 1].value]

Earned(t) == SumTo(Profits(t), Len(t) \div 2)

Alternates(t) == \A i \in DOMAIN t : t[i].signal = IF i % 2 = 1 THEN "BUY" ELSE "SELL"

Outlay(t) == IF Len(t) % 2 = 0 THEN 0 ELSE t[Len(t)].value

Balanced(p) ==
    /\ Alternates(p.trades)
    /\ p.shares = 0 <=> Len(p.trades) % 2 = 0
    /\ p.cash = InitialCapital + Earned(p.trades) - Outlay(p.trades)

LEMMA SumSame ==
    ASSUME NEW numbers, NEW others, NEW n \in Nat,
           \A k \in 1 .. n : numbers[k] \in Int /\ others[k] = numbers[k]
    PROVE  SumTo(others, n) = SumTo(numbers, n)
<1> DEFINE f == [i \in 0 .. n |-> SumTo(others, i)]
           g == [i \in 0 .. n |-> SumTo(numbers, i)]
<1>1. /\ SumTo(numbers, 0) = 0
      /\ \A i \in 1 .. n : SumTo(numbers, i) = SumTo(numbers, i - 1) + numbers[i]
  BY Sums
<1>2. /\ SumTo(others, 0) = 0
      /\ \A i \in 1 .. n : SumTo(others, i) = SumTo(others, i - 1) + others[i]
  BY Sums
<1>3. /\ n \in Int /\ 0 \in Int /\ 0 \in 0 .. n /\ n \in 0 .. n
      /\ \A i \in 0 .. n : f[i] = SumTo(others, i) /\ g[i] = SumTo(numbers, i)
  OBVIOUS
<1> HIDE DEF f, g
<1>4. ASSUME NEW i \in 0 .. n - 1, f[i] = g[i]
      PROVE  f[i + 1] = g[i + 1]
  <2>1. i + 1 \in 1 .. n /\ i + 1 \in 0 .. n /\ i \in 0 .. n /\ (i + 1) - 1 = i
    OBVIOUS
  <2>2. /\ SumTo(numbers, i + 1) = SumTo(numbers, i) + numbers[i + 1]
        /\ SumTo(others, i + 1) = SumTo(others, i) + others[i + 1]
        /\ others[i + 1] = numbers[i + 1]
    BY <1>1, <1>2, <2>1
  <2>3. QED  BY <1>3, <1>4, <2>1, <2>2
<1>5. StayAlike(f, g, 0, n)
  BY <1>1, <1>2, <1>3, <1>4 DEF StayAlike
<1>6. Alike(f, g, 0, n)
  BY <1>3, <1>5, Agreement
<1>7. QED  BY <1>3, <1>6 DEF Alike

LEMMA ProfitType ==
    ASSUME NEW t \in Seq(Trade)
    PROVE  /\ Len(t) \in Nat /\ Len(t) \div 2 \in Nat
           /\ \A i \in 1 .. Len(t) : t[i].value \in Int
           /\ \A k \in 1 .. Len(t) \div 2 :
                /\ 2 * k \in 1 .. Len(t) /\ 2 * k - 1 \in 1 .. Len(t)
                /\ Profits(t)[k] = t[2 * k].value - t[2 * k - 1].value
                /\ Profits(t)[k] \in Int
<1>1. Len(t) \in Nat /\ Len(t) \div 2 \in Nat
  OBVIOUS
<1>2. \A i \in 1 .. Len(t) : t[i].value \in Int
  <2>1. \A i \in 1 .. Len(t) : t[i] \in Trade
    OBVIOUS
  <2>2. QED  BY <2>1 DEF Trade
<1>3. ASSUME NEW k \in 1 .. Len(t) \div 2
      PROVE  /\ 2 * k \in 1 .. Len(t) /\ 2 * k - 1 \in 1 .. Len(t)
             /\ Profits(t)[k] = t[2 * k].value - t[2 * k - 1].value
             /\ Profits(t)[k] \in Int
  <2>1. 2 * k \in 1 .. Len(t) /\ 2 * k - 1 \in 1 .. Len(t)
    BY <1>1
  <2>2. Profits(t)[k] = t[2 * k].value - t[2 * k - 1].value
    BY DEF Profits
  <2>3. t[2 * k].value \in Int /\ t[2 * k - 1].value \in Int
    BY <1>2, <2>1
  <2>4. QED  BY <2>1, <2>2, <2>3
<1>4. QED  BY <1>1, <1>2, <1>3

LEMMA EarnedType ==
    ASSUME NEW t \in Seq(Trade)
    PROVE  Earned(t) \in Int /\ Outlay(t) \in Int
<1>1. Len(t) \in Nat /\ Len(t) \div 2 \in Nat /\ Len(t) \div 2 \in 0 .. Len(t) \div 2
      /\ \A k \in 1 .. Len(t) \div 2 : Profits(t)[k] \in Int
  BY ProfitType
<1>2. Earned(t) \in Int
  BY <1>1, Sums DEF Earned
<1>3. Outlay(t) \in Int
  <2>1. Len(t) % 2 # 0 => Len(t) \in 1 .. Len(t)
    BY <1>1
  <2>2. QED  BY <2>1, ProfitType DEF Outlay
<1>4. QED  BY <1>2, <1>3

\* The profits of longer trades begin as those of the shorter ones.
LEMMA EarnedBefore ==
    ASSUME NEW t \in Seq(Trade), NEW x \in Trade
    PROVE  SumTo(Profits(Append(t, x)), Len(t) \div 2) = Earned(t)
<1> DEFINE u == Append(t, x)
           m == Len(t) \div 2
<1>1. u \in Seq(Trade) /\ Len(u) = Len(t) + 1 /\ \A i \in 1 .. Len(t) : u[i] = t[i]
  OBVIOUS
<1>2. Len(t) \in Nat /\ m \in Nat /\ m <= Len(u) \div 2
  BY <1>1
<1>3. ASSUME NEW k \in 1 .. m
      PROVE  Profits(t)[k] \in Int /\ Profits(u)[k] = Profits(t)[k]
  <2>1. k \in 1 .. Len(t) \div 2 /\ k \in 1 .. Len(u) \div 2
    BY <1>2
  <2>2. /\ 2 * k \in 1 .. Len(t) /\ 2 * k - 1 \in 1 .. Len(t)
        /\ Profits(t)[k] = t[2 * k].value - t[2 * k - 1].value
        /\ Profits(t)[k] \in Int
    BY <2>1, ProfitType
  <2> HIDE DEF u
  <2>3. Profits(u)[k] = u[2 * k].value - u[2 * k - 1].value
    BY <1>1, <2>1, ProfitType
  <2>4. QED  BY <1>1, <2>2, <2>3
<1> HIDE DEF u, m
<1>4. SumTo(Profits(u), m) = SumTo(Profits(t), m)
  BY <1>2, <1>3, SumSame
<1>5. QED  BY <1>4 DEF Earned, u, m

LEMMA EarnedByPurchase ==
    ASSUME NEW t \in Seq(Trade), NEW x \in Trade, Len(t) % 2 = 0
    PROVE  Earned(Append(t, x)) = Earned(t)
<1>1. Len(Append(t, x)) = Len(t) + 1 /\ Len(t) \in Nat
  OBVIOUS
<1>2. (Len(t) + 1) \div 2 = Len(t) \div 2
  BY <1>1
<1>3. QED  BY <1>1, <1>2, EarnedBefore DEF Earned

LEMMA EarnedBySale ==
    ASSUME NEW t \in Seq(Trade), NEW x \in Trade, Len(t) % 2 = 1
    PROVE  Earned(Append(t, x)) = Earned(t) + x.value - t[Len(t)].value
<1> DEFINE u == Append(t, x)
           m == Len(t) \div 2
<1>1. /\ u \in Seq(Trade) /\ Len(u) = Len(t) + 1 /\ Len(t) \in Nat /\ Len(t) >= 1
      /\ u[Len(t) + 1] = x /\ u[Len(t)] = t[Len(t)]
  OBVIOUS
<1>2. m \in Nat /\ (Len(t) + 1) \div 2 = m + 1 /\ 2 * (m + 1) = Len(t) + 1
      /\ 2 * (m + 1) - 1 = Len(t) /\ m + 1 \in 1 .. m + 1 /\ (m + 1) - 1 = m /\ m + 1 \in Nat
  BY <1>1
<1>3. SumTo(Profits(u), m) = Earned(t)
  BY EarnedBefore
<1> HIDE DEF u, m
<1>4. Len(u) \div 2 = m + 1
  BY <1>1, <1>2
<1>5. /\ Profits(u)[m + 1] = u[2 * (m + 1)].value - u[2 * (m + 1) - 1].value
      /\ \A k \in 1 .. m + 1 : Profits(u)[k] \in Int
  BY <1>1, <1>2, <1>4, ProfitType
<1>6. SumTo(Profits(u), m + 1) = SumTo(Profits(u), (m + 1) - 1) + Profits(u)[m + 1]
  BY <1>2, <1>5, Sums
<1>7. Profits(u)[m + 1] = x.value - t[Len(t)].value
  BY <1>1, <1>2, <1>5
<1>8. Earned(t) \in Int /\ x.value \in Int /\ t[Len(t)].value \in Int
  <2>1. Len(t) \in 1 .. Len(t)
    BY <1>1
  <2>2. QED  BY <2>1, EarnedType, ProfitType DEF Trade
<1>9. Earned(u) = Earned(t) + (x.value - t[Len(t)].value)
  BY <1>2, <1>3, <1>4, <1>6, <1>7 DEF Earned
<1>10. QED  BY <1>8, <1>9 DEF u

LEMMA TradesGrow ==
    ASSUME NEW t \in Seq(Trade), NEW x \in Trade, Alternates(t),
           x.signal = IF Len(t) % 2 = 0 THEN "BUY" ELSE "SELL"
    PROVE  /\ Alternates(Append(t, x))
           /\ Len(Append(t, x)) % 2 = 0 <=> Len(t) % 2 # 0
           /\ Outlay(Append(t, x)) = IF Len(t) % 2 = 0 THEN x.value ELSE 0
<1> DEFINE n == Len(t)
           u == Append(t, x)
<1>1. /\ n \in Nat /\ Len(u) = n + 1 /\ u[n + 1] = x /\ DOMAIN u = 1 .. n + 1
      /\ DOMAIN t = 1 .. n /\ \A i \in 1 .. n : u[i] = t[i]
  OBVIOUS
<1>2. (n + 1) % 2 = 0 <=> n % 2 # 0
  BY <1>1
<1>3. \A i \in 1 .. n : t[i].signal = IF i % 2 = 1 THEN "BUY" ELSE "SELL"
  BY <1>1 DEF Alternates
<1> HIDE DEF u
<1>4. ASSUME NEW i \in DOMAIN u
      PROVE  u[i].signal = IF i % 2 = 1 THEN "BUY" ELSE "SELL"
  <2>1. CASE i = n + 1
    <3>1. (n + 1) % 2 = 1 <=> n % 2 = 0
      BY <1>1
    <3>2. QED  BY <1>1, <2>1, <3>1
  <2>2. CASE i # n + 1
    <3>1. i \in 1 .. n
      BY <1>1, <2>2
    <3>2. QED  BY <1>1, <1>3, <3>1
  <2>3. QED  BY <2>1, <2>2
<1>5. Alternates(u)
  BY <1>4 DEF Alternates
<1>6. Outlay(u) = IF n % 2 = 0 THEN x.value ELSE 0
  BY <1>1, <1>2 DEF Outlay
<1>7. QED  BY <1>1, <1>2, <1>5, <1>6 DEF u

LEMMA TurnBalanced ==
    ASSUME NEW p \in Book, NEW price \in Int, NEW signal \in {"HOLD", "BUY", "SELL"},
           Balanced(p)
    PROVE  Balanced(Turn(p, price, signal))
<1> DEFINE q == Turn(p, price, signal)
           t == p.trades
<1>1. q \in Book /\ (Kept(p, q) \/ \E v \in Int : Bought(p, q, v) \/ Sold(p, q, v))
  BY TurnCases
<1> HIDE DEF q
<1>2. t \in Seq(Trade) /\ Len(t) \in Nat /\ p.cash \in Int /\ p.shares \in Nat
      /\ q.cash \in Int /\ q.shares \in Nat
  BY <1>1 DEF Book
<1>3. Earned(t) \in Int /\ Outlay(t) \in Int /\ InitialCapital \in Nat
  BY <1>2, EarnedType, Windows
<1>4. /\ Alternates(t)
      /\ p.shares = 0 <=> Len(t) % 2 = 0
      /\ p.cash = InitialCapital + Earned(t) - Outlay(t)
  BY DEF Balanced
<1>5. Len(t) % 2 = 0 \/ Len(t) % 2 = 1
  <2>1. \A n \in Nat : n % 2 = 0 \/ n % 2 = 1
    OBVIOUS
  <2>2. QED  BY <1>2, <2>1
<1> HIDE DEF t
<1>6. ASSUME Kept(p, q)
      PROVE  Balanced(q)
  BY <1>4, <1>6 DEF Kept, Balanced, t
<1>7. ASSUME NEW v \in Int, Bought(p, q, v)
      PROVE  Balanced(q)
  <2> DEFINE x == [signal |-> "BUY", value |-> v]
             u == q.trades
  <2>1. u = Append(t, x) /\ p.shares = 0 /\ q.shares > 0 /\ q.cash = p.cash - v
    BY <1>7 DEF Bought, t
  <2>2. x \in Trade /\ x.signal = "BUY" /\ x.value = v
    BY DEF Trade
  <2>3. Len(t) % 2 = 0
    BY <1>4, <2>1
  <2> HIDE DEF x, u
  <2>4. Alternates(u) /\ Len(u) % 2 # 0 /\ Outlay(u) = v
    BY <1>2, <1>4, <2>1, <2>2, <2>3, TradesGrow
  <2>5. Earned(u) = Earned(t)
    BY <1>2, <2>1, <2>2, <2>3, EarnedByPurchase
  <2>6. Outlay(t) = 0
    BY <2>3 DEF Outlay
  <2>7. q.cash = InitialCapital + Earned(u) - Outlay(u)
    BY <1>2, <1>3, <1>4, <2>1, <2>4, <2>5, <2>6
  <2>8. q.shares # 0
    BY <2>1
  <2>9. QED  BY <2>4, <2>7, <2>8 DEF Balanced, u
<1>8. ASSUME NEW v \in Int, Sold(p, q, v)
      PROVE  Balanced(q)
  <2> DEFINE x == [signal |-> "SELL", value |-> v]
             u == q.trades
  <2>1. u = Append(t, x) /\ p.shares > 0 /\ q.shares = 0 /\ q.cash = p.cash + v
    BY <1>8 DEF Sold, t
  <2>2. x \in Trade /\ x.signal = "SELL" /\ x.value = v
    BY DEF Trade
  <2>3. Len(t) % 2 # 0 /\ Len(t) % 2 = 1
    BY <1>4, <1>5, <2>1
  <2> HIDE DEF x, u
  <2>4. Alternates(u) /\ Len(u) % 2 = 0 /\ Outlay(u) = 0
    BY <1>2, <1>4, <2>1, <2>2, <2>3, TradesGrow
  <2>5. Earned(u) = Earned(t) + v - t[Len(t)].value
    BY <1>2, <2>1, <2>2, <2>3, EarnedBySale
  <2>6. Outlay(t) = t[Len(t)].value
    BY <2>3 DEF Outlay
  <2>7. q.cash = InitialCapital + Earned(u) - Outlay(u)
    <3> DEFINE last == t[Len(t)].value
               before == Earned(t)
               after == Earned(u)
    <3>1. /\ before \in Int /\ last \in Int /\ InitialCapital \in Int /\ v \in Int
          /\ p.cash = InitialCapital + before - last /\ q.cash = p.cash + v
          /\ after = before + v - last /\ Outlay(u) = 0
      BY <1>3, <1>4, <2>1, <2>4, <2>5, <2>6
    <3> HIDE DEF last, before, after
    <3>2. q.cash = InitialCapital + after - 0
      BY <3>1
    <3>3. QED  BY <3>1, <3>2 DEF after
  <2>8. QED  BY <2>1, <2>4, <2>7 DEF Balanced, u
<1>9. Balanced(q)
  BY <1>1, <1>6, <1>7, <1>8
<1>10. QED  BY <1>9 DEF q

\* The portfolio after i bars.
AfterBars(p, prices, i) ==
    /\ p \in Book
    /\ Balanced(p)
    /\ Len(p.values) = i
    /\ i = 0 => p.cash = InitialCapital /\ p.shares = 0
    /\ i > 0 => /\ p.values[i] = p.cash + p.shares * prices[i]
                /\ p.values[1] = InitialCapital

LEMMA StartAfterNone ==
    ASSUME NEW prices
    PROVE  AfterBars(Start, prices, 0)
<1> DEFINE t == Start.trades
<1>1. t = <<>> /\ Start.shares = 0 /\ Start.cash = InitialCapital /\ Start.values = <<>>
  BY DEF Start
<1>2. Len(t) = 0 /\ Len(t) % 2 = 0 /\ Len(t) \div 2 = 0 /\ DOMAIN t = {} /\ t \in Seq(Trade)
      /\ Len(Start.values) = 0
  BY <1>1
<1> HIDE DEF t
<1>3. Earned(t) = 0
  <2>1. SumTo(Profits(t), 0) = 0
    <3>1. 0 \in Nat /\ \A k \in 1 .. 0 : Profits(t)[k] \in Int
      OBVIOUS
    <3>2. QED  BY <3>1, Sums
  <2>2. QED  BY <1>2, <2>1 DEF Earned
<1>4. Outlay(t) = 0 /\ Alternates(t)
  BY <1>2 DEF Outlay, Alternates
<1>5. Start.cash = InitialCapital + Earned(t) - Outlay(t)
  BY <1>1, <1>3, <1>4, Windows
<1>6. Balanced(Start)
  BY <1>1, <1>2, <1>4, <1>5 DEF Balanced, t
<1>7. QED  BY <1>1, <1>2, <1>6, StartIsBook DEF AfterBars

LEMMA TurnAfterBars ==
    ASSUME NEW prices \in Seq(Int), NEW i \in 0 .. Len(prices) - 1, NEW p,
           AfterBars(p, prices, i)
    PROVE  AfterBars(Turn(p, prices[i + 1], Signals(prices)[i + 1]), prices, i + 1)
<1> DEFINE price == prices[i + 1]
           signal == Signals(prices)[i + 1]
           q == Turn(p, price, signal)
<1>1. i \in Nat /\ i + 1 \in 1 .. Len(prices)
  OBVIOUS
<1>2. price \in Int /\ signal \in {"HOLD", "BUY", "SELL"}
  BY <1>1, SignalType
<1>3. signal = "HOLD" \/ i + 1 > 1
  <2>1. SUFFICES ASSUME i = 0
                 PROVE  signal = "HOLD"
    BY <1>1
  <2>2. Holds(prices, 1)
    BY Windows DEF Holds
  <2>3. QED  BY <1>1, <2>1, <2>2, Crossings
<1>4. p \in Book /\ Balanced(p) /\ Len(p.values) = i /\ p.values \in Seq(Int)
  BY DEF AfterBars, Book
<1> HIDE DEF price, signal
<1>5. /\ q \in Book
      /\ q.values = Append(p.values, q.cash + q.shares * price)
      /\ signal = "HOLD" => Kept(p, q)
  BY <1>2, <1>4, TurnCases
<1>6. Balanced(q)
  BY <1>2, <1>4, TurnBalanced
<1> HIDE DEF q
<1> DEFINE worth == q.cash + q.shares * price
<1>7. worth \in Int
  <2>1. q.cash \in Int /\ q.shares \in Int
    BY <1>5 DEF Book
  <2>2. \A a, b, c \in Int : a + b * c \in Int
    OBVIOUS
  <2>3. QED  BY <1>2, <2>1, <2>2
<1> HIDE DEF worth
<1>8. q.values = Append(p.values, worth)
  BY <1>5 DEF worth
<1>9. Len(q.values) = i + 1 /\ q.values[i + 1] = worth
      /\ (i > 0 => q.values[1] = p.values[1])
  BY <1>1, <1>4, <1>7, <1>8
<1>10. q.values[1] = InitialCapital
  <2>1. CASE i > 0
    BY <1>9, <2>1 DEF AfterBars
  <2>2. CASE i = 0
    <3>1. Kept(p, q)
      BY <1>3, <1>5, <2>2
    <3>2. p.cash = InitialCapital /\ p.shares = 0
      BY <2>2 DEF AfterBars
    <3>3. q.cash = InitialCapital /\ q.shares = 0
      BY <3>1, <3>2 DEF Kept
    <3>4. worth = InitialCapital
      BY <1>2, <3>3, Windows DEF worth
    <3>5. i + 1 = 1
      BY <2>2
    <3>6. QED  BY <1>9, <3>4, <3>5
  <2>3. QED  BY <1>1, <2>1, <2>2
<1>11. q.values[i + 1] = q.cash + q.shares * prices[i + 1]
  BY <1>9 DEF worth, price
<1>12. i + 1 # 0
  BY <1>1
<1>13. AfterBars(q, prices, i + 1)
  BY <1>5, <1>6, <1>9, <1>10, <1>11, <1>12 DEF AfterBars
<1>14. QED  BY <1>13 DEF q, price, signal

\* The ledger of a result.
Ledger(prices, t, value, winning, losing) ==
    LET p == Portfolio(prices)
        pairs == Len(t) \div 2
        held == IF Len(t) % 2 = 0 THEN 0 ELSE p.shares * Last(prices) - Last(t).value
    IN  /\ value = InitialCapital + Earned(t) + held
        /\ Alternates(t)
        /\ winning + losing = pairs

LEMMA PortfolioAfterBars ==
    ASSUME NEW prices \in Seq(Int)
    PROVE  AfterBars(Portfolio(prices), prices, Len(prices))
<1> DEFINE n == Len(prices)
<1>1. PICK f : Runs(f, prices) /\ Portfolio(prices) = f[n]
  BY PortfolioSolved
<1> DEFINE P == {i \in 0 .. n : AfterBars(f[i], prices, i)}
<1>2. n \in Nat /\ n \in 0 .. n /\ 0 \in 0 .. n
  OBVIOUS
<1>3. 0 \in P
  BY <1>1, <1>2, StartAfterNone DEF Runs
<1>4. ASSUME NEW i \in 0 .. n, i \in P, i < n
      PROVE  i + 1 \in P
  <2>1. i \in 0 .. n - 1 /\ i + 1 \in 1 .. n /\ i + 1 \in 0 .. n /\ (i + 1) - 1 = i
    BY <1>2, <1>4
  <2>2. f[i + 1] = Turn(f[i], prices[i + 1], Signals(prices)[i + 1])
    BY <1>1, <2>1 DEF Runs
  <2>3. AfterBars(f[i + 1], prices, i + 1)
    <3> DEFINE p == f[i]
    <3>1. AfterBars(p, prices, i)
      BY <1>4
    <3> HIDE DEF p
    <3>2. AfterBars(Turn(p, prices[i + 1], Signals(prices)[i + 1]), prices, i + 1)
      BY <2>1, <3>1, TurnAfterBars
    <3>3. QED  BY <2>2, <3>2 DEF p
  <2>4. QED  BY <2>1, <2>3
<1> HIDE DEF P, n
<1>5. 0 .. n \subseteq P
  BY <1>2, <1>3, <1>4, BoundedInduction
<1>6. QED  BY <1>1, <1>2, <1>5 DEF P, n

\* Every second trade is a sale.
LEMMA SalesCount ==
    ASSUME NEW t \in Seq(Trade), Alternates(t)
    PROVE  IsFiniteSet(Sales(t)) /\ Cardinality(Sales(t)) = Len(t) \div 2
<1> DEFINE m == Len(t) \div 2
           f == [k \in 1 .. m |-> 2 * k]
<1>1. Len(t) \in Nat /\ m \in Nat /\ m \in Int /\ DOMAIN t = 1 .. Len(t)
  OBVIOUS
<1>2. ASSUME NEW i
      PROVE  i \in Sales(t) <=> \E k \in 1 .. m : i = 2 * k
  <2>1. ASSUME i \in Sales(t)
        PROVE  \E k \in 1 .. m : i = 2 * k
    <3>1. i \in 2 .. Len(t) /\ t[i].signal = "SELL" /\ i \in DOMAIN t
      BY <1>1, <2>1 DEF Sales
    <3>2. i % 2 # 1
      BY <3>1 DEF Alternates
    <3>3. i \div 2 \in 1 .. m /\ i = 2 * (i \div 2)
      BY <1>1, <3>1, <3>2
    <3>4. QED  BY <3>3
  <2>2. ASSUME NEW k \in 1 .. m, i = 2 * k
        PROVE  i \in Sales(t)
    <3>1. /\ i \in 2 .. Len(t) /\ i \in DOMAIN t /\ i - 1 \in DOMAIN t
          /\ i % 2 # 1 /\ (i - 1) % 2 = 1
      BY <1>1, <2>2
    <3>2. t[i].signal = "SELL" /\ t[i - 1].signal = "BUY"
      BY <3>1 DEF Alternates
    <3>3. QED  BY <3>1, <3>2 DEF Sales
  <2>3. QED  BY <2>1, <2>2
<1>3. f \in Surjection(1 .. m, Sales(t)) /\ f \in Injection(1 .. m, Sales(t))
  <2>1. f \in [1 .. m -> Sales(t)]
    BY <1>2
  <2>2. \A x, y \in 1 .. m : f[x] = f[y] => x = y
    OBVIOUS
  <2>3. \A i \in Sales(t) : \E k \in 1 .. m : f[k] = i
    BY <1>2
  <2> HIDE DEF f, m
  <2>4. QED  BY <2>1, <2>2, <2>3 DEF Surjection, Injection, IsInjective
<1>4. IsFiniteSet(1 .. m) /\ Cardinality(1 .. m) = m
  <2> HIDE DEF m
  <2>1. 1 \in Int
    OBVIOUS
  <2>2. IsFiniteSet(1 .. m) /\ Cardinality(1 .. m) = IF 1 > m THEN 0 ELSE m - 1 + 1
    BY <1>1, <2>1, FS_Interval
  <2>3. QED  BY <1>1, <2>2
<1> HIDE DEF f, m
<1>5. IsFiniteSet(Sales(t)) /\ Cardinality(Sales(t)) = Cardinality(1 .. m)
  BY <1>3, <1>4, FS_Surjection
<1>6. QED  BY <1>4, <1>5 DEF m

\* Each sale is a win or a loss.
LEMMA WinsAndLosses ==
    ASSUME NEW t \in Seq(Trade), Alternates(t)
    PROVE  LET winning == Cardinality(Wins(t))
               losing == Cardinality(Sales(t) \ Wins(t))
           IN  winning \in Nat /\ losing \in Nat /\ winning + losing = Len(t) \div 2
<1>1. IsFiniteSet(Sales(t)) /\ Cardinality(Sales(t)) = Len(t) \div 2
  BY SalesCount
<1>2. Wins(t) \subseteq Sales(t) /\ Sales(t) \cap Wins(t) = Wins(t)
  BY DEF Wins
<1>3. IsFiniteSet(Wins(t))
  BY <1>1, <1>2, FS_Subset
<1>4. /\ IsFiniteSet(Sales(t) \ Wins(t))
      /\ Cardinality(Sales(t) \ Wins(t)) = Cardinality(Sales(t)) - Cardinality(Wins(t))
  <2>1. /\ IsFiniteSet(Sales(t) \ Wins(t))
        /\ Cardinality(Sales(t) \ Wins(t))
              = Cardinality(Sales(t)) - Cardinality(Sales(t) \cap Wins(t))
    BY <1>1, FS_Difference
  <2>2. QED  BY <1>2, <2>1
<1>5. Cardinality(Wins(t)) \in Nat /\ Cardinality(Sales(t)) \in Nat
      /\ Cardinality(Sales(t) \ Wins(t)) \in Nat
  BY <1>1, <1>3, <1>4, FS_CardinalityType
<1>6. QED  BY <1>1, <1>4, <1>5

Result ==
    [value : Int, trades : Seq([signal : {"BUY", "SELL"}, value : Int]),
     winning : Nat, losing : Nat, drawdown : Int \X Nat]

\* What the result of a job is.
LEMMA ResultOfPrices ==
    ASSUME NEW prices \in Seq(Int), Len(prices) > 0
    PROVE  LET r == Backtest(prices)
           IN  /\ r \in Result
               /\ Ledger(prices, r.trades, r.value, r.winning, r.losing)
               /\ IsWorstLoss(Portfolio(prices).values, r.drawdown)
<1> DEFINE r == Backtest(prices)
           n == Len(prices)
           p == Portfolio(prices)
           t == p.trades
           v == p.values
<1>1. AfterBars(p, prices, n) /\ n \in Nat /\ n > 0 /\ n \in 1 .. n
  BY PortfolioAfterBars
<1>2. /\ r.value = Last(v) /\ r.trades = t /\ r.winning = Cardinality(Wins(t))
      /\ r.losing = Cardinality(Sales(t) \ Wins(t)) /\ r.drawdown = MaxDrawdown(v)
      /\ r = [value |-> Last(v), trades |-> t, winning |-> Cardinality(Wins(t)),
              losing |-> Cardinality(Sales(t) \ Wins(t)), drawdown |-> MaxDrawdown(v)]
  BY DEF Backtest
<1> HIDE DEF r, p
<1>3. /\ t \in Seq(Trade) /\ v \in Seq(Int) /\ Len(v) = n /\ Len(v) > 0
      /\ p.cash \in Int /\ p.shares \in Nat
  BY <1>1 DEF AfterBars, Book
<1>4. /\ Alternates(t)
      /\ p.shares = 0 <=> Len(t) % 2 = 0
      /\ p.cash = InitialCapital + Earned(t) - Outlay(t)
      /\ v[n] = p.cash + p.shares * prices[n] /\ v[1] = InitialCapital
  BY <1>1 DEF AfterBars, Balanced
<1>5. Last(v) = v[n] /\ Last(prices) = prices[n] /\ Last(t) = t[Len(t)]
      /\ prices[n] \in Int /\ v[n] \in Int
  BY <1>1, <1>3 DEF Last
<1> DEFINE held == IF Len(t) % 2 = 0 THEN 0 ELSE p.shares * Last(prices) - Last(t).value
<1>6. Last(v) = InitialCapital + Earned(t) + held
  <2> DEFINE earned == Earned(t)
             outlay == Outlay(t)
             gained == p.shares * prices[n]
  <2>1. earned \in Int /\ outlay \in Int /\ InitialCapital \in Nat /\ gained \in Int
        /\ Last(v) = (InitialCapital + earned - outlay) + gained
    <3>1. \A a, b \in Int : a * b \in Int
      OBVIOUS
    <3>2. earned \in Int /\ outlay \in Int
      BY <1>3, EarnedType
    <3>3. InitialCapital \in Nat
      BY Windows
    <3>4. gained \in Int
      BY <1>3, <1>5, <3>1
    <3>5. Last(v) = (InitialCapital + earned - outlay) + gained
      BY <1>4, <1>5
    <3>6. QED  BY <3>2, <3>3, <3>4, <3>5
  <2>2. held = gained - outlay
    <3>1. CASE Len(t) % 2 = 0
      <4>1. outlay = 0 /\ p.shares = 0
        BY <1>4, <3>1 DEF Outlay
      <4>2. gained = 0
        BY <1>5, <4>1
      <4>3. QED  BY <3>1, <4>1, <4>2
    <3>2. CASE Len(t) % 2 # 0
      <4>1. outlay = t[Len(t)].value
        BY <3>2 DEF Outlay
      <4>2. held = p.shares * prices[n] - t[Len(t)].value
        BY <1>5, <3>2
      <4>3. QED  BY <4>1, <4>2
    <3>3. QED  BY <3>1, <3>2
  <2> HIDE DEF earned, outlay, gained, held
  <2>3. Last(v) = InitialCapital + earned + held
    BY <2>1, <2>2
  <2>4. QED  BY <2>3 DEF earned
<1>7. /\ Cardinality(Wins(t)) \in Nat /\ Cardinality(Sales(t) \ Wins(t)) \in Nat
      /\ Cardinality(Wins(t)) + Cardinality(Sales(t) \ Wins(t)) = Len(t) \div 2
  BY <1>3, <1>4, WinsAndLosses
<1>8. Ledger(prices, r.trades, r.value, r.winning, r.losing)
  BY <1>2, <1>4, <1>6, <1>7 DEF Ledger, p
<1>9. IsWorstLoss(v, MaxDrawdown(v)) /\ MaxDrawdown(v) \in Nat \X Nat
  <2>1. v[1] > 0
    BY <1>4, Windows
  <2> HIDE DEF v
  <2>2. QED  BY <1>3, <2>1, DrawdownOfValues
<1>10. r \in Result
  BY <1>2, <1>3, <1>5, <1>7, <1>9 DEF Result, Trade
<1>11. QED  BY <1>2, <1>8, <1>9, <1>10 DEF r, p

-----------------------------------------------------------------------------
(* Sorting *)

\* f[i] are the ways to sort the first i bars.
Sorts(f, bars) ==
    /\ f \in [0 .. Len(bars) -> SUBSET Seq(Bar)]
    /\ f[0] = {<<>>}
    /\ \A i \in 1 .. Len(bars) : f[i] = UNION {Insertions(s, bars[i]) : s \in f[i - 1]}

LEMMA InsertionPlaces ==
    ASSUME NEW s \in Seq(Bar), NEW b \in Bar, NEW k \in 1 .. Len(s) + 1
    PROVE  LET u == InsertAt(s, k, b)
           IN  /\ u \in Seq(Bar) /\ Len(u) = Len(s) + 1 /\ u[k] = b
               /\ \A j \in 1 .. Len(s) : j < k => u[j] = s[j]
               /\ \A j \in 1 .. Len(s) : j >= k => u[j + 1] = s[j]
<1> DEFINE front == SubSeq(s, 1, k - 1)
           back == SubSeq(s, k, Len(s))
           u == InsertAt(s, k, b)
<1>1. Len(s) \in Nat /\ k \in Nat /\ \A j \in 1 .. Len(s) : s[j] \in Bar
  OBVIOUS
<1>2. /\ front \in Seq(Bar) /\ Len(front) = k - 1
      /\ \A j \in 1 .. k - 1 : front[j] = s[j]
  BY <1>1
<1>3. /\ back \in Seq(Bar) /\ Len(back) = Len(s) - k + 1
      /\ \A j \in 1 .. Len(s) - k + 1 : back[j] = s[j + k - 1]
  BY <1>1
<1>4. u = front \o <<b>> \o back
  BY DEF InsertAt
<1> HIDE DEF front, back, u
<1> DEFINE w == front \o <<b>>
<1>5. /\ w \in Seq(Bar) /\ Len(w) = k /\ w[k] = b
      /\ \A j \in 1 .. k - 1 : w[j] = front[j]
  BY <1>1, <1>2
<1>6. u = w \o back
  BY <1>4
<1> HIDE DEF w
<1>7. /\ u \in Seq(Bar) /\ Len(u) = Len(s) + 1
      /\ \A j \in 1 .. k : u[j] = w[j]
      /\ \A j \in 1 .. Len(s) - k + 1 : u[k + j] = back[j]
  BY <1>1, <1>3, <1>5, <1>6
<1>8. u[k] = b
  BY <1>1, <1>5, <1>7
<1>9. ASSUME NEW j \in 1 .. Len(s), j < k
      PROVE  u[j] = s[j]
  <2>1. j \in 1 .. k /\ j \in 1 .. k - 1
    BY <1>1, <1>9
  <2>2. QED  BY <1>2, <1>5, <1>7, <2>1
<1>10. ASSUME NEW j \in 1 .. Len(s), j >= k
       PROVE  u[j + 1] = s[j]
  <2> DEFINE i == j - k + 1
  <2>1. i \in 1 .. Len(s) - k + 1 /\ k + i = j + 1 /\ i + k - 1 = j
    BY <1>1, <1>10
  <2> HIDE DEF i
  <2>2. u[k + i] = back[i] /\ back[i] = s[i + k - 1]
    BY <1>3, <1>7, <2>1
  <2>3. QED  BY <2>1, <2>2
<1>11. QED  BY <1>7, <1>8, <1>9, <1>10 DEF u

LEMMA InsertionType ==
    ASSUME NEW s \in Seq(Bar), NEW b \in Bar
    PROVE  \A u \in Insertions(s, b) :
              u \in Seq(Bar) /\ InOrder(u)
              /\ \E k \in 1 .. Len(s) + 1 : u = InsertAt(s, k, b)
BY InsertionPlaces DEF Insertions

LEMMA SortingsSolved ==
    ASSUME NEW bars \in Seq(Bar)
    PROVE  \E f : Sorts(f, bars) /\ Sortings(bars) = f[Len(bars)]
<1> DEFINE n == Len(bars)
           longer(S, b) == UNION {Insertions(s, b) : s \in S}
           body(g) == [i \in 0 .. n |-> IF i = 0 THEN {<<>>} ELSE longer(g[i - 1], bars[i])]
           step == [i \in 1 .. n |-> [S \in SUBSET Seq(Bar) |-> longer(S, bars[i])]]
           f == CHOOSE g : g = body(g)
           base == {<<>>}
<1>1. Sortings(bars) = f[n]
  BY DEF Sortings
<1>2. /\ n \in Nat /\ n \in Int /\ 0 \in Int /\ n \in 0 .. n
      /\ \A i \in 1 .. n : bars[i] \in Bar
      /\ base \in SUBSET Seq(Bar)
  OBVIOUS
<1>3. ASSUME NEW i \in 1 .. n, NEW S \in SUBSET Seq(Bar)
      PROVE  longer(S, bars[i]) \in SUBSET Seq(Bar)
  <2>1. \A s \in S : Insertions(s, bars[i]) \subseteq Seq(Bar)
    BY <1>2, InsertionType
  <2>2. QED  BY <2>1
<1> HIDE DEF longer, base
<1>4. step \in [1 .. n -> [SUBSET Seq(Bar) -> SUBSET Seq(Bar)]]
  BY <1>3
<1>5. PICK g \in [0 .. n -> SUBSET Seq(Bar)] : Unfolds(g, n, base, step)
  <2> HIDE DEF step, n
  <2>1. QED  BY <1>2, <1>4, RecursionExists
<1>6. ASSUME NEW i \in 1 .. n
      PROVE  g[i] = longer(g[i - 1], bars[i])
  <2>1. i - 1 \in 0 .. n
    OBVIOUS
  <2>2. g[i - 1] \in SUBSET Seq(Bar) /\ g[i] = step[i][g[i - 1]]
    BY <1>5, <2>1 DEF Unfolds
  <2>3. QED  BY <2>2
<1> HIDE DEF step
<1>7. g[0] = {<<>>}
  BY <1>5 DEF Unfolds, base
<1>8. g = body(g)
  <2>1. ASSUME NEW i \in 0 .. n
        PROVE  g[i] = IF i = 0 THEN {<<>>} ELSE longer(g[i - 1], bars[i])
    <3>1. CASE i = 0
      BY <1>7, <3>1
    <3>2. CASE i # 0
      <4>1. i \in 1 .. n
        BY <3>2
      <4>2. QED  BY <1>6, <3>2, <4>1
    <3>3. QED  BY <3>1, <3>2
  <2>2. body(g) = [i \in 0 .. n |-> g[i]]
    BY <2>1
  <2>3. QED  BY <2>2
<1>9. f = body(f)
  BY <1>8
<1> HIDE DEF f
<1>10. \A i \in 0 .. n : f[i] = IF i = 0 THEN {<<>>} ELSE longer(f[i - 1], bars[i])
  <2>1. \A i \in 0 .. n : f[i] = body(f)[i]
    BY <1>9
  <2>2. QED  BY <2>1
<1>11. f = [i \in 0 .. n |-> f[i]]
  BY <1>9
<1> HIDE DEF body
<1>12. StayAlike(f, g, 0, n)
  <2>1. f[0] = g[0]
    BY <1>2, <1>7, <1>10
  <2>2. ASSUME NEW i \in 0 .. n - 1, f[i] = g[i]
        PROVE  f[i + 1] = g[i + 1]
    <3>1. i + 1 \in 1 .. n /\ i + 1 \in 0 .. n /\ i + 1 # 0 /\ (i + 1) - 1 = i
      BY <1>2
    <3>2. f[i + 1] = longer(f[(i + 1) - 1], bars[i + 1])
      BY <1>10, <3>1
    <3>3. g[i + 1] = longer(g[(i + 1) - 1], bars[i + 1])
      BY <1>6, <3>1
    <3>4. QED  BY <2>2, <3>1, <3>2, <3>3
  <2>3. QED  BY <2>1, <2>2 DEF StayAlike
<1>13. Alike(f, g, 0, n)
  BY <1>2, <1>12, Agreement
<1>14. Sorts(f, bars)
  <2>1. \A i \in 0 .. n : f[i] \in SUBSET Seq(Bar)
    BY <1>5, <1>13 DEF Alike
  <2>2. f \in [0 .. n -> SUBSET Seq(Bar)]
    BY <1>11, <2>1
  <2>3. f[0] = {<<>>} /\ \A i \in 1 .. n : i \in 0 .. n /\ i # 0
    BY <1>2, <1>10
  <2>4. \A i \in 1 .. n : f[i] = longer(f[i - 1], bars[i])
    BY <1>10, <2>3
  <2>5. QED  BY <2>2, <2>3, <2>4 DEF Sorts, longer
<1>15. QED  BY <1>1, <1>14

LEMMA SortingsType ==
    ASSUME NEW bars \in Seq(Bar)
    PROVE  Sortings(bars) \subseteq Seq(Bar)
<1>1. PICK f : Sorts(f, bars) /\ Sortings(bars) = f[Len(bars)]
  BY SortingsSolved
<1>2. Len(bars) \in 0 .. Len(bars)
  OBVIOUS
<1>3. QED  BY <1>1, <1>2 DEF Sorts

\* What is in order step by step is in order.
LEMMA InOrderThroughout ==
    ASSUME NEW s \in Seq(Bar), InOrder(s), NEW a \in 1 .. Len(s), NEW b \in a .. Len(s)
    PROVE  s[a].date <= s[b].date
<1> DEFINE P == {i \in a .. Len(s) : s[a].date <= s[i].date}
<1>1. Len(s) \in Nat /\ a \in Int /\ Len(s) \in Int /\ a <= Len(s)
  OBVIOUS
<1>2. \A i \in 1 .. Len(s) : s[i].date \in Nat
  <2>1. \A i \in 1 .. Len(s) : s[i] \in Bar
    OBVIOUS
  <2>2. QED  BY <2>1 DEF Bar
<1>3. a \in P
  BY <1>1, <1>2
<1>4. ASSUME NEW i \in a .. Len(s), i \in P, i < Len(s)
      PROVE  i + 1 \in P
  <2>1. i \in 1 .. Len(s) - 1 /\ i \in 1 .. Len(s) /\ i + 1 \in 1 .. Len(s)
        /\ i + 1 \in a .. Len(s)
    BY <1>1, <1>4
  <2>2. s[i].date <= s[i + 1].date
    BY <2>1 DEF InOrder
  <2>3. s[a].date \in Nat /\ s[i].date \in Nat /\ s[i + 1].date \in Nat /\ s[a].date <= s[i].date
    BY <1>2, <1>4, <2>1
  <2>4. s[a].date <= s[i + 1].date
    BY <2>2, <2>3
  <2>5. QED  BY <2>1, <2>4
<1> HIDE DEF P
<1>5. a .. Len(s) \subseteq P
  BY <1>1, <1>3, <1>4, IntervalInduction
<1>6. QED  BY <1>5 DEF P

\* A bar of a new date has one place.
LEMMA OnePlace ==
    ASSUME NEW s \in Seq(Bar), NEW b \in Bar, \A j \in 1 .. Len(s) : s[j].date # b.date,
           NEW k \in 1 .. Len(s) + 1, NEW l \in 1 .. Len(s) + 1,
           InOrder(InsertAt(s, k, b)), InOrder(InsertAt(s, l, b))
    PROVE  ~(k < l)
<1> SUFFICES ASSUME k < l
             PROVE  FALSE
  OBVIOUS
<1> DEFINE x == InsertAt(s, k, b)
           y == InsertAt(s, l, b)
<1>1. Len(s) \in Nat /\ k \in 1 .. Len(s) /\ k \in 1 .. Len(s) + 1 /\ k + 1 \in 1 .. Len(s) + 1
      /\ k \in 1 .. (Len(s) + 1) - 1 /\ k >= k /\ l \in k .. Len(s) + 1
  OBVIOUS
<1>2. x \in Seq(Bar) /\ Len(x) = Len(s) + 1 /\ x[k] = b /\ x[k + 1] = s[k] /\ InOrder(x)
  BY <1>1, InsertionPlaces
<1>3. y \in Seq(Bar) /\ Len(y) = Len(s) + 1 /\ y[l] = b /\ y[k] = s[k] /\ InOrder(y)
  BY <1>1, InsertionPlaces
<1> HIDE DEF x, y
<1>4. b.date <= s[k].date
  BY <1>1, <1>2 DEF InOrder
<1>5. y[k].date <= y[l].date
  BY <1>1, <1>3, InOrderThroughout
<1>6. b.date \in Nat /\ s[k].date \in Nat
  <2>1. s[k] \in Bar
    BY <1>1
  <2>2. QED  BY <2>1 DEF Bar
<1>7. QED  BY <1>1, <1>3, <1>4, <1>5, <1>6

\* Bars whose dates differ are sorted in one way.
LEMMA OneSorting ==
    ASSUME NEW bars \in Seq(Bar), DatesDiffer(bars),
           NEW s \in Sortings(bars), NEW u \in Sortings(bars)
    PROVE  s = u
<1>1. PICK f : Sorts(f, bars) /\ Sortings(bars) = f[Len(bars)]
  BY SortingsSolved
<1> DEFINE n == Len(bars)
           of(x, i) == \A k \in 1 .. Len(x) : \E j \in 1 .. i : x[k] = bars[j]
           P == {i \in 0 .. n : /\ \A x, y \in f[i] : x = y
                                /\ \A x \in f[i] : of(x, i)}
<1>2. n \in Nat /\ n \in 0 .. n /\ 0 \in 0 .. n /\ DOMAIN bars = 1 .. n
      /\ \A i \in 1 .. n : bars[i] \in Bar
  OBVIOUS
<1>3. 0 \in P
  <2>1. of(<<>>, 0)
    OBVIOUS
  <2>2. QED  BY <1>1, <1>2, <2>1 DEF Sorts
<1>4. ASSUME NEW i \in 0 .. n, i \in P, i < n
      PROVE  i + 1 \in P
  <2> DEFINE b == bars[i + 1]
  <2>1. /\ i + 1 \in 1 .. n /\ i + 1 \in 0 .. n /\ (i + 1) - 1 = i
        /\ i + 1 \in 1 .. i + 1
        /\ \A j \in 1 .. i : j \in 1 .. n /\ j # i + 1 /\ j \in 1 .. i + 1
    BY <1>2, <1>4
  <2>2. f[i + 1] = UNION {Insertions(x, b) : x \in f[i]} /\ f[i] \subseteq Seq(Bar)
    BY <1>1, <1>4, <2>1 DEF Sorts
  <2>3. b \in Bar
    BY <1>2, <2>1
  <2>4. \A x \in f[i] : \A k \in 1 .. Len(x) : x[k].date # b.date
    <3>1. \A j \in 1 .. i : bars[j].date # b.date
      BY <1>2, <2>1 DEF DatesDiffer
    <3>2. QED  BY <1>4, <3>1
  <2> HIDE DEF b
  <2>5. ASSUME NEW x \in f[i + 1], NEW y \in f[i + 1]
        PROVE  x = y /\ of(x, i + 1)
    <3>1. PICK v \in f[i] : x \in Insertions(v, b) /\ y \in Insertions(v, b)
      BY <1>4, <2>2
    <3>2. v \in Seq(Bar) /\ \A k \in 1 .. Len(v) : v[k].date # b.date
      BY <2>2, <2>4
    <3>3. PICK k \in 1 .. Len(v) + 1 : x = InsertAt(v, k, b) /\ InOrder(x)
      BY <2>3, <3>1, <3>2, InsertionType
    <3>4. PICK l \in 1 .. Len(v) + 1 : y = InsertAt(v, l, b) /\ InOrder(y)
      BY <2>3, <3>1, <3>2, InsertionType
    <3>5. ~(k < l) /\ ~(l < k)
      BY <2>3, <3>2, <3>3, <3>4, OnePlace
    <3>6. k = l
      BY <3>2, <3>5
    <3>7. Len(v) \in Nat /\ Len(x) = Len(v) + 1 /\ x[k] = b
          /\ (\A j \in 1 .. Len(v) : j < k => x[j] = v[j])
          /\ (\A j \in 1 .. Len(v) : j >= k => x[j + 1] = v[j])
      <4> DEFINE w == InsertAt(v, k, b)
      <4>1. Len(w) = Len(v) + 1 /\ w[k] = b
            /\ (\A j \in 1 .. Len(v) : j < k => w[j] = v[j])
            /\ (\A j \in 1 .. Len(v) : j >= k => w[j + 1] = v[j])
        BY <2>3, <3>2, InsertionPlaces
      <4>2. x = w /\ Len(v) \in Nat
        BY <3>2, <3>3
      <4> HIDE DEF w
      <4>3. QED  BY <4>1, <4>2
    <3>8. ASSUME NEW m \in 1 .. Len(x)
          PROVE  \E j \in 1 .. i + 1 : x[m] = bars[j]
      <4>1. of(v, i)
        BY <1>4
      <4>2. CASE m < k
        <5>1. m \in 1 .. Len(v) /\ x[m] = v[m]
          BY <3>7, <4>2
        <5>2. QED  BY <2>1, <4>1, <5>1
      <4>3. CASE m = k
        BY <2>1, <3>7, <4>3 DEF b
      <4>4. CASE m > k
        <5>1. m - 1 \in 1 .. Len(v) /\ m - 1 >= k /\ (m - 1) + 1 = m
          BY <3>7, <4>4
        <5>2. x[m] = v[m - 1]
          BY <3>7, <5>1
        <5>3. QED  BY <2>1, <4>1, <5>1, <5>2
      <4>5. QED  BY <3>7, <4>2, <4>3, <4>4
    <3>9. QED  BY <3>3, <3>4, <3>6, <3>8
  <2>6. QED  BY <2>1, <2>5
<1> HIDE DEF P, n, of
<1>5. 0 .. n \subseteq P
  BY <1>2, <1>3, <1>4, BoundedInduction
<1>6. QED  BY <1>1, <1>2, <1>5 DEF P, n

-----------------------------------------------------------------------------
(* What a worker reads and answers *)

LEMMA FilesAndJobs ==
    /\ \A job \in Jobs : job.symbol \in Symbols /\ job.first \in Nat /\ job.last \in Nat
    /\ \A f \in Files : f \in Seq(Row)
    /\ MaxRewrites \in Nat
BY PriceDataAssumption

LEMMA LoadedType ==
    ASSUME NEW f \in Files
    PROVE  GoodRows(f) \in Seq(Bar) /\ Loaded(f) \subseteq Seq(Bar)
<1>1. Len(f) \in Nat
  <2>1. f \in Seq(Row)
    BY FilesAndJobs
  <2>2. QED  BY <2>1
<1>2. GoodRows(f) \in Seq(Bar)
  BY <1>1, SiftedType DEF GoodRows
<1>3. QED  BY <1>2, SortingsType DEF Loaded

Between(job) == [date : job.first .. job.last, close : Int, bad : {FALSE}]

LEMMA RangeType ==
    ASSUME NEW job \in Jobs, NEW bars \in Seq(Bar)
    PROVE  InRange(bars, job) \in Seq(Bar)
<1>1. Len(bars) \in Nat
  OBVIOUS
<1>2. InRange(bars, job) \in Seq(Between(job))
  <2>1. InRange(bars, job) = Sifted(bars, Between(job))
    BY DEF InRange, Between
  <2>2. QED  BY <1>1, <2>1, SiftedType
<1>3. Between(job) \subseteq Bar
  <2>1. job.first .. job.last \subseteq Nat
    BY FilesAndJobs
  <2> DEFINE D == job.first .. job.last
  <2> HIDE DEF D
  <2>2. [date : D, close : Int, bad : {FALSE}] \subseteq [date : Nat, close : Int, bad : {FALSE}]
    BY <2>1 DEF D
  <2>3. QED  BY <2>2 DEF Between, Bar, D
<1>4. QED  BY <1>2, <1>3

LEMMA ClosesType ==
    ASSUME NEW bars \in Seq(Bar)
    PROVE  Closes(bars) \in Seq(Int) /\ Len(Closes(bars)) = Len(bars)
<1>1. Len(bars) \in Nat /\ DOMAIN bars = 1 .. Len(bars) /\ \A i \in 1 .. Len(bars) : bars[i] \in Bar
  OBVIOUS
<1>2. \A i \in 1 .. Len(bars) : bars[i].close \in Int
  BY <1>1 DEF Bar
<1>3. Closes(bars) \in [1 .. Len(bars) -> Int]
  BY <1>1, <1>2 DEF Closes
<1>4. QED  BY <1>1, <1>3

LEMMA FailureType ==
    ASSUME NEW job \in Jobs
    PROVE  Failure(job) \in Outcome /\ Failure(job).job = job /\ ~Failure(job).ok
BY DEF Failure, Outcome

\* What an answer that is no failure says.
Done(a) ==
    /\ a.bars \in Seq(Bar)
    /\ a.bars # <<>>
    /\ ~a.resumed => a.result = Backtest(Closes(a.bars))

LEMMA AnswerFacts ==
    ASSUME NEW job \in Jobs, NEW bars \in Seq(Bar), NEW a \in Answers(job, bars)
    PROVE  /\ a \in Outcome
           /\ a.job = job
           /\ a.ok <=> InRange(bars, job) # <<>>
           /\ a.ok => Done(a) /\ a.bars = InRange(bars, job)
           /\ a.ok /\ ~a.resumed =>
                 a = [job |-> job, ok |-> TRUE, resumed |-> FALSE,
                      bars |-> InRange(bars, job),
                      result |-> Backtest(Closes(InRange(bars, job)))]
<1> DEFINE range == InRange(bars, job)
           r == Backtest(Closes(range))
           whole == [job |-> job, ok |-> TRUE, resumed |-> FALSE, bars |-> range, result |-> r]
           part == [job |-> job, ok |-> TRUE, resumed |-> TRUE, bars |-> range]
<1>1. range \in Seq(Bar)
  BY RangeType
<1>2. Answers(job, bars) = IF range = <<>> THEN {Failure(job)} ELSE {whole, part}
  BY DEF Answers
<1>3. CASE range = <<>>
  <2>1. a = Failure(job)
    BY <1>2, <1>3
  <2>2. a \in Outcome /\ a.job = job /\ ~a.ok
    BY <2>1, FailureType
  <2>3. QED  BY <1>3, <2>2
<1>4. CASE range # <<>> /\ a = whole
  <2>1. r \in Result
    <3> DEFINE prices == Closes(range)
    <3>1. prices \in Seq(Int) /\ Len(prices) = Len(range) /\ Len(range) > 0
      <4> HIDE DEF range
      <4>1. QED  BY <1>1, <1>4, ClosesType
    <3> HIDE DEF prices
    <3>2. Backtest(prices) \in Result
      BY <3>1, ResultOfPrices
    <3>3. QED  BY <3>2 DEF prices
  <2>2. Done(a)
    <3> HIDE DEF range
    <3>1. QED  BY <1>1, <1>4 DEF Done
  <2> HIDE DEF r, range
  <2>3. a \in [job : Jobs, ok : {TRUE}, resumed : {FALSE}, bars : Seq(Bar), result : Result]
    BY <1>1, <1>4, <2>1
  <2>4. a \in Outcome
    BY <2>3 DEF Outcome, Result
  <2>5. a.job = job /\ a.ok /\ a.bars = range
    BY <1>4
  <2>6. QED  BY <1>4, <2>2, <2>4, <2>5 DEF range, r
<1>5. CASE range # <<>> /\ a = part
  <2> HIDE DEF range
  <2>1. a \in [job : Jobs, ok : {TRUE}, resumed : {TRUE}, bars : Seq(Bar)]
    BY <1>1, <1>5
  <2>2. a \in Outcome
    BY <2>1 DEF Outcome
  <2>3. Done(a) /\ a.job = job /\ a.ok /\ a.resumed /\ a.bars = range
    BY <1>1, <1>5 DEF Done
  <2>4. QED  BY <1>5, <2>2, <2>3 DEF range
<1>6. QED  BY <1>2, <1>3, <1>4, <1>5

-----------------------------------------------------------------------------
(* The invariant *)

\* The cache of a worker holds what its last answer, if it is no failure, was
\* made of.
FromItsCache ==
    \A w \in Workers :
        LET a == answer[w]
        IN  a # None /\ a.ok =>
                Done(a) /\ a.bars = InRange(cache[w][a.job.symbol], a.job)

\* As long as no file is replaced, all that is in the caches and all answers
\* come from the files as they are.
FromTheFile ==
    rewrites = 0 =>
        \A w \in Workers :
            /\ \A s \in Symbols : cache[w][s] = Nothing \/ cache[w][s] \in Loaded(file[s])
            /\ LET a == answer[w]
                   found == Loaded(file[a.job.symbol])
               IN  a # None =>
                       \/ \E bars \in found : a \in Answers(a.job, bars)
                       \/ found = {} /\ a = Failure(a.job)

Inv == TypeOK /\ FromItsCache /\ FromTheFile

LEMMA InvInit == Init => Inv
<1> SUFFICES ASSUME Init
             PROVE  Inv
  OBVIOUS
<1>1. TypeOK
  <2>1. 0 \in 0 .. MaxRewrites /\ Nothing \in Seq(Bar)
    BY FilesAndJobs DEF Nothing
  <2>2. QED  BY <2>1 DEF Init, TypeOK
<1>2. FromItsCache /\ FromTheFile
  BY DEF Init, FromItsCache, FromTheFile
<1>3. QED  BY <1>1, <1>2 DEF Inv

\* What the three ways to process a job have in common: one worker's answer and
\* its bars of one symbol.
Given(w, job, bars, a) ==
    /\ cache' = [cache EXCEPT ![w][job.symbol] = bars]
    /\ answer' = [answer EXCEPT ![w] = a]
    /\ UNCHANGED <<file, rewrites>>

LEMMA ProcessGives ==
    ASSUME TypeOK, NEW w \in Workers, NEW job \in Jobs, Process(w, job)
    PROVE  \E bars \in Seq(Bar), a \in Outcome :
              /\ Given(w, job, bars, a) /\ a.job = job
              /\ \/ bars = cache[w][job.symbol] /\ bars # Nothing /\ a \in Answers(job, bars)
                 \/ /\ cache[w][job.symbol] = Nothing
                    /\ bars \in Loaded(file[job.symbol]) /\ a \in Answers(job, bars)
                 \/ /\ cache[w][job.symbol] = Nothing /\ bars = Nothing
                    /\ Loaded(file[job.symbol]) = {} /\ a = Failure(job)
<1> DEFINE s == job.symbol
           kept == cache[w][s]
<1>1. s \in Symbols /\ file[s] \in Files /\ kept \in Seq(Bar)
  BY FilesAndJobs DEF TypeOK
<1>2. cache = [cache EXCEPT ![w][s] = kept]
  BY <1>1 DEF TypeOK
<1> HIDE DEF s, kept
<1>3. UNCHANGED <<file, rewrites>>
  BY DEF Process
<1>4. CASE FromCache(w, job)
  <2>1. PICK a \in Answers(job, kept) : answer' = [answer EXCEPT ![w] = a]
    BY <1>4 DEF FromCache, s, kept
  <2>2. kept # Nothing /\ cache' = [cache EXCEPT ![w][s] = kept]
    BY <1>2, <1>4 DEF FromCache, s, kept
  <2>3. a \in Outcome /\ a.job = job
    BY <1>1, AnswerFacts
  <2>4. QED  BY <1>1, <1>3, <2>1, <2>2, <2>3 DEF Given, s, kept
<1>5. CASE FromFile(w, job)
  <2>1. PICK bars \in Loaded(file[s]) :
          /\ kept = Nothing
          /\ cache' = [cache EXCEPT ![w][s] = bars]
          /\ \E a \in Answers(job, bars) : answer' = [answer EXCEPT ![w] = a]
    BY <1>5 DEF FromFile, s, kept
  <2>2. bars \in Seq(Bar)
    BY <1>1, LoadedType
  <2>3. PICK a \in Answers(job, bars) : answer' = [answer EXCEPT ![w] = a]
    BY <2>1
  <2>4. a \in Outcome /\ a.job = job
    BY <2>2, AnswerFacts
  <2>5. QED  BY <1>3, <2>1, <2>2, <2>3, <2>4 DEF Given, s, kept
<1>6. CASE LoadFails(w, job)
  <2>1. kept = Nothing /\ Loaded(file[s]) = {}
        /\ answer' = [answer EXCEPT ![w] = Failure(job)]
        /\ cache' = [cache EXCEPT ![w][s] = kept]
    BY <1>2, <1>6 DEF LoadFails, s, kept
  <2>2. Failure(job) \in Outcome /\ Failure(job).job = job
    BY FailureType
  <2>3. QED  BY <1>1, <1>3, <2>1, <2>2 DEF Given, s, kept
<1>7. QED  BY <1>4, <1>5, <1>6 DEF Process

LEMMA InvProcess ==
    ASSUME Inv, NEW w \in Workers, NEW job \in Jobs, Process(w, job)
    PROVE  Inv'
<1> DEFINE s == job.symbol
<1>1. PICK bars \in Seq(Bar), a \in Outcome :
        /\ Given(w, job, bars, a) /\ a.job = job
        /\ \/ bars = cache[w][s] /\ bars # Nothing /\ a \in Answers(job, bars)
           \/ cache[w][s] = Nothing /\ bars \in Loaded(file[s]) /\ a \in Answers(job, bars)
           \/ /\ cache[w][s] = Nothing /\ bars = Nothing
              /\ Loaded(file[s]) = {} /\ a = Failure(job)
  BY ProcessGives DEF Inv
<1>2. s \in Symbols
  BY FilesAndJobs
<1>3. /\ cache \in [Workers -> [Symbols -> Seq(Bar)]]
      /\ answer \in [Workers -> {None} \cup Outcome]
  BY DEF Inv, TypeOK
<1>4. /\ cache' = [cache EXCEPT ![w][s] = bars]
      /\ answer' = [answer EXCEPT ![w] = a]
      /\ file' = file /\ rewrites' = rewrites
  BY <1>1 DEF Given
<1>5. TypeOK'
  <2>1. cache' \in [Workers -> [Symbols -> Seq(Bar)]]
    BY <1>2, <1>3, <1>4
  <2>2. answer' \in [Workers -> {None} \cup Outcome]
    BY <1>3, <1>4
  <2>3. QED  BY <1>4, <2>1, <2>2 DEF Inv, TypeOK
<1>6. /\ answer'[w] = a /\ cache'[w][s] = bars
      /\ \A t \in Symbols : t # s => cache'[w][t] = cache[w][t]
      /\ \A v \in Workers : v # w => answer'[v] = answer[v] /\ cache'[v] = cache[v]
  BY <1>2, <1>3, <1>4
<1> HIDE DEF s
<1>7. FromItsCache'
  <2>1. ASSUME NEW v \in Workers, answer'[v] # None, answer'[v].ok
        PROVE  /\ Done(answer'[v])
               /\ answer'[v].bars = InRange(cache'[v][answer'[v].job.symbol], answer'[v].job)
    <3>1. CASE v = w
      <4>1. a.ok
        BY <1>6, <2>1, <3>1
      <4>2. a \in Answers(job, bars)
        BY <1>1, <4>1, FailureType
      <4>3. Done(a) /\ a.bars = InRange(bars, job)
        BY <4>1, <4>2, AnswerFacts
      <4>4. QED  BY <1>1, <1>6, <3>1, <4>3 DEF s
    <3>2. CASE v # w
      BY <1>6, <2>1, <3>2 DEF Inv, FromItsCache
    <3>3. QED  BY <3>1, <3>2
  <2>2. QED  BY <2>1 DEF FromItsCache
<1>8. FromTheFile'
  <2> SUFFICES ASSUME rewrites' = 0, NEW v \in Workers
               PROVE  /\ \A t \in Symbols : cache'[v][t] = Nothing \/ cache'[v][t] \in Loaded(file'[t])
                      /\ answer'[v] # None =>
                            \/ \E b \in Loaded(file'[answer'[v].job.symbol]) :
                                    answer'[v] \in Answers(answer'[v].job, b)
                            \/ /\ Loaded(file'[answer'[v].job.symbol]) = {}
                               /\ answer'[v] = Failure(answer'[v].job)
    BY DEF FromTheFile
  <2>1. /\ \A t \in Symbols : cache[v][t] = Nothing \/ cache[v][t] \in Loaded(file[t])
        /\ answer[v] # None =>
              \/ \E b \in Loaded(file[answer[v].job.symbol]) :
                    answer[v] \in Answers(answer[v].job, b)
              \/ /\ Loaded(file[answer[v].job.symbol]) = {}
                 /\ answer[v] = Failure(answer[v].job)
    BY <1>4 DEF Inv, FromTheFile
  <2>2. CASE v # w
    BY <1>4, <1>6, <2>1, <2>2
  <2>3. CASE v = w
    <3>1. bars = Nothing \/ bars \in Loaded(file[s])
      BY <1>1, <1>2, <2>1, <2>3
    <3>2. \A t \in Symbols : cache'[v][t] = Nothing \/ cache'[v][t] \in Loaded(file'[t])
      BY <1>4, <1>6, <2>1, <2>3, <3>1
    <3>3. \/ \E b \in Loaded(file[s]) : a \in Answers(job, b)
          \/ Loaded(file[s]) = {} /\ a = Failure(job)
      BY <1>1, <3>1
    <3>4. answer'[v] = a /\ a.job = job /\ file' = file /\ job.symbol = s
      BY <1>1, <1>4, <1>6, <2>3 DEF s
    <3>5. QED  BY <3>2, <3>3, <3>4
  <2>4. QED  BY <2>2, <2>3
<1>9. QED  BY <1>5, <1>7, <1>8 DEF Inv

LEMMA InvReplace ==
    ASSUME Inv, NEW w \in Workers, Replace(w)
    PROVE  Inv'
<1>1. /\ cache \in [Workers -> [Symbols -> Seq(Bar)]]
      /\ answer \in [Workers -> {None} \cup Outcome]
  BY DEF Inv, TypeOK
<1>2. /\ cache' = [cache EXCEPT ![w] = [t \in Symbols |-> Nothing]]
      /\ answer' = [answer EXCEPT ![w] = None]
      /\ file' = file /\ rewrites' = rewrites
  BY DEF Replace
<1>3. TypeOK'
  <2>1. [t \in Symbols |-> Nothing] \in [Symbols -> Seq(Bar)]
    BY DEF Nothing
  <2>2. QED  BY <1>1, <1>2, <2>1 DEF Inv, TypeOK
<1>4. /\ answer'[w] = None /\ cache'[w] = [t \in Symbols |-> Nothing]
      /\ \A v \in Workers : v # w => answer'[v] = answer[v] /\ cache'[v] = cache[v]
  BY <1>1, <1>2
<1>5. FromItsCache'
  <2>1. ASSUME NEW v \in Workers, answer'[v] # None, answer'[v].ok
        PROVE  /\ Done(answer'[v])
               /\ answer'[v].bars = InRange(cache'[v][answer'[v].job.symbol], answer'[v].job)
    <3>1. v # w
      BY <1>4, <2>1
    <3>2. QED  BY <1>4, <2>1, <3>1 DEF Inv, FromItsCache
  <2>2. QED  BY <2>1 DEF FromItsCache
<1>6. FromTheFile'
  <2> SUFFICES ASSUME rewrites' = 0, NEW v \in Workers
               PROVE  /\ \A t \in Symbols : cache'[v][t] = Nothing \/ cache'[v][t] \in Loaded(file'[t])
                      /\ answer'[v] # None =>
                            \/ \E b \in Loaded(file'[answer'[v].job.symbol]) :
                                    answer'[v] \in Answers(answer'[v].job, b)
                            \/ /\ Loaded(file'[answer'[v].job.symbol]) = {}
                               /\ answer'[v] = Failure(answer'[v].job)
    BY DEF FromTheFile
  <2>1. /\ \A t \in Symbols : cache[v][t] = Nothing \/ cache[v][t] \in Loaded(file[t])
        /\ answer[v] # None =>
              \/ \E b \in Loaded(file[answer[v].job.symbol]) :
                    answer[v] \in Answers(answer[v].job, b)
              \/ /\ Loaded(file[answer[v].job.symbol]) = {}
                 /\ answer[v] = Failure(answer[v].job)
    BY <1>2 DEF Inv, FromTheFile
  <2>2. CASE v # w
    BY <1>2, <1>4, <2>1, <2>2
  <2>3. CASE v = w
    BY <1>4, <2>3
  <2>4. QED  BY <2>2, <2>3
<1>7. QED  BY <1>3, <1>5, <1>6 DEF Inv

LEMMA InvRewrite ==
    ASSUME Inv, NEW s \in Symbols, Rewrite(s)
    PROVE  Inv'
<1>1. PICK f \in Files : file' = [file EXCEPT ![s] = f]
  BY DEF Rewrite
<1>2. rewrites < MaxRewrites /\ rewrites' = rewrites + 1 /\ cache' = cache /\ answer' = answer
      /\ rewrites \in 0 .. MaxRewrites /\ file \in [Symbols -> Files]
  BY DEF Rewrite, Inv, TypeOK
<1>3. rewrites' \in 0 .. MaxRewrites /\ rewrites' # 0
  BY <1>2, FilesAndJobs
<1>4. TypeOK'
  BY <1>1, <1>2, <1>3 DEF Inv, TypeOK
<1>5. FromItsCache' /\ FromTheFile'
  BY <1>2, <1>3 DEF Inv, FromItsCache, FromTheFile
<1>6. QED  BY <1>4, <1>5 DEF Inv

LEMMA InvNext == Inv /\ [Next]_vars => Inv'
<1> SUFFICES ASSUME Inv, [Next]_vars
             PROVE  Inv'
  OBVIOUS
<1>1. CASE UNCHANGED vars
  BY <1>1 DEF vars, Inv, TypeOK, FromItsCache, FromTheFile
<1>2. CASE Next
  BY <1>2, InvProcess, InvReplace, InvRewrite DEF Next
<1>3. QED  BY <1>1, <1>2

LEMMA InvAlways == Spec => []Inv
BY InvInit, InvNext, PTL DEF Spec

\* For all files, with prices of any sign: files, caches and answers are what they
\* should be, and a drawdown has no denominator below zero.
THEOREM TypeCorrect == Spec => []TypeOK
<1>1. Inv => TypeOK
  BY DEF Inv
<1>2. QED  BY <1>1, InvAlways, PTL

\* A job that is done twice from its first bar has the same result, whichever worker
\* does it and whatever std::sort makes of the bars, and it fails for one if it fails
\* for the other, as long as no file is replaced and the file names no date twice. A
\* job that is resumed may differ, and only the former is said of it.
THEOREM SameWorkSameAnswer == Spec => []SameAnswer
<1>1. Inv => SameAnswer
  <2> SUFFICES ASSUME Inv, NEW v \in Workers, NEW w \in Workers,
                      rewrites = 0, Answered(v), Answered(w), answer[v].job = answer[w].job,
                      DatesDiffer(GoodRows(file[answer[v].job.symbol]))
               PROVE  /\ answer[v].ok <=> answer[w].ok
                      /\ Whole(v) /\ Whole(w) => answer[v] = answer[w]
    BY DEF SameAnswer
  <2> DEFINE job == answer[v].job
             f == file[job.symbol]
  <2>1. answer[v] \in Outcome
    BY DEF Inv, TypeOK, Answered
  <2>2. job \in Jobs
    BY <2>1 DEF Outcome
  <2>3. f \in Files
    BY <2>2, FilesAndJobs DEF Inv, TypeOK
  <2>4. \/ \E bars \in Loaded(f) : answer[v] \in Answers(job, bars)
        \/ Loaded(f) = {} /\ answer[v] = Failure(job)
    BY DEF Inv, FromTheFile, Answered
  <2>5. \/ \E bars \in Loaded(f) : answer[w] \in Answers(job, bars)
        \/ Loaded(f) = {} /\ answer[w] = Failure(job)
    BY DEF Inv, FromTheFile, Answered
  <2>6. DatesDiffer(GoodRows(f)) /\ GoodRows(f) \in Seq(Bar) /\ Loaded(f) \subseteq Seq(Bar)
    BY <2>3, LoadedType
  <2> HIDE DEF job, f
  <2>7. \A b, c \in Loaded(f) : b = c
    BY <2>6, OneSorting DEF Loaded
  <2>8. CASE Loaded(f) = {}
    BY <2>4, <2>5, <2>8
  <2>9. CASE Loaded(f) # {}
    <3>1. PICK bars \in Loaded(f) :
            answer[v] \in Answers(job, bars) /\ answer[w] \in Answers(job, bars)
      BY <2>4, <2>5, <2>7, <2>9
    <3>2. bars \in Seq(Bar)
      BY <2>6
    <3>3. answer[v].ok <=> answer[w].ok
      BY <2>2, <3>1, <3>2, AnswerFacts
    <3>4. ASSUME Whole(v), Whole(w)
          PROVE  answer[v] = answer[w]
      <4>1. ASSUME NEW a \in Answers(job, bars), a.ok, ~a.resumed
            PROVE  a = [job |-> job, ok |-> TRUE, resumed |-> FALSE,
                        bars |-> InRange(bars, job),
                        result |-> Backtest(Closes(InRange(bars, job)))]
        BY <2>2, <3>2, <4>1, AnswerFacts
      <4>2. QED  BY <3>1, <3>4, <4>1 DEF Whole
    <3>5. QED  BY <3>3, <3>4
  <2>10. QED  BY <2>8, <2>9
<1>2. QED  BY <1>1, InvAlways, PTL

\* What is cut out of the bars of an answer is cut out of the cache.
LEMMA CutOfCut ==
    ASSUME NEW bars \in Seq(Bar), NEW job, NEW cut,
           job.first <= cut.first, cut.last <= job.last,
           job.first \in Nat, cut.first \in Nat, job.last \in Nat, cut.last \in Nat
    PROVE  InRange(InRange(bars, job), cut) = InRange(bars, cut)
<1>1. Len(bars) \in Nat
  OBVIOUS
<1>2. Between(cut) \subseteq Between(job)
  <2>1. cut.first .. cut.last \subseteq job.first .. job.last
    OBVIOUS
  <2> DEFINE C == cut.first .. cut.last
             J == job.first .. job.last
  <2> HIDE DEF C, J
  <2>2. [date : C, close : Int, bad : {FALSE}] \subseteq [date : J, close : Int, bad : {FALSE}]
    BY <2>1 DEF C, J
  <2>3. QED  BY <2>2 DEF Between, C, J
<1>3. Sifted(Sifted(bars, Between(job)), Between(cut)) = Sifted(bars, Between(cut))
  BY <1>1, <1>2, SiftedTwice
<1>4. QED  BY <1>3 DEF InRange, Between

LEMMA OverlapStep ==
    ASSUME Inv, [Next]_vars, NEW w \in Workers
    PROVE  OneVersion(w)
<1> DEFINE a == answer[w]
           b == answer'[w]
           first == IF a.job.first < b.job.first THEN b.job.first ELSE a.job.first
           last == IF a.job.last < b.job.last THEN a.job.last ELSE b.job.last
           cut == [first |-> first, last |-> last]
<1> SUFFICES ASSUME a # None, b # None, a.job.symbol = b.job.symbol, a.ok, b.ok
             PROVE  InRange(a.bars, cut) = InRange(b.bars, cut)
  BY DEF OneVersion
<1> DEFINE s == a.job.symbol
           kept == cache[w][s]
<1>1. a \in Outcome /\ a.job \in Jobs /\ s \in Symbols /\ kept \in Seq(Bar)
  <2>1. a \in Outcome
    BY DEF Inv, TypeOK
  <2>2. a.job \in Jobs
    BY <2>1 DEF Outcome
  <2>3. QED  BY <2>1, <2>2, FilesAndJobs DEF Inv, TypeOK
<1>2. Done(a) /\ a.bars = InRange(kept, a.job)
  BY DEF Inv, FromItsCache
<1>3. kept # Nothing
  <2>1. kept = <<>> => a.bars = <<>>
    BY <1>2, SiftedEmpty DEF InRange
  <2>2. QED  BY <1>2, <2>1 DEF Done, Nothing
<1>4. Inv' /\ b \in Outcome /\ b.job \in Jobs
  <2>1. Inv'
    BY InvNext
  <2>2. b \in Outcome
    BY <2>1 DEF Inv, TypeOK
  <2>3. QED  BY <2>1, <2>2 DEF Outcome
<1>5. CASE b = a
  BY <1>5
<1>6. CASE b # a
  <2>1. \E job \in Jobs : Process(w, job)
    <3>1. ~UNCHANGED vars /\ ~Replace(w) /\ \A t \in Symbols : ~Rewrite(t)
      BY <1>6 DEF vars, Replace, Rewrite, Inv, TypeOK
    <3>2. \A v \in Workers : v # w => ~Replace(v)
      BY <1>6 DEF Replace, Inv, TypeOK
    <3>3. ASSUME NEW v \in Workers, v # w, NEW job \in Jobs, Process(v, job)
          PROVE  FALSE
      BY <1>6, <3>3, ProcessGives DEF Given, Inv, TypeOK
    <3>4. QED  BY <3>1, <3>2, <3>3 DEF Next
  <2>2. PICK job \in Jobs : Process(w, job)
    BY <2>1
  <2>3. PICK bars \in Seq(Bar), c \in Outcome :
          /\ Given(w, job, bars, c) /\ c.job = job
          /\ \/ bars = cache[w][job.symbol] /\ bars # Nothing /\ c \in Answers(job, bars)
             \/ cache[w][job.symbol] = Nothing
    BY <2>2, ProcessGives DEF Inv
  <2>4. b = c
    BY <2>3 DEF Given, Inv, TypeOK
  <2>5. b.job = job /\ job.symbol = s /\ bars = kept /\ b \in Answers(job, kept)
    BY <1>3, <2>3, <2>4
  <2>6. b.bars = InRange(kept, b.job)
    <3>1. b.ok
      OBVIOUS
    <3> HIDE DEF kept, b
    <3>2. QED  BY <1>1, <2>5, <3>1, AnswerFacts
  <2> DEFINE j == a.job
             k == b.job
  <2>7. /\ j.first \in Nat /\ j.last \in Nat /\ k.first \in Nat /\ k.last \in Nat
    BY <1>1, <1>4, FilesAndJobs
  <2>8. /\ cut.first \in Nat /\ cut.last \in Nat
        /\ j.first <= cut.first /\ cut.last <= j.last
        /\ k.first <= cut.first /\ cut.last <= k.last
    BY <2>7
  <2> HIDE DEF cut, kept, j, k
  <2>9. InRange(InRange(kept, j), cut) = InRange(kept, cut)
        /\ InRange(InRange(kept, k), cut) = InRange(kept, cut)
    BY <1>1, <2>7, <2>8, CutOfCut
  <2>10. QED  BY <1>2, <2>6, <2>9 DEF j, k
<1>7. QED  BY <1>5, <1>6

\* Two answers in a row of one worker about one symbol are made of the same bars
\* on the dates they share, even if the file is replaced in between.
THEOREM OneVersionOnly == Spec => OverlapAgrees
<1>1. Inv /\ [Next]_vars => [\A w \in Workers : OneVersion(w)]_vars
  BY OverlapStep
<1>2. QED  BY <1>1, InvAlways, PTL DEF Spec, OverlapAgrees

-----------------------------------------------------------------------------
(* The results *)

LEMMA ResultsAreDone ==
    ASSUME Inv, NEW a \in Results
    PROVE  LET prices == Closes(a.bars)
           IN  /\ a.bars \in Seq(Bar) /\ prices \in Seq(Int) /\ Len(prices) > 0
               /\ a.result = Backtest(prices)
<1>1. PICK w \in Workers : a = answer[w] /\ Answered(w) /\ answer[w].ok /\ ~answer[w].resumed
  BY DEF Results, Whole
<1>2. Done(a)
  BY <1>1 DEF Inv, FromItsCache, Answered
<1>3. a.bars \in Seq(Bar) /\ a.bars # <<>> /\ a.result = Backtest(Closes(a.bars))
  BY <1>1, <1>2 DEF Done
<1> DEFINE bars == a.bars
<1> HIDE DEF bars
<1>4. Closes(bars) \in Seq(Int) /\ Len(Closes(bars)) = Len(bars)
  BY <1>3, ClosesType DEF bars
<1>5. Len(bars) > 0
  BY <1>3 DEF bars
<1>6. QED  BY <1>3, <1>4, <1>5 DEF bars

\* For all prices and all windows: the strategy buys and sells exactly where the
\* averages cross, though it keeps running sums and skips bars.
THEOREM CrossingsOnly == Spec => []SignalsAreCrossings
<1>1. Inv => SignalsAreCrossings
  <2> SUFFICES ASSUME Inv, NEW a \in Results, NEW i \in DOMAIN Closes(a.bars)
               PROVE  Signals(Closes(a.bars))[i] =
                        IF Holds(Closes(a.bars), i) THEN "HOLD"
                        ELSE IF IsAbove(Closes(a.bars), i) THEN "BUY" ELSE "SELL"
    BY DEF SignalsAreCrossings, Holds
  <2> DEFINE prices == Closes(a.bars)
  <2>1. prices \in Seq(Int)
    BY ResultsAreDone
  <2>2. i \in DOMAIN prices
    OBVIOUS
  <2> HIDE DEF prices
  <2>3. i \in 1 .. Len(prices)
    BY <2>1, <2>2
  <2>4. QED  BY <2>1, <2>3, Crossings DEF prices
<1>2. QED  BY <1>1, InvAlways, PTL

\* For all prices: the final value is the capital, the profits and the gain on
\* what is held, purchases and sales alternate, and each sale is counted once.
THEOREM LedgerIsBalanced == Spec => []LedgerBalances
<1>1. Inv => LedgerBalances
  <2> SUFFICES ASSUME Inv, NEW a \in Results
               PROVE  Ledger(Closes(a.bars), a.result.trades, a.result.value,
                             a.result.winning, a.result.losing)
    BY DEF LedgerBalances, Ledger, Earned, Profits, Alternates
  <2> DEFINE prices == Closes(a.bars)
  <2>1. prices \in Seq(Int) /\ Len(prices) > 0 /\ a.result = Backtest(prices)
    BY ResultsAreDone
  <2> HIDE DEF prices
  <2>2. Ledger(prices, a.result.trades, a.result.value, a.result.winning, a.result.losing)
    BY <2>1, ResultOfPrices
  <2>3. QED  BY <2>2 DEF prices
<1>2. QED  BY <1>1, InvAlways, PTL

\* For all prices: the maximum drawdown is a loss between two bars, and none that does
\* not end in debt is worse, though only the peak so far is carried along.
THEOREM DrawdownIsTheWorst == Spec => []DrawdownIsWorst
<1>1. Inv => DrawdownIsWorst
  <2> SUFFICES ASSUME Inv, NEW a \in Results
               PROVE  IsWorstLoss(Portfolio(Closes(a.bars)).values, a.result.drawdown)
    BY DEF DrawdownIsWorst, IsWorstLoss
  <2> DEFINE prices == Closes(a.bars)
  <2>1. prices \in Seq(Int) /\ Len(prices) > 0 /\ a.result = Backtest(prices)
    BY ResultsAreDone
  <2> HIDE DEF prices
  <2>2. IsWorstLoss(Portfolio(prices).values, a.result.drawdown)
    BY <2>1, ResultOfPrices
  <2>3. QED  BY <2>2 DEF prices
<1>2. QED  BY <1>1, InvAlways, PTL
=============================================================================
