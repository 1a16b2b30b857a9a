------------------------- MODULE TradeLoaderProofs -------------------------
(***************************************************************************)
(* What the loops of the two programs compute over lists of any length.    *)
(* Induction is done by least counterexample: the library's WFMin says     *)
(* that a set of naturals has a minimal element, and from there on every   *)
(* step is first-order.                                                    *)
(***************************************************************************)
EXTENDS TradeLoader, WellFoundedInduction, SequenceTheorems, TLAPS

-----------------------------------------------------------------------------
(* Induction                                                               *)

(* A nonempty set of naturals has a least one.                             *)
LEMMA Least ==
  ASSUME NEW T \in SUBSET Nat, T # {}
  PROVE  \E x \in T : \A y \in T : x <= y
<1> DEFINE R == OpToRel(<, Nat)
<1>1. IsWellFoundedOn(R, Nat)
  BY NatLessThanWellFounded
<1>2. \A y \in Nat, z \in Nat : y < z => <<y, z>> \in R
  BY DEF OpToRel
<1> HIDE DEF R
<1>3. PICK x \in T : \A y \in T : ~(<<y, x>> \in R)
  BY <1>1, WFMin
<1>4. ASSUME NEW y \in T
      PROVE  x <= y
  <2>1. x \in Nat /\ y \in Nat
    OBVIOUS
  <2>2. ~(y < x)
    BY <1>2, <1>3, <2>1
  <2> QED
    BY <2>1, <2>2
<1> QED
  BY <1>4

LEMMA Counting ==
  ASSUME NEW n \in Nat, NEW T \in SUBSET (0..n), 0 \in T,
         \A i \in 0..(n - 1) : i \in T => i + 1 \in T
  PROVE  T = 0..n
<1> SUFFICES ASSUME (0..n) \ T # {}
             PROVE  FALSE
  OBVIOUS
<1> DEFINE U == (0..n) \ T
<1>1. U \in SUBSET Nat /\ U # {}
  OBVIOUS
<1> HIDE DEF U
<1>2. PICK x \in U : \A y \in U : x <= y
  BY <1>1, Least
<1>3. x \in 0..n /\ x # 0 /\ ~(x \in T)
  BY <1>2 DEF U
<1>4. ~(x - 1 \in U)
  BY <1>1, <1>2, <1>3
<1>5. x - 1 \in T /\ x - 1 \in 0..(n - 1)
  BY <1>3, <1>4 DEF U
<1>6. x - 1 + 1 \in T
  BY <1>5
<1> QED
  BY <1>3, <1>6

(* A loop over n entries that starts with v and goes on by step has its    *)
(* function.                                                               *)
IsLoop(n, V, v, step) == n \in Nat /\ v \in V /\ step \in [1..n -> [V -> V]]
Computes(f, n, V, v, step) ==
  f \in [0..n -> V] /\ f[0] = v /\ \A i \in 1..n : f[i] = step[i][f[i - 1]]

LEMMA LoopExists ==
  ASSUME NEW n, NEW V, NEW v, NEW step, IsLoop(n, V, v, step)
  PROVE  \E f : Computes(f, n, V, v, step)
<1>0. n \in Nat /\ v \in V /\ step \in [1..n -> [V -> V]]
  BY DEF IsLoop
<1> DEFINE Loops(f, k) == f[0] = v /\ \A i \in 1..k : f[i] = step[i][f[i - 1]]
           T == {k \in 0..n : \E f \in [0..k -> V] : Loops(f, k)}
<1>1. 0 \in T
  <2> DEFINE f == [i \in 0..0 |-> v]
  <2>1. f \in [0..0 -> V] /\ Loops(f, 0)
    BY <1>0
  <2> HIDE DEF f, Loops
  <2> QED
    BY <1>0, <2>1
<1>2. ASSUME NEW k \in 0..(n - 1), k \in T
      PROVE  k + 1 \in T
  <2>1. PICK f \in [0..k -> V] : Loops(f, k)
    BY <1>2
  <2> DEFINE g == [i \in 0..(k + 1) |-> IF i = k + 1 THEN step[k + 1][f[k]] ELSE f[i]]
  <2>2. k \in Nat /\ k + 1 \in 0..n /\ step[k + 1][f[k]] \in V
    BY <1>0
  <2>3. g \in [0..(k + 1) -> V]
    BY <2>2
  <2>4. g[0] = v
    BY <2>1, <2>2
  <2>5. ASSUME NEW i \in 1..(k + 1)
        PROVE  g[i] = step[i][g[i - 1]]
    <3>1. /\ k + 1 \in 0..(k + 1) /\ k \in 0..(k + 1) /\ k # k + 1 /\ (k + 1) - 1 = k
          /\ i \in 0..(k + 1) /\ i - 1 \in 0..(k + 1) /\ i - 1 # k + 1
          /\ i # k + 1 => i \in 1..k
      BY <2>2
    <3>2. g[i - 1] = f[i - 1]
      BY <3>1
    <3>3. i = k + 1 => g[i] = step[k + 1][f[k]]
      BY <3>1
    <3>4. i # k + 1 => g[i] = f[i] /\ f[i] = step[i][f[i - 1]]
      BY <2>1, <3>1
    <3> HIDE DEF g
    <3> QED
      BY <3>1, <3>2, <3>3, <3>4
  <2>6. Loops(g, k + 1)
    BY <2>4, <2>5
  <2> HIDE DEF g, Loops
  <2> QED
    BY <2>2, <2>3, <2>6
<1>3. T = 0..n
  <2>1. T \in SUBSET (0..n)
    OBVIOUS
  <2> HIDE DEF T
  <2> QED
    BY <1>0, <1>1, <1>2, <2>1, Counting
<1>4. n \in T
  <2> HIDE DEF T
  <2> QED
    BY <1>0, <1>3
<1> QED
  BY <1>4 DEF Computes

(* What goes on by step as long as it is in V computes the loop.           *)
LEMMA LoopIs ==
  ASSUME NEW n, NEW V, NEW v, NEW step, IsLoop(n, V, v, step),
         NEW W, NEW f \in [0..n -> W], f[0] = v,
         \A i \in 1..n : f[i - 1] \in V => f[i] = step[i][f[i - 1]]
  PROVE  Computes(f, n, V, v, step)
<1>0. n \in Nat /\ v \in V /\ step \in [1..n -> [V -> V]]
  BY DEF IsLoop
<1> DEFINE T == {k \in 0..n : f[k] \in V}
<1>1. 0 \in T /\ T \in SUBSET (0..n)
  BY <1>0
<1>2. ASSUME NEW k \in 0..(n - 1), k \in T
      PROVE  k + 1 \in T
  <2>1. k + 1 \in 1..n /\ k + 1 \in 0..n /\ (k + 1) - 1 = k /\ f[k] \in V
    BY <1>0, <1>2
  <2>2. f[k + 1] = step[k + 1][f[k]]
    BY <2>1
  <2>3. step[k + 1] \in [V -> V]
    BY <1>0, <2>1
  <2> QED
    BY <2>1, <2>2, <2>3
<1>3. T = 0..n
  <2> HIDE DEF T
  <2> QED
    BY <1>0, <1>1, <1>2, Counting
<1>4. \A k \in 0..n : f[k] \in V
  BY <1>3
<1>5. f \in [0..n -> V]
  BY <1>4
<1>6. \A i \in 1..n : f[i] = step[i][f[i - 1]]
  <2>1. \A i \in 1..n : i - 1 \in 0..n
    BY <1>0
  <2> QED
    BY <1>4, <2>1
<1> QED
  BY <1>5, <1>6 DEF Computes

-----------------------------------------------------------------------------
(* The two loops                                                           *)

(* f[i] is the sum of the first i entries of s, up to n; the first entries *)
(* of two lists are the same, up to n.                                     *)
Sums(f, s, n) ==
  f[0] = 0 /\ (\A i \in 0..n : f[i] \in Int) /\ \A i \in 1..n : f[i] = f[i - 1] + s[i]
Begin(s, t, n) == \A i \in 1..n : s[i] = t[i]

LEMMA TotalLoop ==
  ASSUME NEW s \in Seq(Int)
  PROVE  \E f : Sums(f, s, Len(s)) /\ Total(s) = f[Len(s)]
<1> DEFINE n == Len(s)
           step == [i \in 1..n |-> [x \in Int |-> x + s[i]]]
           Is(f) == f = [i \in 0..n |-> IF i = 0 THEN 0 ELSE f[i - 1] + s[i]]
           sum == CHOOSE f : Is(f)
<1>1. n \in Nat /\ \A i \in 1..n : s[i] \in Int
  OBVIOUS
<1>2. IsLoop(n, Int, 0, step)
  BY <1>1 DEF IsLoop
<1>3. \A i \in 1..n, x \in Int : step[i][x] = x + s[i]
  OBVIOUS
<1>4. \A i \in 0..n : i # 0 => i \in 1..n /\ i - 1 \in 0..n
  BY <1>1
<1> HIDE DEF n, step
<1>5. PICK f : Computes(f, n, Int, 0, step)
  BY <1>2, LoopExists
<1>6. Is(f)
  BY <1>1, <1>3, <1>4, <1>5 DEF Computes
<1> HIDE DEF Is
<1>7. Is(sum)
  BY <1>6
<1> HIDE DEF sum
<1> DEFINE made == [i \in 0..n |-> IF i = 0 THEN 0 ELSE sum[i - 1] + s[i]]
<1>8. /\ sum \in [0..n -> {made[i] : i \in 0..n}]
      /\ sum[0] = 0
      /\ \A i \in 1..n : sum[i] = sum[i - 1] + s[i]
  <2>1. sum = made
    BY <1>7 DEF Is
  <2>2. made \in [0..n -> {made[i] : i \in 0..n}]
    OBVIOUS
  <2>3. 0 \in 0..n /\ \A i \in 1..n : i \in 0..n /\ i # 0
    BY <1>1
  <2>4. made[0] = 0 /\ \A i \in 1..n : made[i] = sum[i - 1] + s[i]
    BY <2>3
  <2> HIDE DEF made
  <2> QED
    BY <2>1, <2>2, <2>4
<1>9. \A i \in 1..n : sum[i - 1] \in Int => sum[i] = step[i][sum[i - 1]]
  BY <1>3, <1>8
<1>10. Computes(sum, n, Int, 0, step)
  BY <1>2, <1>8, <1>9, LoopIs
<1>11. Total(s) = sum[n]
  BY DEF Total, sum, Is, n
<1> QED
  BY <1>8, <1>10, <1>11 DEF n, Computes, Sums

LEMMA KeptLoop ==
  ASSUME NEW A, NEW s \in Seq(A), NEW I
  PROVE  \E f \in [0..Len(s) -> Seq(A)] :
           /\ f[0] = <<>> /\ Kept(s, I) = f[Len(s)]
           /\ \A i \in 1..Len(s) : f[i] = IF i \in I THEN Append(f[i - 1], s[i]) ELSE f[i - 1]
<1> DEFINE n == Len(s)
           step == [i \in 1..n |-> [x \in Seq(A) |-> IF i \in I THEN Append(x, s[i]) ELSE x]]
           Is(f) == f = [i \in 0..n |-> IF i = 0 THEN <<>>
                                        ELSE IF i \in I THEN Append(f[i - 1], s[i]) ELSE f[i - 1]]
           kept == CHOOSE f : Is(f)
           V == Seq(A)
<1>1. n \in Nat /\ \A i \in 1..n : s[i] \in A
  OBVIOUS
<1>2. IsLoop(n, V, <<>>, step)
  <2>1. ASSUME NEW i \in 1..n, NEW x \in Seq(A)
        PROVE  (IF i \in I THEN Append(x, s[i]) ELSE x) \in Seq(A)
    BY <1>1
  <2>2. <<>> \in Seq(A)
    OBVIOUS
  <2> HIDE DEF n
  <2> QED
    BY <1>1, <2>1, <2>2 DEF IsLoop
<1>3. \A i \in 1..n, x \in V : step[i][x] = IF i \in I THEN Append(x, s[i]) ELSE x
  OBVIOUS
<1>4. \A i \in 0..n : i # 0 => i \in 1..n /\ i - 1 \in 0..n
  BY <1>1
<1> HIDE DEF n, step, V
<1>5. PICK f : Computes(f, n, V, <<>>, step)
  BY <1>2, LoopExists
<1>6. Is(f)
  BY <1>1, <1>3, <1>4, <1>5 DEF Computes
<1> HIDE DEF Is
<1>7. Is(kept)
  BY <1>6
<1> HIDE DEF kept
<1> DEFINE made == [i \in 0..n |-> IF i = 0 THEN <<>>
                          ELSE IF i \in I THEN Append(kept[i - 1], s[i]) ELSE kept[i - 1]]
<1>8. /\ kept \in [0..n -> {made[i] : i \in 0..n}]
      /\ kept[0] = <<>>
      /\ \A i \in 1..n : kept[i] = IF i \in I THEN Append(kept[i - 1], s[i]) ELSE kept[i - 1]
  <2>1. kept = made
    BY <1>7 DEF Is
  <2>2. made \in [0..n -> {made[i] : i \in 0..n}]
    OBVIOUS
  <2>3. 0 \in 0..n /\ \A i \in 1..n : i \in 0..n /\ i # 0
    BY <1>1
  <2>4. made[0] = <<>> /\ \A i \in 1..n : made[i] = IF i \in I THEN Append(kept[i - 1], s[i]) ELSE kept[i - 1]
    BY <2>3
  <2> HIDE DEF made
  <2> QED
    BY <2>1, <2>2, <2>4
<1>9. \A i \in 1..n : kept[i - 1] \in V => kept[i] = step[i][kept[i - 1]]
  BY <1>3, <1>8
<1>10. Computes(kept, n, V, <<>>, step)
  BY <1>2, <1>8, <1>9, LoopIs
<1>11. Kept(s, I) = kept[n]
  BY DEF Kept, kept, Is, n
<1> QED
  BY <1>8, <1>10, <1>11 DEF n, V, Computes

(* A list of numbers and its beginning have the same sums so far.          *)
LEMMA SameSums ==
  ASSUME NEW n \in Nat, NEW f, NEW g, NEW s, NEW t, Sums(f, s, n), Sums(g, t, n),
         Begin(s, t, n)
  PROVE  \A i \in 0..n : f[i] = g[i]
<1> DEFINE T == {i \in 0..n : f[i] = g[i]}
<1>1. 0 \in T /\ T \in SUBSET (0..n)
  BY DEF Sums
<1>2. ASSUME NEW k \in 0..(n - 1), k \in T
      PROVE  k + 1 \in T
  <2>1. k + 1 \in 1..n /\ k + 1 \in 0..n /\ (k + 1) - 1 = k /\ f[k] = g[k]
    BY <1>2
  <2> QED
    BY <2>1 DEF Sums, Begin
<1>3. T = 0..n
  <2> HIDE DEF T
  <2> QED
    BY <1>1, <1>2, Counting
<1> QED
  BY <1>3

LEMMA TotalType ==
  ASSUME NEW s \in Seq(Int)
  PROVE  Total(s) \in Int
<1>1. Len(s) \in 0..Len(s)
  OBVIOUS
<1>2. PICK f : Sums(f, s, Len(s)) /\ Total(s) = f[Len(s)]
  BY TotalLoop
<1> QED
  BY <1>1, <1>2 DEF Sums

LEMMA TotalEmpty == Total(<<>>) = 0
<1>1. <<>> \in Seq(Int) /\ Len(<<>>) = 0
  OBVIOUS
<1>2. PICK f : f[0] = 0 /\ Total(<<>>) = f[Len(<<>>)]
  BY <1>1, TotalLoop DEF Sums
<1> QED
  BY <1>1, <1>2

(* The sum of two lists, one after the other.                              *)
LEMMA TotalConcat ==
  ASSUME NEW s \in Seq(Int), NEW t \in Seq(Int)
  PROVE  Total(s \o t) = Total(s) + Total(t)
<1> DEFINE m == Len(s)
           n == Len(t)
           u == s \o t
<1>1. /\ m \in Nat /\ n \in Nat /\ u \in Seq(Int) /\ Len(u) = m + n
      /\ \A i \in 1..m : u[i] = s[i]
      /\ \A i \in 1..n : u[m + i] = t[i] /\ t[i] \in Int
  OBVIOUS
<1>2. PICK f : Sums(f, s, m) /\ Total(s) = f[m]
  BY TotalLoop
<1>3. PICK g : Sums(g, t, n) /\ Total(t) = g[n]
  BY TotalLoop
<1>4. PICK h : Sums(h, u, m + n) /\ Total(u) = h[m + n]
  <2> HIDE DEF u, m, n
  <2> QED
    BY <1>1, TotalLoop
<1> HIDE DEF u, m, n
<1> DEFINE T == {k \in 0..n : h[m + k] = f[m] + g[k]}
<1>5. 0 \in T /\ T \in SUBSET (0..n)
  <2>1. Sums(h, u, m) /\ Begin(s, u, m)
    <3>1. (\A i \in 1..m : i \in 1..(m + n)) /\ (\A i \in 0..m : i \in 0..(m + n))
      BY <1>1
    <3> QED
      BY <1>1, <1>4, <3>1 DEF Sums, Begin
  <2>2. \A i \in 0..m : f[i] = h[i]
    <3>1. m \in Nat /\ Sums(f, s, m)
      BY <1>1, <1>2
    <3> QED
      BY ONLY <2>1, <3>1, SameSums
  <2>3. m \in 0..m /\ m + 0 = m /\ f[m] \in Int
    BY <1>1, <1>2 DEF Sums
  <2>4. h[m + 0] = f[m] + g[0]
    BY <1>3, <2>2, <2>3 DEF Sums
  <2> QED
    BY <1>1, <2>4
<1>6. ASSUME NEW k \in 0..(n - 1), k \in T
      PROVE  k + 1 \in T
  <2>1. /\ k + 1 \in 1..n /\ k + 1 \in 0..n /\ (k + 1) - 1 = k /\ h[m + k] = f[m] + g[k]
        /\ m + (k + 1) \in 1..(m + n) /\ (m + (k + 1)) - 1 = m + k
        /\ f[m] \in Int /\ g[k] \in Int
    BY <1>1, <1>2, <1>3, <1>6 DEF Sums
  <2>2. h[m + (k + 1)] = h[m + k] + u[m + (k + 1)] /\ u[m + (k + 1)] = t[k + 1] /\ t[k + 1] \in Int
    BY <1>1, <1>4, <2>1 DEF Sums
  <2>3. g[k + 1] = g[k] + t[k + 1]
    BY <1>3, <2>1 DEF Sums
  <2> QED
    BY <2>1, <2>2, <2>3
<1>7. T = 0..n
  <2> HIDE DEF T
  <2> QED
    BY <1>1, <1>5, <1>6, Counting
<1>8. h[m + n] = f[m] + g[n]
  <2>1. n \in T
    <3> HIDE DEF T
    <3> QED
      BY <1>1, <1>7
  <2> QED
    BY <2>1
<1> QED
  BY <1>2, <1>3, <1>4, <1>8 DEF u

LEMMA TotalOne ==
  ASSUME NEW x \in Int
  PROVE  Total(<<x>>) = x
<1> DEFINE s == <<x>>
<1>1. s \in Seq(Int) /\ Len(s) = 1 /\ s[1] = x /\ 1 \in 1..1 /\ 1 - 1 = 0
  OBVIOUS
<1> HIDE DEF s
<1>2. PICK f : Sums(f, s, 1) /\ Total(s) = f[1]
  BY <1>1, TotalLoop
<1>3. f[1] = 0 + x
  BY <1>1, <1>2 DEF Sums
<1> QED
  BY <1>2, <1>3 DEF s

LEMMA TotalAppend ==
  ASSUME NEW s \in Seq(Int), NEW x \in Int
  PROVE  Total(Append(s, x)) = Total(s) + x
<1>1. Append(s, x) = s \o <<x>> /\ <<x>> \in Seq(Int)
  OBVIOUS
<1> QED
  BY <1>1, TotalConcat, TotalOne

(* Numbers that differ by half a quantity each differ by half the total.   *)
LEMMA TotalNear ==
  ASSUME NEW a, NEW b, NEW q, a \in Seq(Int), b \in Seq(Int), q \in Seq(Int),
         Len(a) = Len(q), Len(b) = Len(q),
         \A i \in 1..Len(q) : q[i] > 0 /\ 2 * (a[i] - b[i]) <= q[i] /\ 2 * (b[i] - a[i]) <= q[i]
  PROVE  /\ 2 * (Total(a) - Total(b)) <= Total(q) /\ 2 * (Total(b) - Total(a)) <= Total(q)
         /\ Len(q) > 0 => Total(q) > 0
<1> DEFINE n == Len(q)
<1>1. n \in Nat /\ \A i \in 1..n : a[i] \in Int /\ b[i] \in Int /\ q[i] \in Int
  OBVIOUS
<1>2. PICK f : Sums(f, a, n) /\ Total(a) = f[n]
  BY TotalLoop
<1>3. PICK g : Sums(g, b, n) /\ Total(b) = g[n]
  BY TotalLoop
<1>4. PICK h : Sums(h, q, n) /\ Total(q) = h[n]
  BY TotalLoop
<1>5. \A i \in 1..n : q[i] > 0 /\ 2 * (a[i] - b[i]) <= q[i] /\ 2 * (b[i] - a[i]) <= q[i]
  OBVIOUS
<1> HIDE DEF n
<1> DEFINE Fits(k) == /\ 2 * (f[k] - g[k]) <= h[k] /\ 2 * (g[k] - f[k]) <= h[k]
                      /\ h[k] >= 0 /\ (k > 0 => h[k] > 0)
           T == {k \in 0..n : Fits(k)}
<1>6. 0 \in T /\ T \in SUBSET (0..n)
  BY <1>1, <1>2, <1>3, <1>4 DEF Sums
<1>7. ASSUME NEW k \in 0..(n - 1), k \in T
      PROVE  k + 1 \in T
  <2>1. /\ k + 1 \in 1..n /\ k + 1 \in 0..n /\ (k + 1) - 1 = k /\ Fits(k)
        /\ f[k] \in Int /\ g[k] \in Int /\ h[k] \in Int
    BY <1>1, <1>2, <1>3, <1>4, <1>7 DEF Sums
  <2>2. /\ f[k + 1] = f[k] + a[k + 1] /\ g[k + 1] = g[k] + b[k + 1] /\ h[k + 1] = h[k] + q[k + 1]
        /\ a[k + 1] \in Int /\ b[k + 1] \in Int /\ q[k + 1] \in Int
    BY <1>1, <1>2, <1>3, <1>4, <2>1 DEF Sums
  <2>3. /\ q[k + 1] > 0 /\ 2 * (a[k + 1] - b[k + 1]) <= q[k + 1]
        /\ 2 * (b[k + 1] - a[k + 1]) <= q[k + 1]
    BY <1>5, <2>1
  <2>4. 2 * (f[k + 1] - g[k + 1]) <= h[k + 1] /\ 2 * (g[k + 1] - f[k + 1]) <= h[k + 1]
    BY ONLY <2>1, <2>2, <2>3
  <2>5. h[k + 1] > 0 /\ h[k + 1] >= 0
    BY ONLY <2>1, <2>2, <2>3
  <2> QED
    BY <2>1, <2>4, <2>5
<1>8. T = 0..n
  <2> HIDE DEF T
  <2> QED
    BY <1>1, <1>6, <1>7, Counting
<1>9. Fits(n)
  <2>1. n \in T
    <3> HIDE DEF T
    <3> QED
      BY <1>1, <1>8
  <2> QED
    BY <2>1
<1> QED
  BY <1>2, <1>3, <1>4, <1>9 DEF n

LEMMA ConcatPlaces ==
  ASSUME NEW A, NEW s \in Seq(A), NEW t \in Seq(A)
  PROVE  /\ s \o t \in Seq(A) /\ Len(s \o t) = Len(s) + Len(t)
         /\ Len(s) \in Nat /\ Len(t) \in Nat
         /\ \A i \in 1..Len(s) : (s \o t)[i] = s[i] /\ s[i] \in A
         /\ \A i \in 1..Len(t) : (s \o t)[Len(s) + i] = t[i] /\ t[i] \in A
OBVIOUS

(* The numbers W gives the entries of a list.                              *)
Weighed(W, s) == [j \in DOMAIN s |-> W[s[j]]]

LEMMA WeighedType ==
  ASSUME NEW A, NEW W \in [A -> Int], NEW s \in Seq(A)
  PROVE  Weighed(W, s) \in Seq(Int) /\ Len(Weighed(W, s)) = Len(s) /\ Total(Weighed(W, s)) \in Int
<1>1. Weighed(W, s) \in Seq(Int) /\ Len(Weighed(W, s)) = Len(s)
  BY DEF Weighed
<1> QED
  BY <1>1, TotalType

LEMMA WeighedConcat ==
  ASSUME NEW A, NEW W \in [A -> Int], NEW s \in Seq(A), NEW t \in Seq(A)
  PROVE  Total(Weighed(W, s \o t)) = Total(Weighed(W, s)) + Total(Weighed(W, t))
<1>1. Weighed(W, s) \in Seq(Int) /\ Weighed(W, t) \in Seq(Int)
  BY WeighedType
<1>2. Weighed(W, s \o t) = Weighed(W, s) \o Weighed(W, t)
  <2> DEFINE m == Len(s)
             n == Len(t)
             u == s \o t
             v == Weighed(W, s) \o Weighed(W, t)
             w == Weighed(W, u)
  <2>1. /\ u \in Seq(A) /\ m \in Nat /\ n \in Nat /\ Len(u) = m + n
        /\ \A i \in 1..m : u[i] = s[i]
        /\ \A i \in 1..n : u[m + i] = t[i]
    OBVIOUS
  <2>2. /\ Len(Weighed(W, s)) = m /\ Len(Weighed(W, t)) = n
        /\ \A i \in 1..m : Weighed(W, s)[i] = W[s[i]]
        /\ \A i \in 1..n : Weighed(W, t)[i] = W[t[i]]
    BY DEF Weighed
  <2>3. /\ v \in Seq(Int) /\ Len(v) = m + n
        /\ \A i \in 1..m : v[i] = W[s[i]]
        /\ \A i \in 1..n : v[m + i] = W[t[i]]
    <3> DEFINE a == Weighed(W, s)
               b == Weighed(W, t)
    <3>1. a \in Seq(Int) /\ b \in Seq(Int) /\ Len(a) = m /\ Len(b) = n
      BY <1>1, <2>2
    <3> HIDE DEF a, b
    <3>2. /\ a \o b \in Seq(Int) /\ Len(a \o b) = m + n
          /\ \A i \in 1..m : (a \o b)[i] = a[i]
          /\ \A i \in 1..n : (a \o b)[m + i] = b[i]
      <4>1. a \in Seq(Int) /\ b \in Seq(Int)
        BY <3>1
      <4>2. /\ a \o b \in Seq(Int) /\ Len(a \o b) = Len(a) + Len(b)
            /\ \A i \in 1..Len(a) : (a \o b)[i] = a[i]
            /\ \A i \in 1..Len(b) : (a \o b)[Len(a) + i] = b[i]
        BY ONLY <4>1, ConcatPlaces
      <4> HIDE DEF m, n
      <4>3. Len(a) = m /\ Len(b) = n
        BY <3>1
      <4> QED
        BY ONLY <4>2, <4>3, Zenon
    <3> HIDE DEF m, n
    <3> QED
      BY <2>2, <3>2 DEF a, b
  <2>4. w \in Seq(Int) /\ Len(w) = m + n
    <3> HIDE DEF u
    <3> QED
      BY <2>1, WeighedType
  <2>5. \A i \in 1..(m + n) : w[i] = W[u[i]]
    <3>1. DOMAIN u = 1..(m + n)
      BY <2>1
    <3> HIDE DEF u
    <3> QED
      BY <3>1 DEF Weighed
  <2> HIDE DEF u, v, w, m, n
  <2>6. \A i \in 1..(m + n) : w[i] = v[i]
    <3>1. ASSUME NEW i \in 1..(m + n), i <= m
          PROVE  w[i] = v[i]
      <4>1. i \in 1..m
        BY <2>1, <3>1
      <4> QED
        BY <2>1, <2>3, <2>5, <4>1
    <3>2. ASSUME NEW i \in 1..(m + n), ~(i <= m)
          PROVE  w[i] = v[i]
      <4>1. i - m \in 1..n /\ m + (i - m) = i
        BY <2>1, <3>2
      <4>2. u[m + (i - m)] = t[i - m] /\ v[m + (i - m)] = W[t[i - m]]
        BY <2>1, <2>3, <4>1
      <4> QED
        BY <2>5, <4>1, <4>2
    <3> QED
      BY <3>1, <3>2
  <2>7. w = v
    BY <2>3, <2>4, <2>6, SeqEqual
  <2> QED
    BY <2>7 DEF u, v, w
<1> QED
  BY <1>1, <1>2, TotalConcat

LEMMA WeighedAppend ==
  ASSUME NEW A, NEW W \in [A -> Int], NEW s \in Seq(A), NEW x \in A
  PROVE  Total(Weighed(W, Append(s, x))) = Total(Weighed(W, s)) + W[x]
<1>1. Append(s, x) = s \o <<x>> /\ <<x>> \in Seq(A)
  OBVIOUS
<1>2. Weighed(W, <<x>>) = <<W[x]>>
  BY DEF Weighed
<1>3. Total(<<W[x]>>) = W[x]
  <2>1. W[x] \in Int
    OBVIOUS
  <2> QED
    BY <2>1, TotalOne
<1>4. Total(Weighed(W, s \o <<x>>)) = Total(Weighed(W, s)) + Total(Weighed(W, <<x>>))
  BY <1>1, WeighedConcat
<1> QED
  BY <1>1, <1>2, <1>3, <1>4, Zenon

(* The entries kept are those at the places asked for, and no others.      *)
LEMMA KeptRange ==
  ASSUME NEW A, NEW s, s \in Seq(A), NEW I
  PROVE  /\ Kept(s, I) \in Seq(A)
         /\ Range(Kept(s, I)) = {s[i] : i \in {j \in 1..Len(s) : j \in I}}
<1> DEFINE n == Len(s)
           First(k) == {s[i] : i \in {j \in 1..k : j \in I}}
<1>1. n \in Nat /\ \A i \in 1..n : s[i] \in A
  OBVIOUS
<1>2. PICK f \in [0..n -> Seq(A)] :
        /\ f[0] = <<>> /\ Kept(s, I) = f[n]
        /\ \A i \in 1..n : f[i] = IF i \in I THEN Append(f[i - 1], s[i]) ELSE f[i - 1]
  BY KeptLoop
<1> HIDE DEF n
<1> DEFINE T == {k \in 0..n : Range(f[k]) = First(k)}
<1>3. 0 \in T /\ T \in SUBSET (0..n)
  <2>1. Range(f[0]) = {} /\ First(0) = {}
    BY <1>2 DEF Range
  <2> QED
    BY <1>1, <2>1
<1>4. ASSUME NEW k \in 0..(n - 1), k \in T
      PROVE  k + 1 \in T
  <2>1. /\ k + 1 \in 1..n /\ k + 1 \in 0..n /\ k \in 0..n /\ (k + 1) - 1 = k
        /\ Range(f[k]) = First(k) /\ f[k] \in Seq(A) /\ s[k + 1] \in A
    BY <1>1, <1>2, <1>4
  <2>2. f[k + 1] = IF k + 1 \in I THEN Append(f[k], s[k + 1]) ELSE f[k]
    BY <1>2, <2>1
  <2>3. \A i : i \in 1..(k + 1) <=> i \in 1..k \/ i = k + 1
    BY <2>1
  <2>4. First(k + 1) = First(k) \cup (IF k + 1 \in I THEN {s[k + 1]} ELSE {})
    BY <2>3
  <2>5. Range(Append(f[k], s[k + 1])) = Range(f[k]) \cup {s[k + 1]}
    <3> DEFINE g == f[k]
               x == s[k + 1]
    <3>1. g \in Seq(A) /\ x \in A
      BY <2>1
    <3> HIDE DEF g, x
    <3>2. /\ Len(g) \in Nat /\ DOMAIN g = 1..Len(g) /\ DOMAIN Append(g, x) = 1..(Len(g) + 1)
          /\ \A i \in 1..Len(g) : Append(g, x)[i] = g[i]
          /\ Append(g, x)[Len(g) + 1] = x
      BY <3>1
    <3>3. \A i : i \in 1..(Len(g) + 1) <=> i \in 1..Len(g) \/ i = Len(g) + 1
      BY <3>2
    <3>4. Range(Append(g, x)) = Range(g) \cup {x}
      BY ONLY <3>2, <3>3, Zenon DEF Range
    <3> QED
      BY <3>4 DEF g, x
  <2> HIDE DEF First
  <2>6. Range(f[k + 1]) = First(k + 1)
    BY <2>1, <2>2, <2>4, <2>5
  <2> QED
    BY <2>1, <2>6
<1>5. T = 0..n
  <2> HIDE DEF T
  <2> QED
    BY <1>1, <1>3, <1>4, Counting
<1>6. Range(f[n]) = First(n)
  <2>1. n \in T
    <3> HIDE DEF T
    <3> QED
      BY <1>1, <1>5
  <2> QED
    BY <2>1
<1>7. f[n] \in Seq(A)
  BY <1>1
<1> QED
  BY <1>2, <1>6, <1>7 DEF n

LEMMA RangeTyped ==
  ASSUME NEW A, NEW B, NEW s \in Seq(A), Range(s) \subseteq B
  PROVE  s \in Seq(B)
<1>1. Len(s) \in Nat /\ s \in [1..Len(s) -> A]
  OBVIOUS
<1>2. \A i \in 1..Len(s) : s[i] \in B
  BY <1>1 DEF Range
<1>3. s \in [1..Len(s) -> B]
  BY <1>1, <1>2
<1> QED
  BY <1>1, <1>3, SeqDef

(* What W gives the entries kept, it gives the list with the others left   *)
(* out.                                                                    *)
Left(W, s, I) == [i \in 1..Len(s) |-> IF i \in I THEN W[s[i]] ELSE 0]

LEMMA KeptTotal ==
  ASSUME NEW A, NEW W, NEW s, W \in [A -> Int], s \in Seq(A), NEW I
  PROVE  Total(Weighed(W, Kept(s, I))) = Total(Left(W, s, I))
<1> DEFINE n == Len(s)
           t == [i \in 1..n |-> IF i \in I THEN W[s[i]] ELSE 0]
<1>1. n \in Nat /\ (\A i \in 1..n : s[i] \in A /\ W[s[i]] \in Int) /\ <<>> \in Seq(A)
  OBVIOUS
<1>2. PICK f : f \in [0..n -> Seq(A)] /\
        /\ f[0] = <<>> /\ Kept(s, I) = f[n]
        /\ \A i \in 1..n : f[i] = IF i \in I THEN Append(f[i - 1], s[i]) ELSE f[i - 1]
  BY KeptLoop
<1>3. t \in Seq(Int) /\ Len(t) = n
  BY <1>1
<1>4. \A i \in 1..n : t[i] = IF i \in I THEN W[s[i]] ELSE 0
  OBVIOUS
<1> HIDE DEF n, t
<1>5. PICK g : Sums(g, t, n) /\ Total(t) = g[n]
  BY <1>3, TotalLoop
<1> DEFINE T == {k \in 0..n : Total(Weighed(W, f[k])) = g[k]}
<1>6. 0 \in T /\ T \in SUBSET (0..n)
  <2>1. Weighed(W, <<>>) = <<>>
    BY DEF Weighed
  <2> QED
    BY <1>1, <1>2, <1>5, <2>1, TotalEmpty DEF Sums
<1>7. ASSUME NEW k \in 0..(n - 1), k \in T
      PROVE  k + 1 \in T
  <2>1. /\ k + 1 \in 1..n /\ k + 1 \in 0..n /\ k \in 0..n /\ (k + 1) - 1 = k
        /\ Total(Weighed(W, f[k])) = g[k]
    BY <1>1, <1>7
  <2>2. f[k] \in Seq(A) /\ g[k] \in Int /\ s[k + 1] \in A
    BY <1>1, <1>2, <1>5, <2>1 DEF Sums
  <2>3. /\ f[k + 1] = IF k + 1 \in I THEN Append(f[k], s[k + 1]) ELSE f[k]
        /\ g[k + 1] = g[k] + t[k + 1]
        /\ t[k + 1] = IF k + 1 \in I THEN W[s[k + 1]] ELSE 0
    BY <1>2, <1>4, <1>5, <2>1 DEF Sums
  <2>4. Total(Weighed(W, Append(f[k], s[k + 1]))) = Total(Weighed(W, f[k])) + W[s[k + 1]]
    BY ONLY <2>2, W \in [A -> Int], WeighedAppend
  <2>5. Total(Weighed(W, f[k + 1])) = g[k + 1]
    BY ONLY <2>1, <2>2, <2>3, <2>4
  <2> QED
    BY <2>1, <2>5
<1>8. T = 0..n
  <2> HIDE DEF T
  <2> QED
    BY <1>1, <1>6, <1>7, Counting
<1>9. Total(Weighed(W, f[n])) = g[n]
  <2>1. n \in T
    <3> HIDE DEF T
    <3> QED
      BY <1>1, <1>8
  <2> QED
    BY <2>1
<1> QED
  BY <1>2, <1>5, <1>9 DEF n, t, Left

-----------------------------------------------------------------------------
(* Details                                                                 *)

(* A quotient is rounded to the nearest whole number.                      *)
LEMMA NearestQuotient ==
  ASSUME NEW num \in Int, NEW den \in Nat \ {0}, NEW p, p = RoundHalfUpWon(num, den)
  PROVE  p \in Int /\ 2 * (num - den * p) <= den /\ 2 * (den * p - num) <= den
<1> DEFINE a == 2 * num + den
           b == 2 * den
<1>1. a \in Int /\ b \in Nat \ {0} /\ p = a \div b
  BY DEF RoundHalfUpWon
<1> HIDE DEF a, b
<1>2. p \in Int /\ b * p <= a /\ a < b * p + b
  BY <1>1
<1>3. b * p = 2 * (den * p)
  BY <1>2 DEF b
<1>4. den * p \in Int
  BY <1>2
<1> QED
  BY <1>2, <1>3, <1>4 DEF a, b

(* An item of split_details, and a detail made from it: the amount is that *)
(* of the shares at their price, up to the rounding of the price.          *)
GoodItem(x) ==
  /\ x.exec_qty \in Nat \ {0} /\ x.exec_price \in Int /\ x.exec_amount \in Int
  /\ (x.exec_price > 0 /\ x.exec_amount > 0) =>
       /\ 2 * (x.exec_amount - x.exec_qty * x.exec_price) <= x.exec_qty
       /\ 2 * (x.exec_qty * x.exec_price - x.exec_amount) <= x.exec_qty

GoodDetail(d) ==
  /\ d.qty \in Nat \ {0} /\ d.price \in Int /\ d.amount \in Int
  /\ 2 * (d.amount - d.qty * d.price) <= d.qty
  /\ 2 * (d.qty * d.price - d.amount) <= d.qty

GoodItems(s) == s \in Seq(Range(s)) /\ s # <<>> /\ \A x \in Range(s) : GoodItem(x)
GoodDetails(s) == s \in Seq(Range(s)) /\ s # <<>> /\ \A d \in Range(s) : GoodDetail(d)

(* The shares of an execution that has details.                            *)
ItemShares(s) == Total([i \in DOMAIN s |-> s[i].exec_qty])

LEMMA DetailMade ==
  ASSUME NEW x, GoodItem(x), NEW e, NEW d, d = DetailFromSplit(x, e)
  PROVE  GoodDetail(d) /\ d.qty = x.exec_qty
<1> DEFINE q == x.exec_qty
           price == IF x.exec_price > 0 THEN x.exec_price
                    ELSE IF x.exec_amount > 0 THEN RoundHalfUpWon(x.exec_amount, q)
                    ELSE 0
<1>1. /\ d.qty = q /\ d.price = price
      /\ d.amount = IF x.exec_amount > 0 THEN x.exec_amount ELSE q * price
  BY DEF DetailFromSplit
<1>2. q \in Nat \ {0} /\ x.exec_price \in Int /\ x.exec_amount \in Int
  BY DEF GoodItem
<1>3. x.exec_price > 0 /\ x.exec_amount > 0 =>
        /\ 2 * (x.exec_amount - q * x.exec_price) <= q
        /\ 2 * (q * x.exec_price - x.exec_amount) <= q
  BY DEF GoodItem
<1> DEFINE r == RoundHalfUpWon(x.exec_amount, q)
<1>4. r \in Int /\ 2 * (x.exec_amount - q * r) <= q /\ 2 * (q * r - x.exec_amount) <= q
  <2> HIDE DEF q
  <2> QED
    BY <1>2, NearestQuotient
<1>5. /\ price \in Int
      /\ x.exec_amount > 0 =>
           2 * (x.exec_amount - q * price) <= q /\ 2 * (q * price - x.exec_amount) <= q
  <2>1. CASE x.exec_price > 0
    BY <1>2, <1>3, <2>1
  <2>2. CASE ~(x.exec_price > 0) /\ x.exec_amount > 0
    <3>1. price = r
      BY <2>2
    <3> HIDE DEF price, r, q
    <3> QED
      BY <1>4, <3>1
  <2>3. CASE ~(x.exec_price > 0) /\ ~(x.exec_amount > 0)
    BY <2>3
  <2> QED
    BY <2>1, <2>2, <2>3
<1> HIDE DEF q, price, r
<1>6. q * price \in Int
  BY <1>2, <1>5
<1>7. CASE x.exec_amount > 0
  BY <1>1, <1>2, <1>5, <1>7 DEF GoodDetail, q
<1>8. CASE ~(x.exec_amount > 0)
  BY <1>1, <1>2, <1>5, <1>6, <1>8 DEF GoodDetail, q
<1> QED
  BY <1>7, <1>8

(* An execution with items has details of the same shares.                 *)
LEMMA DetailsMade ==
  ASSUME NEW e, GoodItems(e.split_details), NEW ds, ds = BuildDetails(e)
  PROVE  GoodDetails(ds) /\ Total(Quantities(ds)) = ItemShares(e.split_details)
<1> DEFINE s == e.split_details
           A == Range(s)
           I == {i \in DOMAIN s : Traded(s[i])}
           items == Kept(s, I)
           W == [x \in A |-> x.exec_qty]
<1>1. s \in Seq(A) /\ s # <<>> /\ \A x \in A : GoodItem(x)
  BY DEF GoodItems
<1>2. Len(s) \in Nat /\ DOMAIN s = 1..Len(s) /\ Len(s) > 0
  BY <1>1
<1>3. \A i \in 1..Len(s) : s[i] \in A /\ s[i].exec_qty \in Nat \ {0}
  BY <1>1, <1>2 DEF Range, GoodItem
<1>4. \A i \in 1..Len(s) : i \in I
  BY <1>2, <1>3 DEF Traded
<1>5. W \in [A -> Int]
  BY <1>1 DEF GoodItem
<1> HIDE DEF I, A
<1>6. items \in Seq(A) /\ Range(items) = {s[i] : i \in {j \in 1..Len(s) : j \in I}}
  BY <1>1, KeptRange
<1>7. items # <<>> /\ Len(items) \in Nat /\ DOMAIN items = 1..Len(items)
  <2>1. s[1] \in Range(items)
    BY <1>2, <1>4, <1>6
  <2>2. Range(<<>>) = {}
    BY DEF Range
  <2> HIDE DEF items
  <2>3. items # <<>>
    BY ONLY <2>1, <2>2, Zenon
  <2>4. Len(items) \in Nat /\ DOMAIN items = 1..Len(items)
    BY <1>6, LenProperties
  <2> QED
    BY <2>3, <2>4
<1>8. \A i \in 1..Len(items) : items[i] \in A /\ GoodItem(items[i])
  <2> HIDE DEF items
  <2> QED
    BY <1>1, <1>6, <1>7
<1>9. ds = [i \in DOMAIN items |-> DetailFromSplit(items[i], e)]
  BY <1>7 DEF BuildDetails, I
<1>10. Total(Weighed(W, items)) = Total(Left(W, s, I))
  <2> HIDE DEF W
  <2> QED
    BY <1>1, <1>5, KeptTotal
<1>11. Left(W, s, I) = [i \in DOMAIN s |-> s[i].exec_qty]
  BY <1>2, <1>3, <1>4 DEF Left
<1> HIDE DEF items
<1>12. \A i \in 1..Len(items) : GoodDetail(ds[i]) /\ ds[i].qty = items[i].exec_qty
  BY <1>7, <1>8, <1>9, DetailMade
<1>13. Quantities(ds) = Weighed(W, items)
  BY <1>7, <1>8, <1>9, <1>12 DEF Quantities, Weighed
<1>14. GoodDetails(ds)
  <2>1. Len(ds) = Len(items) /\ DOMAIN ds = 1..Len(items)
    BY <1>7, <1>9
  <2>2. \A i \in 1..Len(items) : ds[i] \in Range(ds)
    BY <2>1 DEF Range
  <2>3. \A d \in Range(ds) : GoodDetail(d)
    BY <1>12, <2>1 DEF Range
  <2>4. ds # <<>>
    BY <1>7, <2>1
  <2>5. ds \in Seq(Range(ds))
    <3>1. ds \in [1..Len(items) -> Range(ds)]
      BY <1>7, <1>9, <2>1, <2>2
    <3> QED
      BY <1>7, <3>1, SeqDef
  <2> QED
    BY <2>3, <2>4, <2>5 DEF GoodDetails
<1> QED
  BY <1>10, <1>11, <1>13, <1>14 DEF ItemShares

(* The price and the amount of a trade are at most a won a share apart.    *)
LEMMA MetricsAgree ==
  ASSUME NEW ds, GoodDetails(ds), NEW t, t = RecomputeMetrics(ds)
  PROVE  /\ t.qty \in Nat \ {0} /\ t.price \in Int /\ t.amount \in Int
         /\ t.amount - t.price * t.qty <= t.qty
         /\ t.price * t.qty - t.amount <= t.qty
<1> DEFINE a == Amounts(ds)
           b == Values(ds)
           q == Quantities(ds)
           n == Len(ds)
<1>1. n \in Nat /\ n > 0 /\ DOMAIN ds = 1..n
  BY DEF GoodDetails
<1>2. \A i \in 1..n : GoodDetail(ds[i])
  BY <1>1 DEF GoodDetails, Range
<1>3. \A i \in 1..n : /\ ds[i].qty \in Int /\ ds[i].amount \in Int /\ ds[i].price \in Int
                      /\ ds[i].qty > 0
  BY <1>2 DEF GoodDetail
<1>4. \A i \in 1..n : ds[i].qty * ds[i].price \in Int
  BY <1>3
<1>5. /\ a \in Seq(Int) /\ b \in Seq(Int) /\ q \in Seq(Int)
      /\ Len(a) = n /\ Len(b) = n /\ Len(q) = n
      /\ \A i \in 1..n : /\ a[i] = ds[i].amount /\ q[i] = ds[i].qty
                         /\ b[i] = ds[i].qty * ds[i].price
  <2> HIDE DEF n
  <2> QED
    BY <1>1, <1>3, <1>4 DEF Amounts, Values, Quantities
<1>6. \A i \in 1..n : q[i] > 0 /\ 2 * (a[i] - b[i]) <= q[i] /\ 2 * (b[i] - a[i]) <= q[i]
  <2> HIDE DEF n, a, b, q
  <2> QED
    BY <1>2, <1>3, <1>5 DEF GoodDetail
<1> HIDE DEF a, b, q, n
<1>7. /\ 2 * (Total(a) - Total(b)) <= Total(q) /\ 2 * (Total(b) - Total(a)) <= Total(q)
      /\ Total(q) > 0
  BY <1>1, <1>5, <1>6, TotalNear
<1>8. Total(a) \in Int /\ Total(b) \in Int /\ Total(q) \in Int
  BY <1>5, TotalType
<1> DEFINE A == Total(a)
           B == Total(b)
           Q == Total(q)
           p == RoundHalfUpWon(B, Q)
<1>9. t.qty = Q /\ t.price = p /\ t.amount = A
  BY DEF RecomputeMetrics, a, b, q
<1> HIDE DEF A, B, Q
<1>10. Q \in Nat \ {0} /\ A \in Int /\ B \in Int /\ 2 * (A - B) <= Q /\ 2 * (B - A) <= Q
  BY <1>7, <1>8 DEF A, B, Q
<1>11. p \in Int /\ 2 * (B - Q * p) <= Q /\ 2 * (Q * p - B) <= Q
  BY <1>10, NearestQuotient
<1> HIDE DEF p
<1>12. Q * p \in Int /\ p * Q = Q * p
  BY <1>10, <1>11
<1> QED
  BY <1>9, <1>10, <1>11, <1>12

-----------------------------------------------------------------------------
(* Trades                                                                  *)

(* The trades that can come of the executions es.                          *)
DetailsIn(es) == UNION {Range(BuildDetails(es[i])) : i \in DOMAIN es}
TradesIn(es) ==
  {[side |-> InferSide(es[i].order_type), name |-> es[j].stock_name, details |-> ds,
    total |-> RecomputeMetrics(ds)] :
     i \in DOMAIN es, j \in DOMAIN es, ds \in Seq(DetailsIn(es)) \ {<<>>}}
KeysIn(es, root) == {TradeReasonKey(es[i], root) : i \in DOMAIN es}
BooksIn(es, root) == UNION {[K -> TradesIn(es)] : K \in SUBSET KeysIn(es, root)}

LEMMA TradeIn ==
  ASSUME NEW es, NEW t \in TradesIn(es)
  PROVE  /\ t.details \in Seq(DetailsIn(es)) /\ t.details # <<>>
         /\ t.total = RecomputeMetrics(t.details)
         /\ \E i \in DOMAIN es : t.side = InferSide(es[i].order_type)
         /\ \E j \in DOMAIN es : t.name = es[j].stock_name
BY DEF TradesIn

LEMMA BookIn ==
  ASSUME NEW es, NEW root, NEW b
  PROVE  b \in BooksIn(es, root) <=>
           \E K \in SUBSET KeysIn(es, root) : b \in [K -> TradesIn(es)]
BY DEF BooksIn

(* What one execution with key x does to the trades b.                     *)
Added(b, c, x, ds, side) ==
  /\ side = "none" => c = b
  /\ side # "none" =>
       /\ DOMAIN c = DOMAIN b \cup {x}
       /\ \A y \in DOMAIN b : y # x => c[y] = b[y]
       /\ x \notin DOMAIN b => c[x].details = ds /\ c[x].side = side
       /\ x \in DOMAIN b => c[x].details = b[x].details \o ds /\ c[x].side = b[x].side

LEMMA AddTold ==
  ASSUME NEW es, NEW root, NEW b \in BooksIn(es, root), NEW i \in DOMAIN es,
         GoodItems(es[i].split_details),
         NEW r, r = AddExecution(b, es[i], root), NEW key, key = TradeReasonKey(es[i], root),
         NEW ds, ds = BuildDetails(es[i])
  PROVE  /\ r \in BooksIn(es, root) /\ GoodDetails(ds) /\ ds \in Seq(DetailsIn(es))
         /\ Added(b, r, key, ds, InferSide(es[i].order_type))
<1> DEFINE e == es[i]
           side == InferSide(e.order_type)
           merged == IF key \in DOMAIN b THEN b[key].details \o ds ELSE ds
           was == IF key \in DOMAIN b THEN [side |-> b[key].side, name |-> b[key].name]
                  ELSE [side |-> side, name |-> e.stock_name]
           new == [side |-> was.side, name |-> was.name, details |-> merged,
                   total |-> RecomputeMetrics(merged)]
           added == [k \in DOMAIN b \cup {key} |-> IF k # key THEN b[k] ELSE new]
<1>1. GoodDetails(ds)
  BY DetailsMade
<1>2. ds \in Seq(DetailsIn(es)) /\ ds # <<>>
  <2>1. ds \in Seq(Range(ds)) /\ Range(ds) \subseteq DetailsIn(es) /\ ds # <<>>
    BY <1>1 DEF GoodDetails, DetailsIn
  <2> QED
    BY <2>1, SeqMonotonic
<1>3. r = IF side = "none" THEN b ELSE added
  BY <1>2, Zenon DEF AddExecution
<1>4. PICK K \in SUBSET KeysIn(es, root) : b \in [K -> TradesIn(es)]
  BY BookIn
<1>5. key \in KeysIn(es, root)
  BY DEF KeysIn
<1>6. merged \in Seq(DetailsIn(es)) /\ merged # <<>>
  <2>1. CASE key \in DOMAIN b
    <3>1. b[key] \in TradesIn(es)
      BY <1>4, <2>1
    <3>2. b[key].details \in Seq(DetailsIn(es))
      BY <3>1, TradeIn
    <3> DEFINE old == b[key].details
    <3>3. old \o ds \in Seq(DetailsIn(es)) /\ old \o ds # <<>>
      <4> HIDE DEF old
      <4> QED
        BY <1>2, <3>2 DEF old
    <3> QED
      BY <2>1, <3>3
  <2>2. CASE key \notin DOMAIN b
    BY <1>2, <2>2
  <2> QED
    BY <2>1, <2>2
<1>7. /\ was.side = IF key \in DOMAIN b THEN b[key].side ELSE side
      /\ was.name = IF key \in DOMAIN b THEN b[key].name ELSE e.stock_name
  OBVIOUS
<1>8. /\ \E x \in DOMAIN es : was.side = InferSide(es[x].order_type)
      /\ \E x \in DOMAIN es : was.name = es[x].stock_name
  <2>1. key \in DOMAIN b => b[key] \in TradesIn(es)
    BY <1>4
  <2>2. key \in DOMAIN b => /\ \E x \in DOMAIN es : b[key].side = InferSide(es[x].order_type)
                            /\ \E x \in DOMAIN es : b[key].name = es[x].stock_name
    BY <2>1, TradeIn
  <2> HIDE DEF was
  <2> QED
    BY <1>7, <2>2
<1>9. new.details = merged /\ new.side = was.side
  OBVIOUS
<1> HIDE DEF merged, was
<1>10. new \in TradesIn(es)
  <2>1. PICK x \in DOMAIN es : was.side = InferSide(es[x].order_type)
    BY <1>8
  <2>2. PICK y \in DOMAIN es : was.name = es[y].stock_name
    BY <1>8
  <2>3. new = [side |-> InferSide(es[x].order_type), name |-> es[y].stock_name,
               details |-> merged, total |-> RecomputeMetrics(merged)]
    BY <2>1, <2>2
  <2>4. merged \in Seq(DetailsIn(es)) \ {<<>>}
    BY <1>6
  <2> HIDE DEF new
  <2>5. \E p \in DOMAIN es, q \in DOMAIN es, s \in Seq(DetailsIn(es)) \ {<<>>} :
          new = [side |-> InferSide(es[p].order_type), name |-> es[q].stock_name,
                 details |-> s, total |-> RecomputeMetrics(s)]
    BY <2>3, <2>4, Zenon
  <2> QED
    BY <2>5 DEF TradesIn
<1> HIDE DEF new
<1>11. added \in BooksIn(es, root)
  <2>1. added \in [K \cup {key} -> TradesIn(es)]
    BY <1>4, <1>10
  <2>2. K \cup {key} \in SUBSET KeysIn(es, root)
    BY <1>5
  <2> HIDE DEF added
  <2> QED
    BY <2>1, <2>2, BookIn
<1>12. /\ DOMAIN added = DOMAIN b \cup {key} /\ added[key] = new
       /\ \A k \in DOMAIN b : k # key => added[k] = b[k]
  OBVIOUS
<1> HIDE DEF added
<1>13. /\ key \in DOMAIN b => merged = b[key].details \o ds
       /\ key \notin DOMAIN b => merged = ds
  BY DEF merged
<1> QED
  BY <1>1, <1>2, <1>3, <1>7, <1>9, <1>11, <1>12, <1>13 DEF Added

(* A payload of n executions, all of them with items.                      *)
IsPayload(payload, es, root, n) ==
  /\ es = payload.executions /\ root = payload.account_no
  /\ n \in Nat /\ Len(es) = n /\ DOMAIN es = 1..n
  /\ \A i \in 1..n : GoodItems(es[i].split_details)

(* The loop over the executions.                                           *)
LEMMA TradesLoop ==
  ASSUME NEW payload, NEW es, NEW root, NEW n, IsPayload(payload, es, root, n)
  PROVE  \E f : /\ f[0] = <<>> /\ ParseTrades(payload) = f[n]
                /\ \A i \in 0..n : f[i] \in BooksIn(es, root)
                /\ \A i \in 1..n : f[i] = AddExecution(f[i - 1], es[i], root)
<1> DEFINE V == BooksIn(es, root)
           step == [i \in 1..n |-> [x \in V |-> AddExecution(x, es[i], root)]]
           Is(f) == f = [i \in 0..n |-> IF i = 0 THEN <<>> ELSE AddExecution(f[i - 1], es[i], root)]
           trades == CHOOSE f : Is(f)
<1>0. /\ es = payload.executions /\ root = payload.account_no
      /\ n \in Nat /\ DOMAIN es = 1..n /\ Len(es) = n
      /\ \A i \in 1..n : GoodItems(es[i].split_details)
  BY DEF IsPayload
<1>1. <<>> \in V
  <2>1. <<>> \in [{} -> TradesIn(es)]
    OBVIOUS
  <2>2. {} \in SUBSET KeysIn(es, root)
    OBVIOUS
  <2> QED
    BY <2>1, <2>2, BookIn
<1>2. \A i \in 1..n, x \in V : AddExecution(x, es[i], root) \in V
  <2>1. ASSUME NEW i \in 1..n, NEW x \in V
        PROVE  AddExecution(x, es[i], root) \in V
    <3>1. i \in DOMAIN es /\ GoodItems(es[i].split_details)
      BY <1>0
    <3> QED
      BY <3>1, AddTold
  <2> QED
    BY <2>1
<1> HIDE DEF V
<1>3. IsLoop(n, V, <<>>, step)
  BY <1>0, <1>1, <1>2 DEF IsLoop
<1>4. \A i \in 1..n, x \in V : step[i][x] = AddExecution(x, es[i], root)
  OBVIOUS
<1>5. \A i \in 0..n : i # 0 => i \in 1..n /\ i - 1 \in 0..n
  BY <1>0
<1> HIDE DEF step
<1>6. PICK f : Computes(f, n, V, <<>>, step)
  BY <1>3, LoopExists
<1>7. Is(f)
  BY <1>0, <1>4, <1>5, <1>6 DEF Computes
<1> HIDE DEF Is
<1>8. Is(trades)
  BY <1>7
<1>9. ParseTrades(payload) = trades[n]
  BY <1>0 DEF ParseTrades, trades, Is
<1> HIDE DEF trades
<1> DEFINE made == [i \in 0..n |-> IF i = 0 THEN <<>> ELSE AddExecution(trades[i - 1], es[i], root)]
<1>10. /\ trades \in [0..n -> {made[i] : i \in 0..n}]
       /\ trades[0] = <<>>
       /\ \A i \in 1..n : trades[i] = AddExecution(trades[i - 1], es[i], root)
  <2>1. trades = made
    BY <1>8 DEF Is
  <2>2. made \in [0..n -> {made[i] : i \in 0..n}]
    OBVIOUS
  <2>3. 0 \in 0..n /\ \A i \in 1..n : i \in 0..n /\ i # 0
    BY <1>0
  <2>4. made[0] = <<>> /\ \A i \in 1..n : made[i] = AddExecution(trades[i - 1], es[i], root)
    BY <2>3
  <2> HIDE DEF made
  <2> QED
    BY <2>1, <2>2, <2>4
<1> HIDE DEF made
<1>11. \A i \in 1..n : trades[i - 1] \in V => trades[i] = step[i][trades[i - 1]]
  BY <1>4, <1>10
<1>12. Computes(trades, n, V, <<>>, step)
  BY <1>3, <1>10, <1>11, LoopIs
<1> QED
  BY <1>0, <1>9, <1>10, <1>12 DEF Computes, V

(* The sums of lists of details.                                           *)
LEMMA QuantitiesConcat ==
  ASSUME NEW A, NEW s, NEW t, s \in Seq(A), t \in Seq(A), \A d \in A : d.qty \in Int
  PROVE  Total(Quantities(s \o t)) = Total(Quantities(s)) + Total(Quantities(t))
<1> DEFINE W == [d \in A |-> d.qty]
<1>1. W \in [A -> Int]
  OBVIOUS
<1>2. ASSUME NEW u \in Seq(A)
      PROVE  Quantities(u) = Weighed(W, u)
  BY DEF Quantities, Weighed
<1>3. s \o t \in Seq(A)
  OBVIOUS
<1> HIDE DEF W
<1>4. Total(Weighed(W, s \o t)) = Total(Weighed(W, s)) + Total(Weighed(W, t))
  BY <1>1, WeighedConcat
<1> QED
  BY ONLY <1>2, <1>3, <1>4, s \in Seq(A), t \in Seq(A), Zenon

(* Execution i is of the trade of this key.                                *)
IsOf(es, root, key, i) ==
  InferSide(es[i].order_type) # "none" /\ TradeReasonKey(es[i], root) = key

SharesOf(es, root, key) ==
  [i \in DOMAIN es |-> IF IsOf(es, root, key, i) THEN ItemShares(es[i].split_details) ELSE 0]

(* The trade of a key is there when an execution is of it; it has their    *)
(* shares, the side of one of them, and a price and an amount that agree.  *)
LEMMA TradeTold ==
  ASSUME NEW payload, NEW es, NEW root, NEW n, IsPayload(payload, es, root, n),
         NEW key, NEW shown, shown = ParseTrades(payload)
  PROVE  /\ key \in DOMAIN shown <=> \E i \in 1..n : IsOf(es, root, key, i)
         /\ key \in DOMAIN shown =>
              /\ shown[key].total.qty = Total(SharesOf(es, root, key))
              /\ \E i \in 1..n : /\ IsOf(es, root, key, i)
                                 /\ shown[key].side = InferSide(es[i].order_type)
              /\ GoodDetails(shown[key].details)
              /\ shown[key].total = RecomputeMetrics(shown[key].details)
<1> DEFINE w == SharesOf(es, root, key)
           D == DetailsIn(es)
           Mine(i) == IsOf(es, root, key, i)
<1>0. n \in Nat /\ Len(es) = n /\ DOMAIN es = 1..n /\ \A i \in 1..n : GoodItems(es[i].split_details)
  BY DEF IsPayload
<1>1. PICK f : /\ f[0] = <<>> /\ shown = f[n]
               /\ \A i \in 0..n : f[i] \in BooksIn(es, root)
               /\ \A i \in 1..n : f[i] = AddExecution(f[i - 1], es[i], root)
  BY TradesLoop
<1>2. \A i \in 1..n : /\ i \in DOMAIN es /\ GoodItems(es[i].split_details)
                      /\ GoodDetails(BuildDetails(es[i]))
                      /\ BuildDetails(es[i]) \in Seq(D)
                      /\ Total(Quantities(BuildDetails(es[i]))) = ItemShares(es[i].split_details)
  <2>1. ASSUME NEW i \in 1..n
        PROVE  /\ i \in DOMAIN es /\ GoodItems(es[i].split_details)
               /\ GoodDetails(BuildDetails(es[i]))
               /\ Total(Quantities(BuildDetails(es[i]))) = ItemShares(es[i].split_details)
    BY <1>0, DetailsMade
  <2>2. ASSUME NEW i \in 1..n
        PROVE  BuildDetails(es[i]) \in Seq(D)
    <3>1. /\ BuildDetails(es[i]) \in Seq(Range(BuildDetails(es[i])))
          /\ Range(BuildDetails(es[i])) \subseteq D
      BY <2>1 DEF GoodDetails, DetailsIn
    <3> QED
      BY <3>1, SeqMonotonic
  <2> QED
    BY <2>1, <2>2
<1>3. \A d \in D : GoodDetail(d) /\ d.qty \in Int
  <2>1. ASSUME NEW d \in D
        PROVE  GoodDetail(d)
    <3>1. PICK i \in 1..n : d \in Range(BuildDetails(es[i]))
      BY <1>0 DEF DetailsIn
    <3>2. GoodDetails(BuildDetails(es[i]))
      BY <1>2
    <3> QED
      BY <3>1, <3>2 DEF GoodDetails
  <2>2. \A d : GoodDetail(d) => d.qty \in Int
    BY DEF GoodDetail
  <2> HIDE DEF D
  <2> QED
    BY <2>1, <2>2
<1>4. \A i \in 1..n : ItemShares(es[i].split_details) \in Int
  <2>1. ASSUME NEW i \in 1..n
        PROVE  ItemShares(es[i].split_details) \in Int
    <3> DEFINE ds == BuildDetails(es[i])
    <3>1. ds \in Seq(D)
      BY <1>2
    <3> HIDE DEF ds
    <3>2. Quantities(ds) \in Seq(Int)
      BY <1>3, <3>1 DEF Quantities
    <3>3. Total(Quantities(ds)) \in Int
      BY <3>2, TotalType
    <3> QED
      BY <1>2, <3>3 DEF ds
  <2> QED
    BY <2>1
<1>5. w \in Seq(Int) /\ Len(w) = n
  BY <1>0, <1>4 DEF SharesOf
<1>6. \A i \in 1..n : w[i] = IF Mine(i) THEN ItemShares(es[i].split_details) ELSE 0
  BY <1>0 DEF SharesOf
<1> HIDE DEF w, D, Mine
<1>7. PICK g : Sums(g, w, n) /\ Total(w) = g[n]
  BY <1>5, TotalLoop
<1> DEFINE Told(k) ==
             /\ key \in DOMAIN f[k] <=> \E i \in 1..k : Mine(i)
             /\ key \in DOMAIN f[k] =>
                  /\ Total(Quantities(f[k][key].details)) = g[k]
                  /\ \E i \in 1..k : Mine(i) /\ f[k][key].side = InferSide(es[i].order_type)
             /\ key \notin DOMAIN f[k] => g[k] = 0
           T == {k \in 0..n : Told(k)}
<1>8. 0 \in T /\ T \in SUBSET (0..n)
  <2>1. DOMAIN f[0] = {} /\ g[0] = 0
    BY <1>1, <1>7 DEF Sums
  <2> QED
    BY <1>0, <2>1
<1>9. ASSUME NEW k \in 0..(n - 1), k \in T
      PROVE  k + 1 \in T
  <2> DEFINE b == f[k]
             c == f[k + 1]
             e == es[k + 1]
             ds == BuildDetails(e)
             side == InferSide(e.order_type)
             x == TradeReasonKey(e, root)
  <2>1. /\ k + 1 \in 1..n /\ k + 1 \in 0..n /\ k \in 0..n /\ (k + 1) - 1 = k /\ Told(k)
        /\ \A i : i \in 1..(k + 1) <=> i \in 1..k \/ i = k + 1
    BY <1>0, <1>9
  <2>2. /\ k + 1 \in DOMAIN es /\ GoodItems(e.split_details) /\ b \in BooksIn(es, root)
        /\ c = AddExecution(b, e, root) /\ ds \in Seq(D)
        /\ Total(Quantities(ds)) = ItemShares(e.split_details)
    BY <1>1, <1>2, <2>1
  <2>3. g[k + 1] = g[k] + w[k + 1] /\ g[k] \in Int /\ w[k + 1] \in Int
    <3>1. w[k + 1] \in Int
      BY <1>4, <1>6, <2>1
    <3> QED
      BY <1>7, <2>1, <3>1 DEF Sums
  <2>4. Added(b, c, x, ds, side)
    <3> DEFINE j == k + 1
    <3>1. /\ j \in DOMAIN es /\ GoodItems(es[j].split_details) /\ b \in BooksIn(es, root)
          /\ c = AddExecution(b, es[j], root) /\ ds = BuildDetails(es[j])
          /\ side = InferSide(es[j].order_type) /\ x = TradeReasonKey(es[j], root)
      BY <2>2
    <3> HIDE DEF b, c, ds, side, x, j
    <3> QED
      BY ONLY <3>1, AddTold
  <2>5. Mine(k + 1) <=> side # "none" /\ x = key
    BY DEF Mine, IsOf
  <2>6. CASE ~Mine(k + 1)
    <3>1. w[k + 1] = 0 /\ g[k + 1] = g[k]
      BY <1>6, <2>1, <2>3, <2>6
    <3>2. (key \in DOMAIN c <=> key \in DOMAIN b) /\ (key \in DOMAIN b => c[key] = b[key])
      <4> HIDE DEF b, c, ds, side, x
      <4> QED
        BY <2>4, <2>5, <2>6 DEF Added
    <3>3. (\E i \in 1..(k + 1) : Mine(i)) <=> \E i \in 1..k : Mine(i)
      BY <2>1, <2>6
    <3>4. Told(k + 1)
      BY <2>1, <3>1, <3>2, <3>3
    <3> QED
      BY <2>1, <3>4
  <2>7. CASE Mine(k + 1)
    <3>1. w[k + 1] = ItemShares(e.split_details) /\ side # "none" /\ x = key
      BY <1>6, <2>1, <2>5, <2>7
    <3>2. key \in DOMAIN c
      <4> HIDE DEF b, c, ds, side, x
      <4> QED
        BY <2>4, <3>1 DEF Added
    <3>3. (\E i \in 1..(k + 1) : Mine(i))
      BY <2>1, <2>7
    <3>4. CASE key \notin DOMAIN b
      <4>1. g[k] = 0 /\ g[k + 1] = ItemShares(e.split_details)
        BY <2>1, <2>3, <3>1, <3>4
      <4>2. c[key].details = ds /\ c[key].side = side
        <5> HIDE DEF b, c, ds, side, x
        <5> QED
          BY <2>4, <3>1, <3>4 DEF Added
      <4>3. Total(Quantities(c[key].details)) = g[k + 1]
        BY <2>2, <4>1, <4>2
      <4> QED
        BY <2>1, <2>7, <3>2, <3>3, <4>2, <4>3
    <3>5. CASE key \in DOMAIN b
      <4>1. /\ Total(Quantities(b[key].details)) = g[k]
            /\ \E i \in 1..k : Mine(i) /\ b[key].side = InferSide(es[i].order_type)
        BY <2>1, <3>5
      <4>2. c[key].details = b[key].details \o ds /\ c[key].side = b[key].side
        <5> HIDE DEF b, c, ds, side, x
        <5> QED
          BY <2>4, <3>1, <3>5 DEF Added
      <4>3. b[key].details \in Seq(D)
        <5>1. b[key] \in TradesIn(es)
          <6> HIDE DEF b
          <6> QED
            BY <2>2, <3>5, BookIn
        <5> QED
          BY <5>1, TradeIn DEF D
      <4>4. Total(Quantities(c[key].details)) = Total(Quantities(b[key].details)) + Total(Quantities(ds))
        <5> HIDE DEF b, c, ds
        <5> QED
          BY <1>3, <2>2, <4>2, <4>3, QuantitiesConcat
      <4>5. Total(Quantities(c[key].details)) = g[k + 1]
        BY <2>2, <2>3, <3>1, <4>1, <4>4
      <4>6. \E i \in 1..(k + 1) : Mine(i) /\ c[key].side = InferSide(es[i].order_type)
        BY <2>1, <4>1, <4>2
      <4> QED
        BY <2>1, <3>2, <3>3, <4>5, <4>6
    <3> QED
      BY <3>4, <3>5
  <2> QED
    BY <2>6, <2>7
<1>10. T = 0..n
  <2> HIDE DEF T
  <2> QED
    BY <1>0, <1>8, <1>9, Counting
<1>11. Told(n) /\ f[n] \in BooksIn(es, root)
  <2>1. n \in T
    <3> HIDE DEF T
    <3> QED
      BY <1>0, <1>10
  <2> QED
    BY <1>1, <2>1
<1>12. ASSUME key \in DOMAIN shown
       PROVE  /\ GoodDetails(shown[key].details)
              /\ shown[key].total = RecomputeMetrics(shown[key].details)
  <2>1. shown[key] \in TradesIn(es)
    BY <1>1, <1>11, <1>12, BookIn
  <2> DEFINE ds == shown[key].details
  <2>2. ds \in Seq(D) /\ ds # <<>> /\ shown[key].total = RecomputeMetrics(ds)
    BY <2>1, TradeIn DEF D
  <2> HIDE DEF ds
  <2>3. ds \in Seq(Range(ds)) /\ Range(ds) \subseteq D
    <3>1. Range(ds) \subseteq D
      BY <2>2 DEF Range
    <3> QED
      BY <2>2, <3>1, RangeTyped
  <2> QED
    BY <1>3, <2>2, <2>3 DEF GoodDetails, ds
<1>13. key \in DOMAIN shown => shown[key].total.qty = Total(w)
  BY <1>1, <1>7, <1>11, <1>12 DEF RecomputeMetrics
<1> QED
  BY <1>1, <1>11, <1>12, <1>13 DEF Mine, w

=============================================================================
