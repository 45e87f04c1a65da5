---------------------------- MODULE MetricsProofs ----------------------------
(***************************************************************************)
(* Proofs about the summary and the trend that the Prometheus collector    *)
(* keeps of a series, for series and trends of any length.                 *)
(*                                                                         *)
(* The index arithmetic of downsample rests on one fact about integer      *)
(* division: it is the q with q * b <= a < (q + 1) * b.                    *)
(***************************************************************************)
EXTENDS Metrics, SelectionProofs

(* What integer division by a positive number is: the quotient's multiple  *)
(* is within one divisor below.                                            *)
LEMMA DivBounds ==
  ASSUME NEW a \in Nat, NEW b \in Nat, b > 0
  PROVE  /\ a \div b \in Nat
         /\ (a \div b) * b <= a
         /\ a < (a \div b + 1) * b
  OBVIOUS

(* ... and no other integer has that property.                             *)
LEMMA DivUnique ==
  ASSUME NEW a \in Nat, NEW b \in Nat, b > 0, NEW q \in Nat, q * b <= a, a < (q + 1) * b
  PROVE  a \div b = q
  OBVIOUS

(* Rounding keeps the order and yields integers.                           *)
LEMMA RoundMonotone ==
  ASSUME NEW u \in Int, NEW v \in Int, u <= v PROVE Round2(u) <= Round2(v)
  BY DEF Round2, RoundDiv

(* Rounding gives an integer number of hundredths.                         *)
LEMMA RoundIsInt == ASSUME NEW v \in Int PROVE Round2(v) \in Int
  BY DEF Round2, RoundDiv

-----------------------------------------------------------------------------
(* The picked positions lie in the series.                                 *)
LEMMA PickInRange ==
  ASSUME NEW len \in Nat, NEW n \in Nat, n > 1, len > 0, NEW i \in 1..n
  PROVE  Pick(len, n, i) \in 1..len
<1> DEFINE a == (i - 1) * (len - 1)
           b == n - 1
           q == a \div b
<1>1. b \in Nat /\ b > 0 /\ i - 1 \in Nat /\ len - 1 \in Nat /\ i - 1 <= b
  OBVIOUS
<1>2. a \in Nat
  BY <1>1
<1>3. a <= (len - 1) * b
  BY <1>1
<1>4. q \in Nat /\ q * b <= a
  BY <1>1, <1>2, DivBounds
<1>5. q * b <= (len - 1) * b
  <2> HIDE DEF a, q
  <2> QED BY <1>1, <1>2, <1>3, <1>4
<1>6. q <= len - 1
  <2> HIDE DEF a, b, q
  <2> QED BY <1>1, <1>4, <1>5
<1> QED BY <1>1, <1>4, <1>6 DEF Pick

(* The first and the last point of the series are picked.                  *)
LEMMA PickEnds ==
  ASSUME NEW len \in Nat, NEW n \in Nat, n > 1, len > 0
  PROVE  Pick(len, n, 1) = 1 /\ Pick(len, n, n) = len
<1> DEFINE b == n - 1
           m == len - 1
<1>1. b \in Nat /\ b > 0 /\ m \in Nat
  OBVIOUS
<1>2. Pick(len, n, 1) = 1
  <2>1. (1 - 1) * m = 0
    BY <1>1
  <2>2. 0 \div b = 0
    <3> HIDE DEF b
    <3> QED BY <1>1, DivUnique
  <2> QED BY <2>1, <2>2 DEF Pick
<1>3. Pick(len, n, n) = len
  <2>1. (b * m) \div b = m
    <3> HIDE DEF b, m
    <3>1. b * m \in Nat /\ m * b <= b * m /\ b * m < (m + 1) * b
      BY <1>1
    <3> QED BY <1>1, <3>1, DivUnique
  <2> QED BY <1>1, <2>1 DEF Pick
<1> QED BY <1>2, <1>3

(* No point is picked twice, and none out of order, when there are more    *)
(* than the trend keeps.                                                   *)
LEMMA PickAscends ==
  ASSUME NEW len \in Nat, NEW n \in Nat, n > 1, len >= n, NEW i \in 1..(n - 1)
  PROVE  Pick(len, n, i) < Pick(len, n, i + 1)
<1> DEFINE a == (i - 1) * (len - 1)
           b == n - 1
           m == len - 1
           q == a \div b
           r == (a + m) \div b
<1>1. b \in Nat /\ b > 0 /\ m \in Nat /\ m >= b
  OBVIOUS
<1>2. a \in Nat /\ a + m = ((i + 1) - 1) * (len - 1)
  OBVIOUS
<1>3. q \in Nat /\ q * b <= a
  BY <1>1, <1>2, DivBounds
<1>4. a + m \in Nat /\ r \in Nat /\ a + m < (r + 1) * b
  <2>1. a + m \in Nat
    BY <1>1, <1>2
  <2> HIDE DEF a, b, m
  <2> QED BY <1>1, <2>1, DivBounds
<1>5. q < r
  <2> HIDE DEF a, b, m, q, r
  <2>1. (q + 1) * b <= a + m
    BY <1>1, <1>2, <1>3
  <2>2. (q + 1) * b < (r + 1) * b
    BY <2>1, <1>1, <1>2, <1>3, <1>4
  <2> QED BY <2>2, <1>1, <1>3, <1>4
<1> QED BY <1>2, <1>3, <1>4, <1>5 DEF Pick

-----------------------------------------------------------------------------
(* The trend of a series has min(len, n) points, it starts with the first  *)
(* value and ends with the last, and keeps the order of the points: the    *)
(* positions it was taken from ascend strictly.                            *)
THEOREM TrendKeepsShape ==
  ASSUME NEW vals \in Seq(Int), vals # <<>>, NEW n \in Nat, n > 1
  PROVE  LET trend == Downsample(vals, n)
             size == IF Len(vals) <= n THEN Len(vals) ELSE n
         IN  /\ DOMAIN trend = 1..size
             /\ trend[1] = Round2(vals[1])
             /\ trend[size] = Round2(vals[Len(vals)])
             /\ \E from \in [1..size -> 1..Len(vals)] :
                  /\ \A i \in 1..size : trend[i] = Round2(vals[from[i]])
                  /\ \A i \in 1..(size - 1) : from[i] < from[i + 1]
<1> DEFINE len == Len(vals)
<1>1. len \in Nat /\ len > 0
  OBVIOUS
<1>2. CASE len <= n
  <2>1. Downsample(vals, n) = [i \in 1..len |-> Round2(vals[i])]
    BY <1>2 DEF Downsample
  <2> DEFINE from == [i \in 1..len |-> i]
  <2>2. from \in [1..len -> 1..len]
    OBVIOUS
  <2>3. \A i \in 1..len : Downsample(vals, n)[i] = Round2(vals[from[i]])
    BY <2>1
  <2>4. \A i \in 1..(len - 1) : from[i] < from[i + 1]
    BY <1>1
  <2>5. DOMAIN Downsample(vals, n) = 1..len
    BY <2>1
  <2>6. Downsample(vals, n)[1] = Round2(vals[1]) /\ Downsample(vals, n)[len] = Round2(vals[len])
    BY <1>1, <2>1
  <2> HIDE DEF from
  <2> QED BY <1>2, <2>2, <2>3, <2>4, <2>5, <2>6
<1>3. CASE ~(len <= n)
  <2>1. Downsample(vals, n) = [i \in 1..n |-> Round2(vals[Pick(len, n, i)])]
    BY <1>3 DEF Downsample
  <2> DEFINE from == [i \in 1..n |-> Pick(len, n, i)]
  <2>2. from \in [1..n -> 1..len]
    BY <1>1, PickInRange
  <2>3. \A i \in 1..n : Downsample(vals, n)[i] = Round2(vals[from[i]])
    BY <2>1
  <2>4. \A i \in 1..(n - 1) : from[i] < from[i + 1]
    <3> TAKE i \in 1..(n - 1)
    <3>1. Pick(len, n, i) < Pick(len, n, i + 1)
      BY <1>1, <1>3, PickAscends
    <3> QED BY <3>1
  <2>5. DOMAIN Downsample(vals, n) = 1..n
    BY <2>1
  <2>6. Downsample(vals, n)[1] = Round2(vals[1]) /\ Downsample(vals, n)[n] = Round2(vals[len])
    BY <1>1, <2>1, PickEnds
  <2> HIDE DEF from
  <2> QED BY <1>3, <2>2, <2>3, <2>4, <2>5, <2>6
<1> QED BY <1>2, <1>3

(* Nothing the trend shows lies outside of what bounds the series.         *)
THEOREM TrendWithinBounds ==
  ASSUME NEW vals \in Seq(Int), vals # <<>>, NEW n \in Nat, n > 1,
         NEW lo \in Int, NEW hi \in Int, \A i \in 1..Len(vals) : lo <= vals[i] /\ vals[i] <= hi
  PROVE  \A j \in DOMAIN Downsample(vals, n) :
           Round2(lo) <= Downsample(vals, n)[j] /\ Downsample(vals, n)[j] <= Round2(hi)
<1> DEFINE trend == Downsample(vals, n)
           size == IF Len(vals) <= n THEN Len(vals) ELSE n
<1>1. PICK from \in [1..size -> 1..Len(vals)] : \A i \in 1..size : trend[i] = Round2(vals[from[i]])
  BY TrendKeepsShape
<1>2. DOMAIN trend = 1..size
  BY TrendKeepsShape
<1> HIDE DEF trend, size
<1>3. ASSUME NEW j \in 1..size PROVE Round2(lo) <= trend[j] /\ trend[j] <= Round2(hi)
  <2>1. vals[from[j]] \in Int /\ lo <= vals[from[j]] /\ vals[from[j]] <= hi
    OBVIOUS
  <2> QED BY <2>1, <1>1, RoundMonotone
<1> QED BY <1>2, <1>3 DEF trend

-----------------------------------------------------------------------------
(* The mean.                                                               *)

(* f adds up the first m values.                                           *)
IsSum(f, vals, m) == f = [n \in 0..m |-> IF n = 0 THEN 0 ELSE f[n - 1] + vals[n]]

(* Such a function exists: one value more extends it.                      *)
LEMMA SumExists ==
  ASSUME NEW vals
  PROVE  \A m \in Nat : \E f : IsSum(f, vals, m)
<1> DEFINE S == {m \in Nat : \E f : IsSum(f, vals, m)}
<1>1. 0 \in S
  <2> DEFINE f == [n \in 0..0 |-> 0]
  <2>1. IsSum(f, vals, 0)
    BY DEF IsSum
  <2> QED BY <2>1
<1>2. ASSUME NEW m \in Nat, m \in S PROVE m + 1 \in S
  <2>1. PICK f : IsSum(f, vals, m)
    BY <1>2
  <2> DEFINE g == [n \in 0..m + 1 |-> IF n = m + 1 THEN f[m] + vals[m + 1] ELSE f[n]]
  <2>2. \A n \in 0..m : f[n] = IF n = 0 THEN 0 ELSE f[n - 1] + vals[n]
    BY <2>1 DEF IsSum
  <2>3. ASSUME NEW n \in 0..m + 1 PROVE g[n] = IF n = 0 THEN 0 ELSE g[n - 1] + vals[n]
    <3>1. CASE n = m + 1
      BY <3>1
    <3>2. CASE n # m + 1
      BY <3>2, <2>2
    <3> QED BY <3>1, <3>2
  <2>4. IsSum(g, vals, m + 1)
    <3>1. g = [n \in 0..m + 1 |-> g[n]]
      OBVIOUS
    <3> HIDE DEF g
    <3> QED BY <2>3, <3>1 DEF IsSum
  <2> QED BY <2>4
<1>3. Nat \subseteq S
  <2> HIDE DEF S
  <2> QED BY <1>1, <1>2, NatSetInduction
<1> QED BY <1>3

(* The sum lies between len times the least and len times the greatest.    *)
LEMMA SumWithinBounds ==
  ASSUME NEW vals \in Seq(Int), NEW lo \in Int, NEW hi \in Int,
         \A i \in 1..Len(vals) : lo <= vals[i] /\ vals[i] <= hi
  PROVE  /\ Sum(vals) \in Int
         /\ Len(vals) * lo <= Sum(vals) /\ Sum(vals) <= Len(vals) * hi
<1> DEFINE f == CHOOSE f : IsSum(f, vals, Len(vals))
<1>1. Len(vals) \in Nat /\ \A i \in 1..Len(vals) : vals[i] \in Int
  OBVIOUS
<1>2. IsSum(f, vals, Len(vals))
  BY <1>1, SumExists
<1>3. Sum(vals) = f[Len(vals)]
  BY DEF Sum, IsSum
<1> HIDE DEF f
<1>4. \A n \in 0..Len(vals) : f[n] = IF n = 0 THEN 0 ELSE f[n - 1] + vals[n]
  BY <1>2 DEF IsSum
<1> DEFINE N == {n \in Nat : n <= Len(vals) => f[n] \in Int /\ n * lo <= f[n] /\ f[n] <= n * hi}
<1>5. 0 \in N
  BY <1>1, <1>4
<1>6. ASSUME NEW n \in Nat, n \in N PROVE n + 1 \in N
  <2> SUFFICES ASSUME n + 1 <= Len(vals)
               PROVE  f[n + 1] \in Int /\ (n + 1) * lo <= f[n + 1] /\ f[n + 1] <= (n + 1) * hi
    OBVIOUS
  <2>1. n + 1 \in 0..Len(vals) /\ n + 1 \in 1..Len(vals) /\ n + 1 # 0 /\ (n + 1) - 1 = n
    BY <1>1
  <2>2. f[n + 1] = f[n] + vals[n + 1]
    BY <1>4, <2>1
  <2>3. f[n] \in Int /\ n * lo <= f[n] /\ f[n] <= n * hi
    BY <1>1, <1>6
  <2>4. vals[n + 1] \in Int /\ lo <= vals[n + 1] /\ vals[n + 1] <= hi
    BY <2>1
  <2>5. (n + 1) * lo = n * lo + lo /\ (n + 1) * hi = n * hi + hi /\ n * lo \in Int /\ n * hi \in Int
    OBVIOUS
  <2> HIDE DEF N
  <2> QED BY <2>2, <2>3, <2>4, <2>5
<1>7. Nat \subseteq N
  <2> HIDE DEF N
  <2> QED BY <1>5, <1>6, NatSetInduction
<1> QED BY <1>1, <1>3, <1>7

(* Division keeps the order ...                                            *)
LEMMA DivMonotone ==
  ASSUME NEW a \in Nat, NEW b \in Nat, a <= b, NEW d \in Nat, d > 0
  PROVE  a \div d <= b \div d
<1> DEFINE p == a \div d
           q == b \div d
<1>1. p \in Nat /\ q \in Nat /\ p * d <= a /\ b < (q + 1) * d
  BY DivBounds
<1>2. p * d < (q + 1) * d
  <2> HIDE DEF p, q
  <2>1. p * d \in Nat /\ (q + 1) * d \in Nat
    BY <1>1
  <2> QED BY <1>1, <2>1
<1>3. p < q + 1
  <2> HIDE DEF p, q
  <2> QED BY <1>1, <1>2
<1> HIDE DEF p, q
<1>4. p <= q
  BY <1>1, <1>3
<1> QED BY <1>4 DEF p, q

(* ... and a common factor cancels.                                        *)
LEMMA DivCancels ==
  ASSUME NEW n \in Nat, n > 0, NEW a \in Nat, NEW b \in Nat, b > 0
  PROVE  (n * a) \div (n * b) = a \div b
<1> DEFINE q == a \div b
<1>1. q \in Nat /\ q * b <= a /\ a < (q + 1) * b
  BY DivBounds
<1> HIDE DEF q
<1>2. n * a \in Nat /\ n * b \in Nat /\ n * b > 0
  OBVIOUS
<1>3. q * (n * b) <= n * a
  <2>1. n * (q * b) <= n * a
    BY <1>1
  <2> QED BY <1>1, <2>1
<1>4. n * a < (q + 1) * (n * b)
  <2>1. n * a < n * ((q + 1) * b)
    BY <1>1
  <2> QED BY <1>1, <2>1
<1>5. (n * a) \div (n * b) = q
  BY <1>1, <1>2, <1>3, <1>4, DivUnique
<1> QED BY <1>5 DEF q

(* Rounded division keeps the order, on both sides of zero.                *)
LEMMA RoundDivMonotone ==
  ASSUME NEW u \in Int, NEW v \in Int, u <= v, NEW d \in Nat, d > 0
  PROVE  RoundDiv(u, d) \in Int /\ RoundDiv(v, d) \in Int /\ RoundDiv(u, d) <= RoundDiv(v, d)
<1>1. \A a \in Nat : (2 * a + d) \div (2 * d) \in Nat
  BY DivBounds
<1>2. \A a, b \in Nat : a <= b => (2 * a + d) \div (2 * d) <= (2 * b + d) \div (2 * d)
  BY DivMonotone
<1> DEFINE half(a) == (2 * a + d) \div (2 * d)
<1>3. \A a \in Int : RoundDiv(a, d) = IF a >= 0 THEN half(a) ELSE -half(-a)
  BY DEF RoundDiv
<1>4. /\ \A a \in Nat : half(a) \in Nat
      /\ \A a, b \in Nat : a <= b => half(a) <= half(b)
  BY <1>1, <1>2
<1> HIDE DEF half
<1>5. CASE u >= 0
  BY <1>3, <1>4, <1>5
<1>6. CASE v < 0
  <2>1. -u \in Nat /\ -v \in Nat /\ -v <= -u
    BY <1>6
  <2>2. half(-u) \in Nat /\ half(-v) \in Nat /\ half(-v) <= half(-u)
    BY <1>4, <2>1
  <2>3. RoundDiv(u, d) = -half(-u) /\ RoundDiv(v, d) = -half(-v)
    BY <1>3, <1>6
  <2> QED BY <2>2, <2>3
<1>7. CASE u < 0 /\ v >= 0
  <2>1. half(-u) \in Nat /\ half(v) \in Nat
    BY <1>4, <1>7
  <2>2. RoundDiv(u, d) = -half(-u) /\ RoundDiv(v, d) = half(v)
    BY <1>3, <1>7
  <2> QED BY <2>1, <2>2
<1> QED BY <1>5, <1>6, <1>7

(* The mean of n equal values is the value.                                *)
LEMMA RoundDivCancels ==
  ASSUME NEW n \in Nat, n > 0, NEW v \in Int, NEW d \in Nat, d > 0
  PROVE  RoundDiv(n * v, d * n) = RoundDiv(v, d)
<1>1. \A a \in Nat : (2 * (n * a) + d * n) \div (2 * (d * n)) = (2 * a + d) \div (2 * d)
  <2> TAKE a \in Nat
  <2>1. 2 * (n * a) + d * n = n * (2 * a + d) /\ 2 * (d * n) = n * (2 * d)
    OBVIOUS
  <2>2. 2 * a + d \in Nat /\ 2 * d \in Nat /\ 2 * d > 0
    OBVIOUS
  <2>3. (n * (2 * a + d)) \div (n * (2 * d)) = (2 * a + d) \div (2 * d)
    BY <2>2, DivCancels
  <2> QED BY <2>1, <2>3
<1>2. CASE v >= 0
  <2>1. v \in Nat /\ n * v >= 0
    BY <1>2
  <2> QED BY <1>1, <1>2, <2>1 DEF RoundDiv
<1>3. CASE v < 0
  <2>1. PICK w \in Nat : w = -v
    BY <1>3
  <2>2. n * v < 0 /\ -(n * v) = n * w
    BY <1>3, <2>1
  <2>3. RoundDiv(n * v, d * n) = -((2 * (n * w) + d * n) \div (2 * (d * n)))
    BY <2>2 DEF RoundDiv
  <2>4. RoundDiv(v, d) = -((2 * w + d) \div (2 * d))
    BY <1>3, <2>1 DEF RoundDiv
  <2> QED BY <1>1, <2>3, <2>4
<1> QED BY <1>2, <1>3

-----------------------------------------------------------------------------
(* The extremes.                                                           *)

(* A series has a least and a greatest value.                              *)
LEMMA ExtremesExist ==
  ASSUME NEW vals \in Seq(Int), vals # <<>>
  PROVE  /\ \E v \in ToSet(vals) : \A u \in ToSet(vals) : v <= u
         /\ \E v \in ToSet(vals) : \A u \in ToSet(vals) : u <= v
<1>1. Len(vals) \in Nat /\ Len(vals) > 0 /\ DOMAIN vals = 1..Len(vals) /\ \A i \in 1..Len(vals) : vals[i] \in Int
  OBVIOUS
<1> DEFINE N == {n \in Nat : n + 1 <= Len(vals) =>
                   /\ \E i \in 1..n + 1 : \A j \in 1..n + 1 : vals[i] <= vals[j]
                   /\ \E i \in 1..n + 1 : \A j \in 1..n + 1 : vals[j] <= vals[i]}
<1>2. 0 \in N
  <2>1. 1 \in 1..0 + 1 /\ \A j \in 1..0 + 1 : j = 1
    OBVIOUS
  <2>2. vals[1] <= vals[1]
    BY <1>1
  <2> QED BY <2>1, <2>2
<1>3. ASSUME NEW n \in Nat, n \in N PROVE n + 1 \in N
  <2> SUFFICES ASSUME n + 2 <= Len(vals)
               PROVE  /\ \E i \in 1..n + 2 : \A j \in 1..n + 2 : vals[i] <= vals[j]
                      /\ \E i \in 1..n + 2 : \A j \in 1..n + 2 : vals[j] <= vals[i]
    OBVIOUS
  <2>1. /\ \E i \in 1..n + 1 : \A j \in 1..n + 1 : vals[i] <= vals[j]
        /\ \E i \in 1..n + 1 : \A j \in 1..n + 1 : vals[j] <= vals[i]
    BY <1>1, <1>3
  <2>2. \A j \in 1..n + 2 : vals[j] \in Int /\ (j = n + 2 \/ j \in 1..n + 1)
    BY <1>1
  <2>3. \A j \in 1..n + 1 : j \in 1..n + 2
    OBVIOUS
  <2>4. n + 2 \in 1..n + 2
    OBVIOUS
  <2> HIDE DEF N
  <2>5. \E i \in 1..n + 2 : \A j \in 1..n + 2 : vals[i] <= vals[j]
    <3>1. PICK i \in 1..n + 1 : \A j \in 1..n + 1 : vals[i] <= vals[j]
      BY <2>1
    <3>2. CASE vals[i] <= vals[n + 2]
      BY <2>2, <2>3, <3>1, <3>2
    <3>3. CASE ~(vals[i] <= vals[n + 2])
      <4>1. \A j \in 1..n + 2 : vals[n + 2] <= vals[j]
        BY <2>2, <2>3, <2>4, <3>1, <3>3
      <4> QED BY <2>4, <4>1
    <3> QED BY <3>2, <3>3
  <2>6. \E i \in 1..n + 2 : \A j \in 1..n + 2 : vals[j] <= vals[i]
    <3>1. PICK i \in 1..n + 1 : \A j \in 1..n + 1 : vals[j] <= vals[i]
      BY <2>1
    <3>2. CASE vals[n + 2] <= vals[i]
      BY <2>2, <2>3, <3>1, <3>2
    <3>3. CASE ~(vals[n + 2] <= vals[i])
      <4>1. \A j \in 1..n + 2 : vals[j] <= vals[n + 2]
        BY <2>2, <2>3, <2>4, <3>1, <3>3
      <4> QED BY <2>4, <4>1
    <3> QED BY <3>2, <3>3
  <2> QED BY <2>5, <2>6
<1>4. Nat \subseteq N
  <2> HIDE DEF N
  <2> QED BY <1>2, <1>3, NatSetInduction
<1>5. Len(vals) - 1 \in N
  <2> HIDE DEF N
  <2> QED BY <1>1, <1>4
<1>6. /\ \E i \in DOMAIN vals : \A j \in DOMAIN vals : vals[i] <= vals[j]
      /\ \E i \in DOMAIN vals : \A j \in DOMAIN vals : vals[j] <= vals[i]
  <2>1. (Len(vals) - 1) + 1 = Len(vals) /\ Len(vals) <= Len(vals)
    BY <1>1
  <2>2. /\ \E i \in 1..(Len(vals) - 1) + 1 : \A j \in 1..(Len(vals) - 1) + 1 : vals[i] <= vals[j]
        /\ \E i \in 1..(Len(vals) - 1) + 1 : \A j \in 1..(Len(vals) - 1) + 1 : vals[j] <= vals[i]
    BY <1>5, <2>1, Zenon
  <2> QED BY <1>1, <2>1, <2>2, Zenon
<1> HIDE DEF N
<1> QED BY <1>6 DEF ToSet

-----------------------------------------------------------------------------
(* The summary.                                                            *)

(* The smaller of two numbers.                                             *)
LEMMA MinOfTwo ==
  ASSUME NEW a \in Int, NEW b \in Int
  PROVE  Min({a, b}) = IF a <= b THEN a ELSE b
<1> DEFINE m == IF a <= b THEN a ELSE b
<1>1. m \in {a, b} /\ \A y \in {a, b} : m <= y
  OBVIOUS
<1>2. \A x \in {a, b} : (\A y \in {a, b} : x <= y) => x = m
  OBVIOUS
<1> HIDE DEF m
<1>3. (CHOOSE x \in {a, b} : \A y \in {a, b} : x <= y) = m
  BY <1>1, <1>2
<1> QED BY <1>3 DEF Min, m

(* What the summary of a series tells is true of the series: nothing is    *)
(* outside of its extremes, and the trend runs from its first value to its *)
(* last.                                                                   *)
LEMMA SeriesFaithful ==
  ASSUME NEW vals \in Seq(Int), vals # <<>>, NEW t, t = SeriesSummary(vals)
  PROVE  /\ \A v \in {t.avg, t.first, t.last} \cup ToSet(t.trend) : t.min <= v /\ v <= t.max
         /\ Head(t.trend) = t.first /\ Last(t.trend) = t.last
         /\ Len(t.trend) = Min({t.points, TrendPoints})
<1> DEFINE len == Len(vals)
           lo == CHOOSE v \in ToSet(vals) : \A u \in ToSet(vals) : v <= u
           hi == CHOOSE v \in ToSet(vals) : \A u \in ToSet(vals) : u <= v
           trend == Downsample(vals, TrendPoints)
           size == IF len <= TrendPoints THEN len ELSE TrendPoints
<1>1. /\ len \in Nat /\ len > 0 /\ DOMAIN vals = 1..len
      /\ \A i \in 1..len : vals[i] \in Int /\ vals[i] \in ToSet(vals)
      /\ ToSet(vals) \subseteq Int
  BY DEF ToSet
<1>2. TrendPoints \in Nat /\ TrendPoints > 1
  BY MetricsAssumption
<1>3. /\ lo \in ToSet(vals) /\ \A u \in ToSet(vals) : lo <= u
      /\ hi \in ToSet(vals) /\ \A u \in ToSet(vals) : u <= hi
  BY ExtremesExist
<1>4. /\ t.points = len /\ t.min = Round2(lo) /\ t.max = Round2(hi)
      /\ t.avg = RoundDiv(Sum(vals), 10 * len)
      /\ t.first = Round2(vals[1]) /\ t.last = Round2(vals[len]) /\ t.trend = trend
  BY DEF SeriesSummary
<1> HIDE DEF lo, hi
<1>5. lo \in Int /\ hi \in Int /\ \A i \in 1..len : lo <= vals[i] /\ vals[i] <= hi
  BY <1>1, <1>3
<1>6. t.min <= t.first /\ t.first <= t.max /\ t.min <= t.last /\ t.last <= t.max
  <2>1. 1 \in 1..len /\ len \in 1..len
    BY <1>1
  <2> QED BY <1>1, <1>4, <1>5, <2>1, RoundMonotone
<1>7. t.min <= t.avg /\ t.avg <= t.max
  <2>1. Sum(vals) \in Int /\ len * lo <= Sum(vals) /\ Sum(vals) <= len * hi
    BY <1>5, SumWithinBounds
  <2>2. len * lo \in Int /\ len * hi \in Int /\ 10 * len \in Nat /\ 10 * len > 0
    BY <1>1, <1>5
  <2>3. RoundDiv(len * lo, 10 * len) <= RoundDiv(Sum(vals), 10 * len)
    BY <2>1, <2>2, RoundDivMonotone
  <2>4. RoundDiv(Sum(vals), 10 * len) <= RoundDiv(len * hi, 10 * len)
    BY <2>1, <2>2, RoundDivMonotone
  <2>5. RoundDiv(len * lo, 10 * len) = Round2(lo) /\ RoundDiv(len * hi, 10 * len) = Round2(hi)
    <3> HIDE DEF len
    <3>1. 10 \in Nat /\ 10 > 0
      OBVIOUS
    <3>2. RoundDiv(len * lo, 10 * len) = RoundDiv(lo, 10)
      BY <1>1, <1>5, <3>1, RoundDivCancels
    <3>3. RoundDiv(len * hi, 10 * len) = RoundDiv(hi, 10)
      BY <1>1, <1>5, <3>1, RoundDivCancels
    <3> QED BY <3>2, <3>3 DEF Round2
  <2> QED BY <1>4, <2>3, <2>4, <2>5
<1>8. /\ DOMAIN trend = 1..size
      /\ trend[1] = Round2(vals[1])
      /\ trend[size] = Round2(vals[len])
  BY <1>2, TrendKeepsShape
<1>9. \A j \in DOMAIN trend : t.min <= trend[j] /\ trend[j] <= t.max
  BY <1>2, <1>4, <1>5, TrendWithinBounds
<1>10. Len(trend) = size /\ Head(trend) = trend[1]
  <2>1. trend \in Seq(Int)
    <3>1. \/ trend = [i \in 1..len |-> Round2(vals[i])]
          \/ trend = [i \in 1..TrendPoints |-> Round2(vals[Pick(len, TrendPoints, i)])]
      BY DEF Downsample
    <3>2. \A i \in 1..len : Round2(vals[i]) \in Int
      BY <1>1, RoundIsInt
    <3>3. \A i \in 1..TrendPoints : Pick(len, TrendPoints, i) \in 1..len
      BY <1>1, <1>2, PickInRange
    <3> HIDE DEF trend, len
    <3>4. CASE trend = [i \in 1..len |-> Round2(vals[i])]
      BY <1>1, <3>2, <3>4
    <3>5. CASE trend = [i \in 1..TrendPoints |-> Round2(vals[Pick(len, TrendPoints, i)])]
      <4>1. \A i \in 1..TrendPoints : Round2(vals[Pick(len, TrendPoints, i)]) \in Int
        BY <3>2, <3>3
      <4> QED BY <1>2, <3>5, <4>1
    <3> QED BY <3>1, <3>4, <3>5
  <2>2. size \in Nat /\ size > 0
    BY <1>1, <1>2
  <2> HIDE DEF trend, size
  <2> QED BY <1>8, <2>1, <2>2
<1>11. size = Min({t.points, TrendPoints})
  BY <1>1, <1>2, <1>4, MinOfTwo
<1> HIDE DEF trend, size, len
<1>12. Last(t.trend) = t.last /\ Head(t.trend) = t.first /\ Len(t.trend) = Min({t.points, TrendPoints})
  BY <1>4, <1>8, <1>10, <1>11 DEF Last
<1>13. \A v \in ToSet(t.trend) : t.min <= v /\ v <= t.max
  BY <1>4, <1>9 DEF ToSet
<1> QED BY <1>6, <1>7, <1>12, <1>13

(* The numbers among the samples that Prometheus sends.                    *)
Sample == Int \cup {PosInf, NegInf, NaN, Junk}

(* The series that are looked at.                                          *)
Looked(matrix) == {matrix[i] : i \in 1..Min({Len(matrix), MaxSeries})}

(* What is kept of a series: its numbers and infinities.                   *)
LEMMA ParsedSeries ==
  ASSUME NEW samples \in Seq(Sample), NEW vals, vals = ParseFloats(samples)
  PROVE  /\ vals \in Seq(Int \cup {PosInf, NegInf})
         /\ ToSet(vals) = ToSet(samples) \ {NaN, Junk}
         /\ vals = <<>> => ToSet(samples) \cap Int = {}
         /\ ~HasInfinity(vals) => vals \in Seq(Int)
<1>1. /\ vals \in Seq(Sample)
      /\ \A k \in DOMAIN vals : vals[k] \notin {NaN, Junk} /\ \E n \in DOMAIN samples : vals[k] = samples[n]
      /\ \A n \in DOMAIN samples : samples[n] \notin {NaN, Junk} => \E k \in DOMAIN vals : vals[k] = samples[n]
  <2>1. PICK out : out = {NaN, Junk}
    OBVIOUS
  <2>2. vals = Without(samples, out)
    BY <2>1 DEF ParseFloats
  <2>3. /\ vals \in Seq(Sample)
        /\ \A k \in DOMAIN vals : vals[k] \notin out /\ \E n \in DOMAIN samples : vals[k] = samples[n]
        /\ \A n \in DOMAIN samples : samples[n] \notin out => \E k \in DOMAIN vals : vals[k] = samples[n]
    BY <2>2, WithoutKeeps
  <2> QED BY <2>1, <2>3
<1>2. ToSet(vals) = ToSet(samples) \ {NaN, Junk}
  BY <1>1 DEF ToSet
<1>3. DOMAIN vals = 1..Len(vals) /\ Len(vals) \in Nat /\ \A k \in 1..Len(vals) : vals[k] \in Sample
  BY <1>1
<1>4. \A k \in DOMAIN vals : vals[k] \in Int \cup {PosInf, NegInf}
  BY <1>1, <1>3 DEF Sample
<1>5. ASSUME NEW S, \A k \in DOMAIN vals : vals[k] \in S PROVE vals \in Seq(S)
  BY <1>1, <1>5
<1>6. vals = <<>> => ToSet(samples) \cap Int = {}
  <2>1. vals = <<>> => ToSet(vals) = {}
    BY DEF ToSet
  <2> QED BY <1>2, <2>1, MetricsAssumption
<1>7. ~HasInfinity(vals) => \A k \in DOMAIN vals : vals[k] \in Int
  BY <1>4 DEF HasInfinity, ToSet
<1> QED BY <1>2, <1>4, <1>5, <1>6, <1>7

(* What is kept of a matrix: the series that are looked at and have a      *)
(* value.                                                                  *)
LEMMA KeptSeries ==
  ASSUME NEW matrix \in Seq(Seq(Sample)), NEW kept, kept = Kept(matrix)
  PROVE  /\ \A i \in DOMAIN kept : kept[i] # <<>> /\ \E samples \in Looked(matrix) :
              samples \in Seq(Sample) /\ kept[i] = ParseFloats(samples)
         /\ kept = <<>> => \A samples \in Looked(matrix) : ToSet(samples) \cap Int = {}
<1> DEFINE n == Min({Len(matrix), MaxSeries})
           parsed == [i \in 1..n |-> ParseFloats(matrix[i])]
<1>1. n \in Nat /\ n <= Len(matrix) /\ Len(matrix) \in Nat
  <2>1. Len(matrix) \in Nat /\ MaxSeries \in Nat
    BY MetricsAssumption
  <2> QED BY <2>1, MinOfTwo
<1>2. \A i \in 1..n : matrix[i] \in Seq(Sample)
  <2> HIDE DEF n
  <2> QED BY <1>1
<1>3. Looked(matrix) = {matrix[i] : i \in 1..n}
  BY DEF Looked
<1>4. kept = Without(parsed, {<<>>})
  BY DEF Kept
<1> HIDE DEF n
<1>5. parsed \in Seq(Seq(Int \cup {PosInf, NegInf})) /\ DOMAIN parsed = 1..n
  <2>1. \A i \in 1..n : ParseFloats(matrix[i]) \in Seq(Int \cup {PosInf, NegInf})
    BY <1>2, ParsedSeries
  <2> QED BY <1>1, <2>1
<1>6. \A i \in 1..n : parsed[i] = ParseFloats(matrix[i])
  OBVIOUS
<1> HIDE DEF parsed
<1>7. /\ \A k \in DOMAIN kept : kept[k] \notin {<<>>} /\ \E i \in DOMAIN parsed : kept[k] = parsed[i]
      /\ \A i \in DOMAIN parsed : parsed[i] \notin {<<>>} => \E k \in DOMAIN kept : kept[k] = parsed[i]
  <2>1. PICK out : out = {<<>>}
    OBVIOUS
  <2>2. kept = Without(parsed, out)
    BY <1>4, <2>1
  <2>3. /\ \A k \in DOMAIN kept : kept[k] \notin out /\ \E i \in DOMAIN parsed : kept[k] = parsed[i]
        /\ \A i \in DOMAIN parsed : parsed[i] \notin out => \E k \in DOMAIN kept : kept[k] = parsed[i]
    <3>1. PICK S : parsed \in Seq(S)
      BY <1>5
    <3> QED BY <2>2, <3>1, WithoutKeeps
  <2> QED BY <2>1, <2>3
<1>8. kept = <<>> => \A samples \in Looked(matrix) : ToSet(samples) \cap Int = {}
  <2> SUFFICES ASSUME kept = <<>>, NEW i \in 1..n PROVE ToSet(matrix[i]) \cap Int = {}
    BY <1>3
  <2>1. DOMAIN kept = {}
    OBVIOUS
  <2>2. ParseFloats(matrix[i]) = <<>>
    BY <1>5, <1>6, <1>7, <2>1
  <2> QED BY <1>2, <2>2, ParsedSeries
<1>9. ASSUME NEW k \in DOMAIN kept
      PROVE  kept[k] # <<>> /\ \E samples \in Looked(matrix) :
               samples \in Seq(Sample) /\ kept[k] = ParseFloats(samples)
  <2>1. kept[k] # <<>>
    BY <1>7, <1>9
  <2>2. PICK i \in 1..n : kept[k] = parsed[i]
    BY <1>5, <1>7, <1>9
  <2>3. matrix[i] \in Looked(matrix) /\ matrix[i] \in Seq(Sample) /\ kept[k] = ParseFloats(matrix[i])
    BY <1>2, <1>3, <1>6, <2>2
  <2> QED BY <2>1, <2>3
<1> QED BY <1>8, <1>9

(* The summary of an answer tells of each series what it was; it tells     *)
(* nothing only if no series that was looked at had a number, or one had   *)
(* an infinity.                                                            *)
LEMMA SummaryIsFaithful ==
  ASSUME NEW matrix \in Seq(Seq(Sample)), NEW s, s = Summarize(matrix)
  PROVE  /\ \A i \in DOMAIN s.series : \E vals \in Seq(Int) : vals # <<>> /\ s.series[i] = SeriesSummary(vals)
         /\ s.series = <<>> =>
              \/ \A samples \in Looked(matrix) : ToSet(samples) \cap Int = {}
              \/ \E samples \in Looked(matrix) : {PosInf, NegInf} \cap ToSet(samples) # {}
<1> DEFINE kept == Kept(matrix)
<1>1. /\ \A i \in DOMAIN kept : kept[i] # <<>> /\ \E samples \in Looked(matrix) :
            samples \in Seq(Sample) /\ kept[i] = ParseFloats(samples)
      /\ kept = <<>> => \A samples \in Looked(matrix) : ToSet(samples) \cap Int = {}
  <2>1. kept = Kept(matrix)
    OBVIOUS
  <2> HIDE DEF kept
  <2> QED BY <2>1, KeptSeries
<1>2. s = IF \E i \in DOMAIN kept : HasInfinity(kept[i])
            THEN [lost |-> TRUE, series |-> <<>>]
            ELSE [lost |-> FALSE, series |-> [i \in DOMAIN kept |-> SeriesSummary(kept[i])]]
  BY DEF Summarize
<1> HIDE DEF kept
<1>3. CASE \E i \in DOMAIN kept : HasInfinity(kept[i])
  <2>1. PICK i \in DOMAIN kept : HasInfinity(kept[i])
    BY <1>3
  <2>2. PICK samples \in Looked(matrix) : samples \in Seq(Sample) /\ kept[i] = ParseFloats(samples)
    BY <1>1
  <2>3. ToSet(kept[i]) = ToSet(samples) \ {NaN, Junk}
    BY <2>2, ParsedSeries
  <2>4. {PosInf, NegInf} \cap ToSet(samples) # {}
    BY <2>1, <2>3 DEF HasInfinity
  <2>5. s.series = <<>> /\ DOMAIN s.series = {}
    BY <1>2, <1>3
  <2> QED BY <2>4, <2>5
<1>4. CASE ~\E i \in DOMAIN kept : HasInfinity(kept[i])
  <2>1. s.series = [i \in DOMAIN kept |-> SeriesSummary(kept[i])]
    BY <1>2, <1>4
  <2>2. ASSUME NEW i \in DOMAIN s.series
        PROVE  \E vals \in Seq(Int) : vals # <<>> /\ s.series[i] = SeriesSummary(vals)
    <3>1. i \in DOMAIN kept /\ s.series[i] = SeriesSummary(kept[i])
      BY <2>1, <2>2
    <3>2. PICK samples \in Looked(matrix) : samples \in Seq(Sample) /\ kept[i] = ParseFloats(samples)
      BY <1>1, <3>1
    <3>3. kept[i] \in Seq(Int)
      BY <1>4, <3>1, <3>2, ParsedSeries
    <3> QED BY <1>1, <3>1, <3>3
  <2>3. s.series = <<>> => kept = <<>>
    <3>1. s.series = <<>> => DOMAIN kept = {}
      BY <2>1
    <3> QED BY <3>1
  <2> QED BY <1>1, <2>2, <2>3
<1> QED BY <1>3, <1>4
=============================================================================
