-------------------------- MODULE StatisticsProofs --------------------------
(***************************************************************************)
(* Facts about order statistics and medians that the theorems on scores    *)
(* rest on, for samples of every size, and the arithmetic of whole         *)
(* divisions they need.                                                    *)
(***************************************************************************)
EXTENDS Statistics, FiniteSetTheorems, WellFoundedInduction, TLAPS

(* Whole divisions *)
LEMMA OneMore ==
  ASSUME NEW m \in Nat, NEW p \in Nat
  PROVE  m * p \in Nat /\ (m + 1) * p = m * p + p
OBVIOUS

LEMMA WholeTimes ==
  ASSUME NEW n \in Int, NEW p \in Nat \ {0}, NEW m \in Nat, m <= (n \div p) - 1
  PROVE  (m + 1) * p <= n
<1>1. (n \div p) * p <= n /\ n \div p \in Int
  BY Z3
<1>2. (m + 1) * p <= (n \div p) * p
  BY <1>1, SMTT(30)
<1> QED BY <1>1, <1>2, OneMore

LEMMA WholePart ==
  ASSUME NEW a \in Nat, NEW p \in Nat \ {0}
  PROVE  a \div p \in Nat /\ (a \div p) * p <= a /\ a < (a \div p) * p + p
BY Z3

LEMMA WholePartAtLeast ==
  ASSUME NEW a \in Nat, NEW p \in Nat \ {0}, NEW q \in Nat, q * p <= a
  PROVE  q <= a \div p
<1>1. a \div p \in Nat /\ a < (a \div p) * p + p
  BY WholePart
<1>2. q * p < ((a \div p) + 1) * p
  BY <1>1, OneMore
<1>3. ASSUME NEW d \in Nat, d + 1 <= q PROVE (d + 1) * p <= q * p
  BY <1>3, SMTT(30)
<1> QED BY <1>1, <1>2, <1>3

LEMMA WholePartAtMost ==
  ASSUME NEW a \in Nat, NEW p \in Nat \ {0}, NEW q \in Nat, a <= q * p
  PROVE  a \div p <= q
<1>1. a \div p \in Nat /\ (a \div p) * p <= a
  BY WholePart
<1>2. ASSUME NEW d \in Nat, q + 1 <= d PROVE q * p + p <= d * p
  <2>1. (q + 1) * p <= d * p
    BY <1>2, SMTT(30)
  <2> QED BY <2>1, OneMore
<1> QED BY <1>1, <1>2, OneMore

(* a / p <= b / q, rounded down on both sides *)
LEMMA WholePartsRise ==
  ASSUME NEW a \in Nat, NEW p \in Nat \ {0}, NEW b \in Nat, NEW q \in Nat \ {0},
         a * q <= b * p
  PROVE  a \div p <= b \div q
<1> DEFINE x == a \div p
<1>1. x \in Nat /\ x * p <= a
  BY WholePart
<1> HIDE DEF x
<1>2. (x * p) * q <= a * q
  BY <1>1, SMTT(30)
<1>3. (x * q) * p <= b * p
  <2>1. (x * p) * q = (x * q) * p /\ a * q \in Nat /\ b * p \in Nat
    BY <1>1, SMTT(30)
  <2> QED BY <1>2, <2>1, <1>1
<1>4. x * q \in Nat
  BY <1>1
<1>5. ASSUME NEW y \in Nat, y * p <= b * p PROVE y <= b
  BY <1>5, SMTT(30)
<1>6. x * q <= b
  BY <1>3, <1>4, <1>5
<1>7. x <= b \div q
  BY <1>1, <1>6, WholePartAtLeast
<1> QED BY <1>7 DEF x

(* What every ramp of the scoring modules ends in *)
LEMMA CappedPart ==
  ASSUME NEW x \in Nat, NEW p \in Nat \ {0}
  PROVE  AtMost(Unit, x \div p) \in 0 .. Unit
<1> DEFINE n == x \div p
<1>1. n \in Nat
  BY WholePart
<1> HIDE DEF n
<1>2. AtMost(1000, n) \in 0 .. 1000
  BY <1>1 DEF AtMost
<1> QED BY <1>2 DEF Unit, n

-----------------------------------------------------------------------------
(* Counting *)
LEMMA CountInSample ==
  ASSUME NEW D, IsFiniteSet(D), NEW T, T \subseteq D
  PROVE  IsFiniteSet(T) /\ Cardinality(T) \in Nat /\ Cardinality(T) <= Cardinality(D)
BY FS_Subset, FS_CardinalityType

LEMMA CountSplit ==
  ASSUME NEW D, IsFiniteSet(D), NEW T, T \subseteq D
  PROVE  Cardinality(D) = Cardinality(T) + Cardinality(D \ T)
<1>1. D \cap T = T
  OBVIOUS
<1>2. Cardinality(D \ T) = Cardinality(D) - Cardinality(T)
  BY <1>1, FS_Difference
<1>3. Cardinality(D) \in Nat /\ Cardinality(T) \in Nat
  BY CountInSample
<1> QED BY <1>2, <1>3

LEMMA CountGrows ==
  ASSUME NEW D, IsFiniteSet(D), NEW T, T \subseteq D, NEW U, U \subseteq T,
         NEW x \in T, x \notin U
  PROVE  Cardinality(U) < Cardinality(T)
<1>1. IsFiniteSet(T) /\ Cardinality(T) \in Nat
  BY CountInSample
<1>2. Cardinality(U) \in Nat /\ Cardinality(U) <= Cardinality(T) /\ Cardinality(U) # Cardinality(T)
  BY <1>1, FS_Subset, CountInSample
<1> QED BY <1>1, <1>2

LEMMA LeastCount ==
  ASSUME NEW S \in SUBSET Nat, S # {}
  PROVE  \E n \in S : \A m \in S : n <= m
<1>1. PICK n \in S : \A m \in S : ~(<<m, n>> \in OpToRel(<, Nat))
  BY WFMin, NatLessThanWellFounded, Zenon
<1>2. \A m \in S : ~(m < n)
  BY <1>1 DEF OpToRel
<1> QED BY <1>2

-----------------------------------------------------------------------------
Sample(s) == IsFiniteSet(DOMAIN s) /\ \A i \in DOMAIN s : s[i] \in Int

Below(s, v) == {i \in DOMAIN s : s[i] < v}
UpTo(s, v) == {i \in DOMAIN s : s[i] <= v}

Ranks(s, k, v) ==
  /\ v \in {s[i] : i \in DOMAIN s}
  /\ Cardinality(Below(s, v)) < k /\ Cardinality(UpTo(s, v)) >= k

LEMMA SampleCounts ==
  ASSUME NEW s, Sample(s), NEW v
  PROVE  /\ Cardinality(Below(s, v)) \in Nat /\ Cardinality(UpTo(s, v)) \in Nat
         /\ SampleSize(s) \in Nat
         /\ Cardinality(Below(s, v)) <= SampleSize(s) /\ Cardinality(UpTo(s, v)) <= SampleSize(s)
BY CountInSample DEF Sample, Below, UpTo, SampleSize

LEMMA SequenceIsSample ==
  ASSUME NEW h \in Seq(Int)
  PROVE  Sample(h) /\ SampleSize(h) = Len(h)
<1> DEFINE n == Len(h)
<1>1. n \in Nat /\ DOMAIN h = 1 .. n /\ \A i \in DOMAIN h : h[i] \in Int
  OBVIOUS
<1> HIDE DEF n
<1>2. IsFiniteSet(1 .. n) /\ Cardinality(1 .. n) = IF 1 > n THEN 0 ELSE n - 1 + 1
  BY <1>1, FS_Interval
<1>3. Cardinality(1 .. n) = n
  BY <1>1, <1>2
<1> QED BY <1>1, <1>2, <1>3 DEF Sample, SampleSize, n

(* Some of finitely many readings have a highest one: that with the fewest *)
(* above it.                                                               *)
LEMMA HighestReading ==
  ASSUME NEW s, Sample(s), NEW J, J \subseteq DOMAIN s, J # {}
  PROVE  \E i \in J : \A j \in J : s[j] <= s[i]
<1> DEFINE Above(i) == {j \in J : s[j] > s[i]}
           Counts == {Cardinality(Above(i)) : i \in J}
<1>1. IsFiniteSet(J) /\ \A i \in J : s[i] \in Int
  BY CountInSample DEF Sample
<1>2. \A i \in J : Cardinality(Above(i)) \in Nat
  BY <1>1, CountInSample
<1>3. PICK n \in Counts : \A m \in Counts : n <= m
  <2>1. Counts \in SUBSET Nat /\ Counts # {}
    BY <1>2
  <2> HIDE DEF Counts
  <2> QED BY <2>1, LeastCount
<1>4. PICK i \in J : n = Cardinality(Above(i))
  BY <1>3
<1>5. ASSUME NEW j \in J, ~(s[j] <= s[i]) PROVE FALSE
  <2>1. j \in Above(i) /\ j \notin Above(j) /\ Above(j) \subseteq Above(i) /\ Above(i) \subseteq J
    BY <1>1, <1>5
  <2>2. Cardinality(Above(j)) < Cardinality(Above(i))
    <3> HIDE DEF Above
    <3> QED BY <1>1, <2>1, CountGrows
  <2>3. Cardinality(Above(i)) <= Cardinality(Above(j))
    BY <1>3, <1>4
  <2> HIDE DEF Above
  <2> QED BY <1>2, <2>2, <2>3
<1> QED BY <1>5

(* ... and a lowest one. *)
LEMMA LowestReading ==
  ASSUME NEW s, Sample(s), NEW J, J \subseteq DOMAIN s, J # {}
  PROVE  \E i \in J : \A j \in J : s[i] <= s[j]
<1> DEFINE t == [i \in DOMAIN s |-> -s[i]]
<1>1. Sample(t) /\ J \subseteq DOMAIN t /\ \A i \in J : s[i] \in Int /\ t[i] = -s[i]
  BY DEF Sample
<1> HIDE DEF t
<1>2. PICK i \in J : \A j \in J : t[j] <= t[i]
  BY <1>1, HighestReading
<1>3. \A j \in J : s[i] <= s[j]
  BY <1>1, <1>2
<1> QED BY <1>3

-----------------------------------------------------------------------------
(* The k-th smallest reading of a sample of at least k exists ... *)
LEMMA RankTaken ==
  ASSUME NEW s, Sample(s), NEW k \in 1 .. SampleSize(s)
  PROVE  \E v : Ranks(s, k, v)
<1> DEFINE J == {i \in DOMAIN s : Cardinality(UpTo(s, s[i])) >= k}
<1>1. IsFiniteSet(DOMAIN s) /\ (\A i \in DOMAIN s : s[i] \in Int) /\ k \in Nat /\ k >= 1
      /\ SampleSize(s) \in Nat /\ k <= SampleSize(s)
  BY SampleCounts DEF Sample
<1>2. DOMAIN s # {}
  BY <1>1, FS_EmptySet DEF SampleSize
<1>3. J # {}
  <2>1. PICK i \in DOMAIN s : \A j \in DOMAIN s : s[j] <= s[i]
    BY <1>2, HighestReading
  <2>2. UpTo(s, s[i]) = DOMAIN s
    BY <2>1 DEF UpTo
  <2>3. i \in J
    BY <1>1, <2>2 DEF SampleSize
  <2> QED BY <2>3
<1>4. PICK i \in J : \A j \in J : s[i] <= s[j]
  BY <1>3, LowestReading
<1>5. Cardinality(Below(s, s[i])) < k
  <2> SUFFICES ASSUME ~(Cardinality(Below(s, s[i])) < k) PROVE FALSE
    OBVIOUS
  <2>1. Below(s, s[i]) # {} /\ Below(s, s[i]) \subseteq DOMAIN s
    BY <1>1, FS_EmptySet DEF Below
  <2>2. PICK j \in Below(s, s[i]) : \A l \in Below(s, s[i]) : s[l] <= s[j]
    BY <2>1, HighestReading
  <2>3. j \in DOMAIN s /\ s[j] < s[i] /\ s[i] \in Int /\ s[j] \in Int
    BY <1>1, <2>2 DEF Below
  <2>4. Below(s, s[i]) \subseteq UpTo(s, s[j]) /\ UpTo(s, s[j]) \subseteq DOMAIN s
    BY <2>2 DEF Below, UpTo
  <2>5. IsFiniteSet(UpTo(s, s[j]))
    BY <1>1, <2>4, CountInSample
  <2>6. Cardinality(Below(s, s[i])) <= Cardinality(UpTo(s, s[j]))
    BY <2>4, <2>5, CountInSample
  <2>7. j \in J
    BY <1>1, <2>3, <2>6, SampleCounts
  <2> QED BY <1>4, <2>3, <2>7
<1>6. Ranks(s, k, s[i])
  BY <1>5 DEF Ranks
<1> QED BY <1>6

(* ... and only one reading has that rank. *)
LEMMA RankUnique ==
  ASSUME NEW s, Sample(s), NEW k \in Nat, NEW l \in Nat, k <= l,
         NEW v, Ranks(s, k, v), NEW w, Ranks(s, l, w)
  PROVE  v \in Int /\ w \in Int /\ v <= w
<1>1. v \in Int /\ w \in Int
  BY DEF Ranks, Sample
<1>2. CASE w < v
  <2>1. UpTo(s, w) \subseteq Below(s, v) /\ Below(s, v) \subseteq DOMAIN s
    BY <1>1, <1>2 DEF UpTo, Below, Sample
  <2>2. IsFiniteSet(Below(s, v))
    BY <2>1, CountInSample DEF Sample
  <2>3. Cardinality(UpTo(s, w)) <= Cardinality(Below(s, v))
    BY <2>1, <2>2, CountInSample
  <2> QED BY <2>3, SampleCounts DEF Ranks
<1> QED BY <1>1, <1>2

LEMMA OrderStatisticRanks ==
  ASSUME NEW s, Sample(s), NEW k \in 1 .. SampleSize(s)
  PROVE  /\ Ranks(s, k, OrderStatistic(s, k))
         /\ OrderStatistic(s, k) \in Int
         /\ \E i \in DOMAIN s : OrderStatistic(s, k) = s[i]
<1>1. PICK v : Ranks(s, k, v)
  BY RankTaken
<1>2. Ranks(s, k, OrderStatistic(s, k))
  BY <1>1 DEF Ranks, OrderStatistic, Below, UpTo
<1> QED BY <1>2 DEF Ranks, Sample

LEMMA OrderStatisticIs ==
  ASSUME NEW s, Sample(s), NEW k \in 1 .. SampleSize(s), NEW v, Ranks(s, k, v)
  PROVE  OrderStatistic(s, k) = v
<1>1. Ranks(s, k, OrderStatistic(s, k)) /\ k \in Nat
  BY OrderStatisticRanks, SampleCounts
<1>2. k <= k
  BY <1>1
<1> QED BY <1>1, <1>2, RankUnique

(* A later rank is not a smaller reading. *)
LEMMA OrderStatisticsRise ==
  ASSUME NEW s, Sample(s), NEW k \in 1 .. SampleSize(s), NEW l \in 1 .. SampleSize(s), k <= l
  PROVE  OrderStatistic(s, k) <= OrderStatistic(s, l)
<1>1. k \in Nat /\ l \in Nat
  BY SampleCounts
<1> QED BY <1>1, OrderStatisticRanks, RankUnique

(* Where no reading falls, no order statistic does. *)
LEMMA OrderStatisticsFollow ==
  ASSUME NEW s, Sample(s), NEW t, Sample(t), DOMAIN t = DOMAIN s,
         \A i \in DOMAIN s : s[i] <= t[i], NEW k \in 1 .. SampleSize(s)
  PROVE  OrderStatistic(s, k) <= OrderStatistic(t, k)
<1> DEFINE v == OrderStatistic(s, k)
           w == OrderStatistic(t, k)
<1>1. Ranks(s, k, v) /\ Ranks(t, k, w) /\ v \in Int /\ w \in Int /\ k \in Nat
  BY OrderStatisticRanks, SampleCounts DEF SampleSize
<1> HIDE DEF v, w
<1>2. ASSUME w < v PROVE FALSE
  <2>1. UpTo(t, w) \subseteq Below(s, v) /\ Below(s, v) \subseteq DOMAIN s
    BY <1>1, <1>2 DEF UpTo, Below, Sample
  <2>2. IsFiniteSet(Below(s, v))
    BY <2>1, CountInSample DEF Sample
  <2>3. Cardinality(UpTo(t, w)) <= Cardinality(Below(s, v))
    BY <2>1, <2>2, CountInSample
  <2> QED BY <1>1, <2>3, SampleCounts DEF Ranks
<1>3. v <= w
  BY <1>1, <1>2
<1> QED BY <1>3 DEF v, w

-----------------------------------------------------------------------------
(* The two ranks of the median *)
LEMMA MiddleRanks ==
  ASSUME NEW n \in Nat \ {0}
  PROVE  (n + 1) \div 2 \in 1 .. n /\ (n \div 2) + 1 \in 1 .. n
OBVIOUS

LEMMA MedianOfReadings ==
  ASSUME NEW s, Sample(s), SampleSize(s) # 0
  PROVE  \E i, j \in DOMAIN s : TwiceMedian(s) = s[i] + s[j]
<1> DEFINE n == SampleSize(s)
<1>1. n \in Nat \ {0}
  BY SampleCounts
<1>2. (n + 1) \div 2 \in 1 .. n /\ (n \div 2) + 1 \in 1 .. n
  BY <1>1, MiddleRanks
<1> HIDE DEF n
<1>3. /\ \E i \in DOMAIN s : OrderStatistic(s, (n + 1) \div 2) = s[i]
      /\ \E j \in DOMAIN s : OrderStatistic(s, (n \div 2) + 1) = s[j]
  BY <1>2, OrderStatisticRanks DEF n
<1>4. TwiceMedian(s) = OrderStatistic(s, (n + 1) \div 2) + OrderStatistic(s, (n \div 2) + 1)
  BY DEF TwiceMedian, n
<1> QED BY <1>3, <1>4

(* A reading that is at least half of a sample is one of the two middle    *)
(* readings.                                                               *)
LEMMA CommonReading ==
  ASSUME NEW s, Sample(s), SampleSize(s) # 0, NEW b \in Int,
         2 * Cardinality({i \in DOMAIN s : s[i] = b}) >= SampleSize(s)
  PROVE  \E i \in DOMAIN s : TwiceMedian(s) = b + s[i]
<1> DEFINE n == SampleSize(s)
           equal == Cardinality({i \in DOMAIN s : s[i] = b})
           less == Cardinality(Below(s, b))
           upTo == Cardinality(UpTo(s, b))
           low == (n + 1) \div 2
           high == (n \div 2) + 1
<1>1. n \in Nat \ {0} /\ less \in Nat /\ upTo \in Nat /\ upTo <= n
  BY SampleCounts
<1>2. upTo = less + equal /\ equal \in Nat
  <2>1. UpTo(s, b) \ Below(s, b) = {i \in DOMAIN s : s[i] = b} /\ Below(s, b) \subseteq UpTo(s, b)
    BY DEF UpTo, Below, Sample
  <2>2. UpTo(s, b) \subseteq DOMAIN s /\ {i \in DOMAIN s : s[i] = b} \subseteq DOMAIN s
    BY DEF UpTo
  <2>3. IsFiniteSet(UpTo(s, b)) /\ equal \in Nat
    BY <2>2, CountInSample DEF Sample
  <2> QED BY <2>1, <2>3, CountSplit
<1>3. low \in 1 .. n /\ high \in 1 .. n
  BY <1>1, MiddleRanks
<1>4. 2 * equal >= n
  OBVIOUS
<1>5. b \in {s[i] : i \in DOMAIN s}
  <2>1. equal # 0
    BY <1>1, <1>4
  <2>2. {i \in DOMAIN s : s[i] = b} # {}
    BY <2>1, FS_EmptySet
  <2> QED BY <2>2
<1>6. (less < low /\ upTo >= low) \/ (less < high /\ upTo >= high)
  <2> HIDE DEF n, equal, less, upTo
  <2> QED BY <1>1, <1>2, <1>4
<1> HIDE DEF n, equal
<1>7. TwiceMedian(s) = OrderStatistic(s, low) + OrderStatistic(s, high)
  BY DEF TwiceMedian, n
<1>8. /\ \E i \in DOMAIN s : OrderStatistic(s, low) = s[i]
      /\ \E i \in DOMAIN s : OrderStatistic(s, high) = s[i]
  BY <1>3, OrderStatisticRanks DEF n
<1>9. OrderStatistic(s, low) = b \/ OrderStatistic(s, high) = b
  <2>1. Ranks(s, low, b) \/ Ranks(s, high, b)
    BY <1>5, <1>6 DEF Ranks
  <2> HIDE DEF low, high
  <2> QED BY <1>3, <2>1, OrderStatisticIs DEF n
<1> HIDE DEF low, high
<1>10. \A i \in DOMAIN s : s[i] \in Int
  BY DEF Sample
<1> QED BY <1>7, <1>8, <1>9, <1>10

(* When all readings but one agree, only the lowest and the highest rank   *)
(* can be the odd one's.                                                   *)
LEMMA OddOneAtTheEnds ==
  ASSUME NEW s, Sample(s), NEW i \in DOMAIN s, NEW c \in Int,
         \A j \in DOMAIN s \ {i} : s[j] = c, NEW k \in 2 .. SampleSize(s) - 1
  PROVE  OrderStatistic(s, k) = c
<1>1. SampleSize(s) \in Nat /\ k \in Nat /\ k >= 2 /\ k <= SampleSize(s) - 1
  BY SampleCounts
<1>2. IsFiniteSet(DOMAIN s) /\ IsFiniteSet({i}) /\ Cardinality({i}) = 1
  BY FS_Singleton DEF Sample
<1>3. Cardinality(Below(s, c)) <= 1
  <2>1. Below(s, c) \subseteq {i}
    BY DEF Below, Sample
  <2> QED BY <1>2, <2>1, CountInSample
<1>4. Cardinality(DOMAIN s \ {i}) = SampleSize(s) - 1
  BY <1>2, FS_RemoveElement DEF SampleSize
<1>5. Cardinality(UpTo(s, c)) >= SampleSize(s) - 1
  <2>1. DOMAIN s \ {i} \subseteq UpTo(s, c) /\ UpTo(s, c) \subseteq DOMAIN s
    BY DEF UpTo, Sample
  <2>2. IsFiniteSet(UpTo(s, c))
    BY <1>2, <2>1, CountInSample
  <2>3. Cardinality(DOMAIN s \ {i}) <= Cardinality(UpTo(s, c))
    BY <2>1, <2>2, CountInSample
  <2> QED BY <1>4, <2>3
<1>6. c \in {s[j] : j \in DOMAIN s}
  <2>1. DOMAIN s \ {i} # {}
    BY <1>1, <1>4, FS_EmptySet
  <2> QED BY <2>1
<1>7. Ranks(s, k, c)
  BY <1>1, <1>3, <1>5, <1>6, SampleCounts DEF Ranks
<1> QED BY <1>1, <1>7, OrderStatisticIs

(* When the highest reading rises, only the highest rank notices. *)
LEMMA RisingTopStaysOnTop ==
  ASSUME NEW s, Sample(s), NEW i \in DOMAIN s, \A j \in DOMAIN s : s[j] <= s[i],
         NEW p \in Int, s[i] <= p, NEW k \in 1 .. SampleSize(s) - 1
  PROVE  OrderStatistic([s EXCEPT ![i] = p], k) = OrderStatistic(s, k)
<1> DEFINE t == [s EXCEPT ![i] = p]
           v == OrderStatistic(s, k)
<1>1. SampleSize(s) \in Nat /\ k \in 1 .. SampleSize(s) /\ k \in Nat /\ k <= SampleSize(s) - 1
  BY SampleCounts
<1>2. /\ DOMAIN t = DOMAIN s /\ Sample(t) /\ SampleSize(t) = SampleSize(s)
      /\ \A j \in DOMAIN s : t[j] = IF j = i THEN p ELSE s[j]
  BY DEF Sample, SampleSize
<1>3. Ranks(s, k, v) /\ v \in Int /\ \A j \in DOMAIN s : s[j] \in Int
  BY <1>1, OrderStatisticRanks DEF Sample
<1> HIDE DEF t, v
<1>4. v <= s[i]
  BY <1>3 DEF Ranks
<1>5. Below(t, v) = Below(s, v)
  BY <1>2, <1>3, <1>4 DEF Below
<1>6. IsFiniteSet(DOMAIN s) /\ Cardinality(DOMAIN s \ {i}) = SampleSize(s) - 1
  BY <1>2, FS_RemoveElement DEF Sample, SampleSize
<1>7. Cardinality(UpTo(t, v)) >= k
  <2>1. CASE s[i] = v
    <3>1. DOMAIN s \ {i} \subseteq UpTo(t, v) /\ UpTo(t, v) \subseteq DOMAIN s
      BY <1>2, <2>1 DEF UpTo
    <3>2. IsFiniteSet(UpTo(t, v))
      BY <1>6, <3>1, CountInSample
    <3>3. Cardinality(DOMAIN s \ {i}) <= Cardinality(UpTo(t, v)) /\ Cardinality(UpTo(t, v)) \in Nat
      BY <3>1, <3>2, CountInSample
    <3> QED BY <1>1, <1>6, <3>3
  <2>2. CASE s[i] # v
    <3>1. UpTo(t, v) = UpTo(s, v)
      BY <1>2, <1>3, <1>4, <2>2 DEF UpTo
    <3> QED BY <1>3, <3>1 DEF Ranks
  <2> QED BY <2>1, <2>2
<1>8. v \in {t[j] : j \in DOMAIN t}
  <2>1. CASE s[i] = v
    <3>1. Below(s, v) \subseteq DOMAIN s \ {i}
      BY <1>3, <2>1 DEF Below
    <3>2. Cardinality(Below(s, v)) # Cardinality(DOMAIN s \ {i})
      BY <1>1, <1>3, <1>6, SampleCounts DEF Ranks
    <3>3. PICK j \in DOMAIN s \ {i} : j \notin Below(s, v)
      BY <3>1, <3>2
    <3>4. t[j] = v
      BY <1>2, <1>3, <2>1, <3>3 DEF Below
    <3> QED BY <1>2, <3>3, <3>4
  <2>2. CASE s[i] # v
    <3>1. PICK j \in DOMAIN s : s[j] = v
      BY <1>3 DEF Ranks
    <3> QED BY <1>2, <2>2, <3>1
  <2> QED BY <2>1, <2>2
<1>9. Ranks(t, k, v)
  BY <1>3, <1>5, <1>7, <1>8 DEF Ranks
<1>10. OrderStatistic(t, k) = v
  BY <1>1, <1>2, <1>9, OrderStatisticIs
<1> QED BY <1>10 DEF t, v

-----------------------------------------------------------------------------
(* Sums over samples, as the folds of the community modules define them:   *)
(* by a function F that takes one index after the other away.  That there  *)
(* is such a function has to be shown: there is one on the sets of up to n *)
(* indices, for every n.                                                   *)
One(t) == CHOOSE x \in t : TRUE

Summand(s, F, t) == IF t = {} THEN 0 ELSE s[One(t)] + F[t \ {One(t)}]

Sums(s, F) == F = [t \in SUBSET DOMAIN s |-> Summand(s, F, t)]

Small(s, n) == {t \in SUBSET DOMAIN s : Cardinality(t) <= n}

SumsSmall(s, n, F) == F = [t \in Small(s, n) |-> Summand(s, F, t)]

SumOf(s) == (CHOOSE F : Sums(s, F))[DOMAIN s]

LEMMA OneLess ==
  ASSUME NEW s, Sample(s), NEW t \in SUBSET DOMAIN s, t # {}
  PROVE  /\ One(t) \in t /\ t \ {One(t)} \in SUBSET DOMAIN s
         /\ Cardinality(t) \in Nat \ {0} /\ Cardinality(t \ {One(t)}) = Cardinality(t) - 1
<1>1. One(t) \in t
  BY DEF One
<1>2. IsFiniteSet(t) /\ Cardinality(t) \in Nat
  BY CountInSample DEF Sample
<1>3. Cardinality(t \ {One(t)}) = Cardinality(t) - 1
  BY <1>1, <1>2, FS_RemoveElement
<1>4. Cardinality(t) # 0
  BY <1>2, FS_EmptySet
<1> QED BY <1>1, <1>2, <1>3, <1>4

LEMMA SumsExist ==
  ASSUME NEW s, Sample(s)
  PROVE  \E F : Sums(s, F)
<1> DEFINE missing == {n \in Nat : ~\E F : SumsSmall(s, n, F)}
<1>1. ASSUME NEW t \in SUBSET DOMAIN s
      PROVE  Cardinality(t) \in Nat /\ Cardinality(t) <= SampleSize(s)
  BY CountInSample DEF Sample, SampleSize
<1>2. ASSUME missing # {} PROVE FALSE
  <2>1. PICK m \in missing : \A n \in missing : m <= n
    BY <1>2, LeastCount
  <2>2. m \in Nat /\ ~\E F : SumsSmall(s, m, F)
    OBVIOUS
  <2>3. CASE m = 0
    <3> DEFINE F == [t \in {{}} |-> 0]
    <3>1. Small(s, m) = {{}}
      <4>1. ASSUME NEW t \in Small(s, m), t # {} PROVE FALSE
        <5>1. t \in SUBSET DOMAIN s /\ Cardinality(t) <= 0
          BY <2>3 DEF Small
        <5>2. Cardinality(t) \in Nat \ {0}
          BY <4>1, <5>1, OneLess
        <5> QED BY <5>1, <5>2
      <4>2. {} \in Small(s, m)
        BY <2>3, FS_EmptySet DEF Small
      <4> QED BY <4>1, <4>2
    <3>2. F = [t \in Small(s, m) |-> Summand(s, F, t)]
      BY <3>1 DEF Summand
    <3> HIDE DEF F
    <3> QED BY <2>2, <3>2 DEF SumsSmall
  <2>4. CASE m # 0
    <3>1. m - 1 \in Nat /\ m - 1 \notin missing
      BY <2>1, <2>2, <2>4
    <3>2. PICK F : SumsSmall(s, m - 1, F)
      BY <3>1
    <3> DEFINE G == [t \in Small(s, m) |-> Summand(s, F, t)]
    <3>3. ASSUME NEW t \in Small(s, m) PROVE Summand(s, F, t) = Summand(s, G, t)
      <4>1. CASE t = {}
        BY <4>1 DEF Summand
      <4>2. CASE t # {}
        <5> DEFINE u == t \ {One(t)}
        <5>1. u \in Small(s, m - 1) /\ u \in Small(s, m)
          <6>1. t \in SUBSET DOMAIN s /\ Cardinality(t) <= m
            BY DEF Small
          <6>2. u \in SUBSET DOMAIN s /\ Cardinality(t) \in Nat /\ Cardinality(u) = Cardinality(t) - 1
            BY <4>2, <6>1, OneLess
          <6> HIDE DEF u
          <6> QED BY <2>2, <6>1, <6>2 DEF Small
        <5> HIDE DEF u
        <5>2. F[u] = Summand(s, F, u) /\ G[u] = Summand(s, F, u)
          BY <3>2, <5>1 DEF SumsSmall
        <5> QED BY <4>2, <5>2 DEF Summand, u
      <4> QED BY <4>1, <4>2
    <3>4. G = [t \in Small(s, m) |-> Summand(s, G, t)]
      BY <3>3
    <3> HIDE DEF G
    <3> QED BY <2>2, <3>4 DEF SumsSmall
  <2> QED BY <2>3, <2>4
<1>3. SampleSize(s) \in Nat
  BY SampleCounts
<1>4. PICK F : SumsSmall(s, SampleSize(s), F)
  BY <1>2, <1>3
<1>5. Small(s, SampleSize(s)) = SUBSET DOMAIN s
  BY <1>1 DEF Small
<1> QED BY <1>4, <1>5 DEF SumsSmall, Sums

LEMMA OneMoreInt ==
  ASSUME NEW n \in Int, NEW c \in Int
  PROVE  n * c \in Int /\ (n - 1) * c + c = n * c /\ 0 * c = 0
OBVIOUS

(* The sum of a sample of one odd reading and otherwise equal ones *)
LEMMA SumButOne ==
  ASSUME NEW s, Sample(s), NEW i \in DOMAIN s, NEW c \in Int,
         \A j \in DOMAIN s \ {i} : s[j] = c
  PROVE  SumOf(s) = (SampleSize(s) - 1) * c + s[i]
<1> DEFINE F == CHOOSE H : Sums(s, H)
           Value(t) == IF i \in t THEN (Cardinality(t) - 1) * c + s[i] ELSE Cardinality(t) * c
           wrong == {t \in SUBSET DOMAIN s : F[t] # Value(t)}
           counts == {Cardinality(t) : t \in wrong}
<1>1. Sums(s, F) /\ SumOf(s) = F[DOMAIN s]
  BY SumsExist DEF SumOf
<1> HIDE DEF F
<1>2. \A t \in SUBSET DOMAIN s : F[t] = Summand(s, F, t)
  BY <1>1 DEF Sums
<1>3. s[i] \in Int /\ \A t \in SUBSET DOMAIN s : Cardinality(t) \in Nat
  BY CountInSample DEF Sample
<1>4. ASSUME wrong # {} PROVE FALSE
  <2>1. counts \in SUBSET Nat /\ counts # {}
    BY <1>3, <1>4
  <2>2. PICK m \in counts : \A n \in counts : m <= n
    BY <2>1, LeastCount
  <2>3. PICK t \in wrong : m = Cardinality(t)
    BY <2>2
  <2>4. t \in SUBSET DOMAIN s /\ F[t] # Value(t)
    BY <2>3
  <2>5. CASE t = {}
    <3>1. Cardinality(t) = 0 /\ i \notin t
      BY <2>5, FS_EmptySet
    <3>2. F[t] = 0
      BY <1>2, <2>4, <2>5 DEF Summand
    <3>3. Value(t) = 0
      BY <3>1, OneMoreInt
    <3> QED BY <2>4, <3>2, <3>3
  <2>6. CASE t # {}
    <3> DEFINE x == One(t)
               u == t \ {x}
               k == Cardinality(t)
    <3>1. x \in t /\ u \in SUBSET DOMAIN s /\ k \in Nat \ {0} /\ Cardinality(u) = k - 1
      BY <2>4, <2>6, OneLess
    <3>2. F[t] = s[x] + F[u]
      BY <1>2, <2>4, <2>6 DEF Summand
    <3>3. F[u] = Value(u)
      <4>1. Cardinality(u) \notin counts
        <5> HIDE DEF u, k, counts
        <5>1. m = k
          BY <2>3 DEF k
        <5> QED BY <2>2, <3>1, <5>1
      <4> HIDE DEF u
      <4> QED BY <3>1, <4>1
    <3>4. /\ (k - 1) * c \in Int /\ (k - 1) * c + c = k * c
          /\ (k - 1 - 1) * c \in Int /\ (k - 1 - 1) * c + c = (k - 1) * c
      <4> HIDE DEF k
      <4> QED BY <3>1, OneMoreInt
    <3>5. CASE x = i
      <4>1. F[u] = (k - 1) * c /\ Value(t) = (k - 1) * c + s[i]
        BY <3>1, <3>3, <3>5
      <4>2. F[t] = s[i] + (k - 1) * c
        BY <3>2, <3>5, <4>1
      <4> HIDE DEF k
      <4> QED BY <1>3, <2>4, <3>4, <4>1, <4>2
    <3>6. CASE x # i
      <4>1. s[x] = c
        BY <2>4, <3>1, <3>6
      <4>2. CASE i \in t
        <5>1. F[u] = (k - 1 - 1) * c + s[i] /\ Value(t) = (k - 1) * c + s[i]
          BY <3>1, <3>3, <3>6, <4>2
        <5> HIDE DEF k, x, u
        <5> QED BY <1>3, <2>4, <3>2, <3>4, <4>1, <5>1
      <4>3. CASE i \notin t
        <5>1. F[u] = (k - 1) * c /\ Value(t) = k * c
          BY <3>1, <3>3, <4>3
        <5> HIDE DEF k, x, u
        <5> QED BY <1>3, <2>4, <3>2, <3>4, <4>1, <5>1
      <4> QED BY <4>2, <4>3
    <3> QED BY <3>5, <3>6
  <2> QED BY <2>5, <2>6
<1>5. F[DOMAIN s] = Value(DOMAIN s)
  BY <1>4
<1>6. F[DOMAIN s] = (SampleSize(s) - 1) * c + s[i]
  BY <1>5 DEF SampleSize
<1> QED BY <1>1, <1>6
=============================================================================
