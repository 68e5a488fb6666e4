----------------------- MODULE PublisherQuotesProofs ------------------------
(***************************************************************************)
(* What compute_dispersion guarantees for every number of publishers and   *)
(* every quotes: its score is a score, a lone outlier does not move it,    *)
(* and it does not fall while the highest quote rises.                     *)
(***************************************************************************)
EXTENDS PublisherQuotes, StatisticsProofs, SequenceTheorems

-----------------------------------------------------------------------------
(* The two sloping bands of the ramp *)
LEMMA MiddleBand ==
  ASSUME NEW t \in Nat \ {0}, NEW b \in Nat, b >= 2 * t
  PROVE  /\ (100 * (b - 2 * t)) \div (3 * t) \in Nat
         /\ b < 20 * t => (100 * (b - 2 * t)) \div (3 * t) <= 600
         /\ \A c \in Nat : b <= c =>
              (100 * (b - 2 * t)) \div (3 * t) <= (100 * (c - 2 * t)) \div (3 * t)
<1> DEFINE x == 100 * (b - 2 * t)
           p == 3 * t
<1>1. x \in Nat /\ p \in Nat \ {0} /\ (b < 20 * t => x <= 600 * p)
  OBVIOUS
<1>2. ASSUME NEW c \in Nat, b <= c
      PROVE  x \div p <= (100 * (c - 2 * t)) \div p
  <2> DEFINE y == 100 * (c - 2 * t)
  <2>1. y \in Nat /\ x <= y
    BY <1>2
  <2> HIDE DEF x, p, y
  <2>2. x * p <= y * p
    BY <1>1, <2>1, SMTT(30)
  <2>3. x \div p <= y \div p
    BY <1>1, <2>1, <2>2, WholePartsRise
  <2> QED BY <2>3 DEF y
<1>3. x \div p \in Nat /\ (b < 20 * t => x \div p <= 600)
  <2> HIDE DEF x, p
  <2> QED BY <1>1, WholePart, WholePartAtMost
<1> QED BY <1>2, <1>3

LEMMA UpperBand ==
  ASSUME NEW t \in Nat \ {0}, NEW b \in Nat, b >= 20 * t
  PROVE  /\ (40 * (b - 20 * t)) \div (3 * t) \in Nat
         /\ b < 50 * t => (40 * (b - 20 * t)) \div (3 * t) <= 400
         /\ \A c \in Nat : b <= c =>
              (40 * (b - 20 * t)) \div (3 * t) <= (40 * (c - 20 * t)) \div (3 * t)
<1> DEFINE x == 40 * (b - 20 * t)
           p == 3 * t
<1>1. x \in Nat /\ p \in Nat \ {0} /\ (b < 50 * t => x <= 400 * p)
  OBVIOUS
<1>2. ASSUME NEW c \in Nat, b <= c
      PROVE  x \div p <= (40 * (c - 20 * t)) \div p
  <2> DEFINE y == 40 * (c - 20 * t)
  <2>1. y \in Nat /\ x <= y
    BY <1>2
  <2> HIDE DEF x, p, y
  <2>2. x * p <= y * p
    BY <1>1, <2>1, SMTT(30)
  <2>3. x \div p <= y \div p
    BY <1>1, <2>1, <2>2, WholePartsRise
  <2> QED BY <2>3 DEF y
<1>3. x \div p \in Nat /\ (b < 50 * t => x \div p <= 400)
  <2> HIDE DEF x, p
  <2> QED BY <1>1, WholePart, WholePartAtMost
<1> QED BY <1>2, <1>3

LEMMA SpreadRange ==
  ASSUME NEW t \in Nat \ {0}, NEW b \in Nat
  PROVE  SpreadScore(b, t) \in 0 .. Unit
<1>1. CASE b < 2 * t
  BY <1>1 DEF SpreadScore, Unit
<1>2. CASE b >= 2 * t /\ b < 20 * t
  <2> DEFINE x == (100 * (b - 2 * t)) \div (3 * t)
  <2>1. x \in Nat /\ x <= 600
    BY <1>2, MiddleBand
  <2>2. SpreadScore(b, t) = x
    BY <1>2 DEF SpreadScore
  <2> HIDE DEF x
  <2> QED BY <2>1, <2>2 DEF Unit
<1>3. CASE b >= 20 * t /\ b < 50 * t
  <2> DEFINE x == (40 * (b - 20 * t)) \div (3 * t)
  <2>1. x \in Nat /\ x <= 400
    BY <1>3, UpperBand
  <2>2. SpreadScore(b, t) = 600 + x
    BY <1>3 DEF SpreadScore
  <2> HIDE DEF x
  <2> QED BY <2>1, <2>2 DEF Unit
<1>4. CASE b >= 50 * t
  BY <1>4 DEF SpreadScore, Unit
<1> QED BY <1>1, <1>2, <1>3, <1>4

LEMMA SpreadRises ==
  ASSUME NEW t \in Nat \ {0}, NEW b \in Nat, NEW c \in Nat, b <= c
  PROVE  SpreadScore(b, t) <= SpreadScore(c, t)
<1> DEFINE x == SpreadScore(b, t)
           y == SpreadScore(c, t)
<1>1. x \in 0 .. 1000 /\ y \in 0 .. 1000
  <2>1. SpreadScore(b, t) \in 0 .. Unit /\ SpreadScore(c, t) \in 0 .. Unit
    BY SpreadRange
  <2> QED BY <2>1 DEF Unit
<1>2. CASE b < 2 * t
  <2>1. x = 0
    BY <1>2 DEF SpreadScore
  <2> HIDE DEF x, y
  <2>2. x <= y
    BY <1>1, <2>1
  <2> QED BY <2>2 DEF x, y
<1>3. CASE c >= 50 * t
  <2>1. y = 1000
    BY <1>3 DEF SpreadScore, Unit
  <2> HIDE DEF x, y
  <2>2. x <= y
    BY <1>1, <2>1
  <2> QED BY <2>2 DEF x, y
<1>4. CASE b >= 2 * t /\ c < 20 * t
  <2>1. x = (100 * (b - 2 * t)) \div (3 * t) /\ y = (100 * (c - 2 * t)) \div (3 * t)
    BY <1>4 DEF SpreadScore
  <2> QED BY <1>4, <2>1, MiddleBand
<1>5. CASE b >= 20 * t /\ c < 50 * t
  <2> DEFINE m == (40 * (b - 20 * t)) \div (3 * t)
             n == (40 * (c - 20 * t)) \div (3 * t)
  <2>1. x = 600 + m /\ y = 600 + n
    BY <1>5 DEF SpreadScore
  <2>2. m \in Nat /\ n \in Nat /\ m <= n
    BY <1>5, UpperBand
  <2> HIDE DEF x, y, m, n
  <2>3. x <= y
    BY <2>1, <2>2
  <2> QED BY <2>3 DEF x, y
<1>6. CASE b >= 2 * t /\ b < 20 * t /\ c >= 20 * t /\ c < 50 * t
  <2> DEFINE m == (100 * (b - 2 * t)) \div (3 * t)
             n == (40 * (c - 20 * t)) \div (3 * t)
  <2>1. x = m /\ y = 600 + n
    BY <1>6 DEF SpreadScore
  <2>2. m \in Nat /\ n \in Nat /\ m <= 600
    BY <1>6, MiddleBand, UpperBand
  <2> HIDE DEF x, y, m, n
  <2>3. x <= y
    BY <2>1, <2>2
  <2> QED BY <2>3 DEF x, y
<1> QED BY <1>2, <1>3, <1>4, <1>5, <1>6

-----------------------------------------------------------------------------
LEMMA ValidSample ==
  ASSUME NEW q \in Seq(Nat)
  PROVE  /\ Sample(ValidPrices(q)) /\ DOMAIN ValidPrices(q) \subseteq DOMAIN q
         /\ SampleSize(ValidPrices(q)) \in Nat /\ Len(q) \in Nat
         /\ \A i \in DOMAIN ValidPrices(q) : ValidPrices(q)[i] = q[i] /\ q[i] \in Nat \ {0}
<1>1. Sample(q)
  BY SequenceIsSample
<1>2. \A i \in DOMAIN q : q[i] \in Nat
  OBVIOUS
<1>3. /\ DOMAIN ValidPrices(q) = {j \in DOMAIN q : q[j] > 0}
      /\ \A i \in DOMAIN ValidPrices(q) : ValidPrices(q)[i] = q[i] /\ q[i] \in Nat \ {0}
  BY <1>2 DEF ValidPrices
<1>4. IsFiniteSet(DOMAIN ValidPrices(q))
  BY <1>1, <1>3, CountInSample DEF Sample
<1>5. Sample(ValidPrices(q))
  BY <1>3, <1>4 DEF Sample
<1> QED BY <1>3, <1>5, SampleCounts

LEMMA AllValid ==
  ASSUME NEW q \in Seq(Nat), \A j \in DOMAIN q : q[j] > 0
  PROVE  ValidPrices(q) = q /\ SampleSize(q) = Len(q) /\ Len(q) \in Nat
<1>1. {j \in DOMAIN q : q[j] > 0} = DOMAIN q
  OBVIOUS
<1>2. q = [i \in DOMAIN q |-> q[i]]
  OBVIOUS
<1>3. ValidPrices(q) = q
  BY <1>1, <1>2 DEF ValidPrices
<1> QED BY <1>3, SequenceIsSample

(* The ranks of the quartiles and of the median *)
LEMMA MiddlingRanks ==
  ASSUME NEW n \in Nat, n >= 3
  PROVE  /\ (n \div 4) + 1 \in 1 .. n - 1 /\ ((3 * n) \div 4) + 1 \in 1 .. n
         /\ (n \div 4) + 1 <= ((3 * n) \div 4) + 1
         /\ (n + 1) \div 2 \in 1 .. n - 1 /\ (n \div 2) + 1 \in 1 .. n - 1
         /\ n >= 5 => (n \div 4) + 1 \in 2 .. n - 1 /\ ((3 * n) \div 4) + 1 \in 2 .. n - 1
OBVIOUS

LEMMA MedianPositive ==
  ASSUME NEW s, Sample(s), \A i \in DOMAIN s : s[i] \in Nat \ {0}, SampleSize(s) # 0
  PROVE  TwiceMedian(s) \in Nat \ {0}
<1>1. PICK i \in DOMAIN s, j \in DOMAIN s : TwiceMedian(s) = s[i] + s[j]
  BY MedianOfReadings
<1>2. s[i] \in Nat \ {0} /\ s[j] \in Nat \ {0}
  OBVIOUS
<1> QED BY <1>1, <1>2

LEMMA QuartilesApart ==
  ASSUME NEW s, Sample(s), SampleSize(s) >= MinPublishers
  PROVE  /\ LowerQuartile(s) \in Int /\ UpperQuartile(s) \in Int
         /\ LowerQuartile(s) <= UpperQuartile(s)
<1> DEFINE n == SampleSize(s)
<1>1. n \in Nat /\ n >= 3
  BY SampleCounts DEF MinPublishers
<1>2. /\ (n \div 4) + 1 \in 1 .. n /\ ((3 * n) \div 4) + 1 \in 1 .. n
      /\ (n \div 4) + 1 <= ((3 * n) \div 4) + 1
  BY <1>1, MiddlingRanks
<1> QED BY <1>2, OrderStatisticRanks, OrderStatisticsRise DEF LowerQuartile, UpperQuartile

LEMMA DispersionRange ==
  ASSUME NEW q \in Seq(Nat)
  PROVE  DispersionScore(q) \in 0 .. Unit
<1> DEFINE s == ValidPrices(q)
           b == 20000 * (UpperQuartile(s) - LowerQuartile(s))
<1>1. CASE EnoughQuotes(q)
  <2>1. Sample(s) /\ SampleSize(s) >= MinPublishers /\ SampleSize(s) # 0
        /\ \A i \in DOMAIN s : s[i] \in Nat \ {0}
    BY <1>1, ValidSample DEF EnoughQuotes, MinPublishers
  <2> HIDE DEF s
  <2>2. b \in Nat /\ TwiceMedian(s) \in Nat \ {0}
    BY <2>1, QuartilesApart, MedianPositive
  <2>3. DispersionScore(q) = SpreadScore(b, TwiceMedian(s))
    BY <1>1 DEF DispersionScore, s
  <2> HIDE DEF b
  <2> QED BY <2>2, <2>3, SpreadRange
<1>2. CASE ~EnoughQuotes(q)
  BY <1>2 DEF DispersionScore, Unit
<1> QED BY <1>1, <1>2

-----------------------------------------------------------------------------
Quotes == quotes \in Seq(Prices) /\ Len(quotes) <= MaxPublishers

LEMMA QuotesAreNatural ==
  ASSUME NEW q \in Seq(Prices)
  PROVE  q \in Seq(Nat)
BY PricesAssumption, SeqMonotonic

LEMMA QuotesAlways == Spec => []Quotes
<1>1. Init => Quotes
  BY PublisherAssumption DEF Init, Quotes
<1>2. ASSUME Quotes, NEW p \in Prices, Join(p) PROVE Quotes'
  BY <1>2, PublisherAssumption DEF Quotes, Join
<1>3. ASSUME Quotes, NEW i \in DOMAIN quotes, Leave(i) PROVE Quotes'
  <2> DEFINE before == SubSeq(quotes, 1, i - 1)
             after == SubSeq(quotes, i + 1, Len(quotes))
  <2>1. quotes \in Seq(Prices) /\ Len(quotes) \in Nat /\ i \in 1 .. Len(quotes)
    BY <1>3 DEF Quotes
  <2>2. before \in Seq(Prices) /\ Len(before) = i - 1
    BY <2>1, SubSeqProperties
  <2>3. after \in Seq(Prices) /\ Len(after) = Len(quotes) - i
    BY <2>1, SubSeqProperties
  <2>4. quotes' = before \o after
    BY <1>3 DEF Leave, RemoveAt
  <2> HIDE DEF before, after
  <2> QED BY <1>3, <2>1, <2>2, <2>3, <2>4, PublisherAssumption DEF Quotes
<1>4. ASSUME Quotes, NEW i \in DOMAIN quotes, NEW p \in Prices, Requote(i, p) PROVE Quotes'
  BY <1>4, ExceptSeq DEF Quotes, Requote
<1>5. Quotes /\ [Next]_quotes => Quotes'
  BY <1>2, <1>3, <1>4 DEF Next, Quotes
<1> QED BY <1>1, <1>5, PTL DEF Spec

(* Every quotes the publishers can reach is scored within 0 .. Unit, and   *)
(* only a publisher is named an outlier.                                   *)
THEOREM QuoteTypes == Spec => []TypeOK
<1>1. Quotes => TypeOK
  <2> SUFFICES ASSUME Quotes PROVE TypeOK
    OBVIOUS
  <2>1. DispersionScore(quotes) \in 0 .. Unit
    BY QuotesAreNatural, DispersionRange DEF Quotes
  <2>2. Outliers(quotes) \subseteq DOMAIN quotes
    BY DEF Outliers
  <2> QED BY <2>1, <2>2 DEF Quotes, TypeOK
<1> QED BY <1>1, QuotesAlways, PTL

(* Among five publishers or more, a single disagreeing quote - whichever   *)
(* it is and however far off - leaves compute_dispersion at 0.             *)
THEOREM RobustToOneOutlier == Spec => []LoneOutlierIgnored
<1>1. ASSUME Quotes, Len(quotes) >= 5, NEW i \in DOMAIN quotes, LoneOutlier(i)
      PROVE  DispersionScore(quotes) = 0
  <2> DEFINE n == Len(quotes)
  <2>1. quotes \in Seq(Nat)
    BY <1>1, QuotesAreNatural DEF Quotes
  <2>2. ValidPrices(quotes) = quotes /\ SampleSize(quotes) = n /\ Sample(quotes) /\ n \in Nat
    BY <1>1, <2>1, AllValid, ValidSample DEF LoneOutlier
  <2>3. PICK k \in DOMAIN quotes \ {i} : quotes[k] # quotes[i]
    BY <1>1 DEF LoneOutlier
  <2>4. \A j \in DOMAIN quotes \ {i} : quotes[j] = quotes[k]
    BY <1>1, <2>3 DEF LoneOutlier
  <2>5. quotes[k] \in Int
    BY <2>1
  <2>6. (n \div 4) + 1 \in 2 .. n - 1 /\ ((3 * n) \div 4) + 1 \in 2 .. n - 1
    BY <1>1, <2>2, MiddlingRanks
  <2>7. LowerQuartile(quotes) = quotes[k] /\ UpperQuartile(quotes) = quotes[k]
    <3> HIDE DEF n
    <3> QED BY <2>2, <2>4, <2>5, <2>6, OddOneAtTheEnds DEF LowerQuartile, UpperQuartile
  <2>8. TwiceMedian(quotes) \in Nat \ {0}
    BY <1>1, <2>1, <2>2, MedianPositive DEF LoneOutlier
  <2>9. EnoughQuotes(quotes)
    BY <1>1, <2>2 DEF EnoughQuotes, MinPublishers
  <2>10. 20000 * (UpperQuartile(quotes) - LowerQuartile(quotes)) = 0
    BY <2>5, <2>7
  <2>11. DispersionScore(quotes) = SpreadScore(0, TwiceMedian(quotes))
    BY <2>2, <2>9, <2>10 DEF DispersionScore
  <2> QED BY <2>8, <2>11 DEF SpreadScore
<1>2. Quotes => LoneOutlierIgnored
  BY <1>1 DEF LoneOutlierIgnored
<1> QED BY <1>2, QuotesAlways, PTL

LEMMA TotalIsSum ==
  ASSUME NEW s
  PROVE  Total(s) = SumOf(s)
BY Zenon DEF Total, FoldFunction, FoldFunctionOnSet, MapThenFoldSet, SumOf, Sums, Summand, One

(* What a lone outlier at a distance of d contributes itself to the        *)
(* variance, and every other quote because of it                           *)
LEMMA SquaresOfOne ==
  ASSUME NEW s, Sample(s), NEW i \in DOMAIN s, NEW b \in Int,
         \A j \in DOMAIN s \ {i} : s[j] = b
  PROVE  LET n == SampleSize(s)  d == s[i] - b
         IN  SquaredDeviations(s) = (n - 1) * (n * (d * d))
<1> DEFINE n == SampleSize(s)
           d == s[i] - b
           deviation == [j \in DOMAIN s |-> n * s[j] - Total(s)]
           squares == [j \in DOMAIN s |-> deviation[j] * deviation[j]]
<1>1. n \in Int /\ s[i] \in Int /\ d \in Int /\ IsFiniteSet(DOMAIN s)
  BY SampleCounts DEF Sample
<1>2. Total(s) = (n - 1) * b + s[i]
  BY TotalIsSum, SumButOne
<1>3. SquaredDeviations(s) = SumOf(squares)
  <2>1. SquaredDeviations(s) = Total(squares)
    BY Zenon DEF SquaredDeviations, Total
  <2> QED BY <2>1, TotalIsSum
<1>4. ASSUME NEW j \in DOMAIN s \ {i} PROVE squares[j] = d * d
  <2>1. s[j] = b
    OBVIOUS
  <2>2. squares[j] = (n * b - Total(s)) * (n * b - Total(s))
    BY <2>1
  <2> HIDE DEF n, squares
  <2>3. n * b - Total(s) = b - s[i]
    BY <1>1, <1>2
  <2>4. (b - s[i]) * (b - s[i]) = d * d
    BY <1>1
  <2> QED BY <2>2, <2>3, <2>4
<1>5. squares[i] = ((n - 1) * d) * ((n - 1) * d)
  <2>1. squares[i] = (n * s[i] - Total(s)) * (n * s[i] - Total(s))
    OBVIOUS
  <2> HIDE DEF n, squares
  <2>2. n * s[i] - Total(s) = (n - 1) * d
    BY <1>1, <1>2
  <2> QED BY <2>1, <2>2
<1>6. DOMAIN squares = DOMAIN s /\ SampleSize(squares) = n
  BY DEF SampleSize
<1> HIDE DEF squares, n, d
<1>7. /\ d * d \in Int /\ ((n - 1) * d) * ((n - 1) * d) \in Int
  BY <1>1
<1>8. Sample(squares)
  BY <1>1, <1>4, <1>5, <1>6, <1>7 DEF Sample
<1>9. SumOf(squares) = (n - 1) * (d * d) + ((n - 1) * d) * ((n - 1) * d)
  BY <1>4, <1>5, <1>6, <1>7, <1>8, SumButOne
<1>10. (n - 1) * (d * d) + ((n - 1) * d) * ((n - 1) * d) = (n - 1) * (n * (d * d))
  BY <1>1, SMTT(30)
<1> QED BY <1>3, <1>9, <1>10 DEF n, d

(* Of five readings or more, a lone one is further away than two of its    *)
(* own standard deviations.                                                *)
LEMMA BeyondTwoDeviations ==
  ASSUME NEW n \in Nat, n >= 5, NEW d \in Int, d # 0
  PROVE  LET v == (n - 1) * (n * (d * d))
         IN  /\ v \in Nat \ {0} /\ n * n * (n - 1) \in Nat \ {0}
             /\ (2 * d) * (2 * d) > (16 * v) \div (n * n * (n - 1))
             /\ ~(0 * 0 > (16 * v) \div (n * n * (n - 1)))
<1> DEFINE w == d * d
           k == (n - 1) * (n * w)
           p == n * n * (n - 1)
           x == (16 * k) \div p
<1>1. w \in Nat \ {0}
  BY SMTT(30)
<1>2. p \in Nat \ {0}
  BY SMTT(30)
<1>3. (2 * d) * (2 * d) = 4 * w
  BY SMTT(30)
<1> HIDE DEF w
<1>4. k \in Nat \ {0}
  BY <1>1, SMTT(30)
<1>5. (4 * w) * p = 4 * (n * k)
  BY <1>1, SMTT(30)
<1> HIDE DEF k, p
<1>6. x \in Nat /\ x * p <= 16 * k
  BY <1>2, <1>4, WholePart
<1> HIDE DEF x
<1>7. ASSUME 4 * w <= x PROVE FALSE
  <2>1. (4 * w) * p <= x * p
    BY <1>1, <1>2, <1>6, <1>7, SMTT(30)
  <2>2. 5 * k <= n * k
    BY <1>4, SMTT(30)
  <2> DEFINE m == n * k
             y == x * p
  <2>3. m \in Nat /\ y \in Nat
    BY <1>2, <1>4, <1>6
  <2>4. 4 * m <= y /\ 5 * k <= m /\ y <= 16 * k
    BY <1>5, <1>6, <2>1, <2>2
  <2> HIDE DEF m, y
  <2> QED BY <1>4, <2>3, <2>4
<1>8. 4 * w > x /\ ~(0 * 0 > x)
  BY <1>1, <1>6, <1>7
<1> QED BY <1>2, <1>3, <1>4, <1>8 DEF w, k, p, x

(* Among five publishers or more, the one that disagrees is named, and     *)
(* nobody else, whatever its distance.                                     *)
THEOREM OneOutlierIsNamed == Spec => []LoneOutlierNamed
<1>1. ASSUME Quotes, Len(quotes) >= 5, NEW i \in DOMAIN quotes, LoneOutlier(i)
      PROVE  Outliers(quotes) = {i}
  <2> DEFINE n == Len(quotes)
  <2>1. quotes \in Seq(Nat)
    BY <1>1, QuotesAreNatural DEF Quotes
  <2>2. ValidPrices(quotes) = quotes /\ SampleSize(quotes) = n /\ Sample(quotes) /\ n \in Nat
    BY <1>1, <2>1, AllValid, ValidSample DEF LoneOutlier
  <2>3. PICK k \in DOMAIN quotes \ {i} : quotes[k] # quotes[i]
    BY <1>1 DEF LoneOutlier
  <2>4. \A j \in DOMAIN quotes \ {i} : quotes[j] = quotes[k]
    BY <1>1, <2>3 DEF LoneOutlier
  <2> DEFINE b == quotes[k]
             d == quotes[i] - b
             v == (n - 1) * (n * (d * d))
  <2>5. b \in Int /\ quotes[i] \in Int /\ d \in Int /\ d # 0
    BY <2>1, <2>3
  <2>6. TwiceMedian(quotes) = 2 * b
    <3>1. (n + 1) \div 2 \in 2 .. n - 1 /\ (n \div 2) + 1 \in 2 .. n - 1
      BY <1>1, <2>2
    <3> HIDE DEF n, b
    <3>2. \A j \in DOMAIN quotes \ {i} : quotes[j] = b
      BY <2>4 DEF b
    <3>3. /\ OrderStatistic(quotes, (n + 1) \div 2) = b
          /\ OrderStatistic(quotes, (n \div 2) + 1) = b
      BY <2>2, <2>5, <3>1, <3>2, OddOneAtTheEnds
    <3> QED BY <2>2, <2>5, <3>3 DEF TwiceMedian
  <2>7. SquaredDeviations(quotes) = v
    BY <2>2, <2>4, <2>5, SquaresOfOne
  <2>8. EnoughQuotes(quotes)
    BY <1>1, <2>2 DEF EnoughQuotes, MinPublishers
  <2>9. Outliers(quotes) = {j \in DOMAIN quotes : IsOutlier(quotes, quotes[j])}
    BY <2>2, <2>8 DEF Outliers
  <2>10. /\ v \in Nat \ {0}
         /\ (2 * d) * (2 * d) > (16 * v) \div (n * n * (n - 1))
         /\ ~(0 * 0 > (16 * v) \div (n * n * (n - 1)))
    <3> HIDE DEF d
    <3> QED BY <1>1, <2>2, <2>5, BeyondTwoDeviations
  <2>11. IsOutlier(quotes, quotes[i])
    <3>1. 2 * quotes[i] - 2 * b = 2 * d
      BY <2>5
    <3> HIDE DEF n, v, b, d
    <3> QED BY <2>2, <2>6, <2>7, <2>10, <3>1 DEF IsOutlier
  <2>12. ASSUME NEW j \in DOMAIN quotes \ {i} PROVE ~IsOutlier(quotes, quotes[j])
    <3>1. quotes[j] = b /\ 2 * b - 2 * b = 0
      BY <2>4, <2>5
    <3> HIDE DEF n, v, b, d
    <3> QED BY <2>2, <2>6, <2>7, <2>10, <3>1 DEF IsOutlier
  <2> QED BY <2>9, <2>11, <2>12
<1>2. Quotes => LoneOutlierNamed
  BY <1>1 DEF LoneOutlierNamed
<1> QED BY <1>2, QuotesAlways, PTL

(* While the highest quote rises, the median and the lower quartile stay   *)
(* and the score does not fall.                                            *)
THEOREM RisingTopRaisesTheScore == Spec => []RisingTopNeverScoresLess
<1>1. ASSUME Quotes, NEW i \in DOMAIN quotes,
             \A j \in DOMAIN quotes : 0 < quotes[j] /\ quotes[j] <= quotes[i],
             NEW p \in Prices, p >= quotes[i]
      PROVE  DispersionScore(quotes) <= DispersionScore([quotes EXCEPT ![i] = p])
  <2> DEFINE risen == [quotes EXCEPT ![i] = p]
             n == Len(quotes)
  <2>1. quotes \in Seq(Nat) /\ p \in Nat /\ \A j \in DOMAIN quotes : quotes[j] \in Nat \ {0}
    BY <1>1, QuotesAreNatural, PricesAssumption DEF Quotes
  <2>2. /\ risen \in Seq(Nat) /\ Len(risen) = n /\ DOMAIN risen = DOMAIN quotes
        /\ \A j \in DOMAIN quotes : risen[j] = IF j = i THEN p ELSE quotes[j]
    BY <2>1, ExceptSeq
  <2> HIDE DEF risen
  <2>3. \A j \in DOMAIN quotes : risen[j] > 0 /\ quotes[j] <= risen[j]
    BY <1>1, <2>1, <2>2
  <2>4. ValidPrices(quotes) = quotes /\ SampleSize(quotes) = n /\ Sample(quotes) /\ n \in Nat
    BY <1>1, <2>1, AllValid, ValidSample
  <2>5. ValidPrices(risen) = risen /\ SampleSize(risen) = n /\ Sample(risen)
    BY <2>2, <2>3, AllValid, ValidSample
  <2>6. CASE ~(n >= 3)
    <3>1. DispersionScore(quotes) = 0 /\ DispersionScore(risen) = 0
      BY <2>2, <2>6 DEF DispersionScore, EnoughQuotes, MinPublishers
    <3> QED BY <3>1 DEF risen
  <2>7. CASE n >= 3
    <3>1. /\ (n \div 4) + 1 \in 1 .. n - 1 /\ ((3 * n) \div 4) + 1 \in 1 .. n
          /\ (n + 1) \div 2 \in 1 .. n - 1 /\ (n \div 2) + 1 \in 1 .. n - 1
      BY <2>4, <2>7, MiddlingRanks
    <3>2. \A k \in 1 .. n - 1 : OrderStatistic(risen, k) = OrderStatistic(quotes, k)
      <4>1. \A j \in DOMAIN quotes : quotes[j] <= quotes[i]
        BY <1>1
      <4>2. p \in Int /\ quotes[i] <= p
        BY <1>1, <2>1
      <4>3. ASSUME NEW k \in 1 .. SampleSize(quotes) - 1
            PROVE  OrderStatistic([quotes EXCEPT ![i] = p], k) = OrderStatistic(quotes, k)
        BY <2>4, <4>1, <4>2, RisingTopStaysOnTop
      <4> QED BY <2>4, <4>3 DEF risen
    <3>3. LowerQuartile(risen) = LowerQuartile(quotes) /\ TwiceMedian(risen) = TwiceMedian(quotes)
      BY <2>4, <2>5, <3>1, <3>2 DEF LowerQuartile, TwiceMedian
    <3>4. UpperQuartile(quotes) <= UpperQuartile(risen)
      BY <2>2, <2>3, <2>4, <2>5, <3>1, OrderStatisticsFollow DEF UpperQuartile
    <3>5. TwiceMedian(quotes) \in Nat \ {0}
      <4>1. SampleSize(quotes) # 0 /\ \A j \in DOMAIN quotes : quotes[j] \in Nat \ {0}
        BY <2>1, <2>4, <2>7
      <4> QED BY <2>4, <4>1, MedianPositive
    <3> DEFINE b == 20000 * (UpperQuartile(quotes) - LowerQuartile(quotes))
               c == 20000 * (UpperQuartile(risen) - LowerQuartile(quotes))
    <3>6. b \in Nat /\ c \in Nat /\ b <= c
      BY <2>4, <2>5, <2>7, <3>3, <3>4, QuartilesApart DEF MinPublishers
    <3>7. /\ DispersionScore(quotes) = SpreadScore(b, TwiceMedian(quotes))
          /\ DispersionScore(risen) = SpreadScore(c, TwiceMedian(quotes))
      BY <2>2, <2>4, <2>5, <2>7, <3>3 DEF DispersionScore, EnoughQuotes, MinPublishers
    <3>8. SpreadScore(b, TwiceMedian(quotes)) <= SpreadScore(c, TwiceMedian(quotes))
      <4> HIDE DEF b, c
      <4> QED BY <3>5, <3>6, SpreadRises
    <3>9. DispersionScore(quotes) <= DispersionScore(risen)
      BY <3>7, <3>8
    <3> QED BY <3>9 DEF risen
  <2> QED BY <2>6, <2>7
<1>2. Quotes => RisingTopNeverScoresLess
  BY <1>1 DEF RisingTopNeverScoresLess
<1> QED BY <1>2, QuotesAlways, PTL
=============================================================================
