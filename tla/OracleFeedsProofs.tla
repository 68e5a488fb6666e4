------------------------- MODULE OracleFeedsProofs --------------------------
(***************************************************************************)
(* What compute_divergence guarantees for every two prices, bands and      *)
(* ages.  TypeOK is inductive; the other properties are facts about the    *)
(* score of any two well-typed prices.                                     *)
(***************************************************************************)
EXTENDS OracleFeeds, StatisticsProofs

PythPrice == [price : Int, band : Nat, time : Int]
ChainlinkPrice == [price : Int, time : Int]

(* The score of a gap of g over two prices of sum t *)
GapOver(g, t) == AtMost(Unit, (200000 * g) \div t)

LEMMA ScoreOfGap ==
  ASSUME NEW a \in PythPrice, NEW c \in ChainlinkPrice
  PROVE  DivergenceScore(a, c) =
           IF /\ a.price > 0 /\ c.price > 0
              /\ ~(Distance(a.time, c.time) > MaxAgeDiff)
              /\ ~(a.band > 0 /\ Distance(a.price, c.price) <= a.band)
              /\ 20000 * Distance(a.price, c.price) >= 5 * (a.price + c.price)
           THEN GapOver(Distance(a.price, c.price), a.price + c.price)
           ELSE 0
<1>1. a.price \in Int /\ c.price \in Int /\ a.band \in Nat
  BY DEF PythPrice, ChainlinkPrice
<1>2. 200 * Unit = 200000
  BY DEF Unit
<1> QED
  BY <1>1, <1>2 DEF DivergenceScore, DivergenceReason, GapScore, GapOver, Stale, Overlap, AtLeastBps,
     SignificanceBps

LEMMA GapOverRange ==
  ASSUME NEW g \in Nat, NEW t \in Nat \ {0}
  PROVE  GapOver(g, t) \in 0 .. Unit
<1> DEFINE x == 200000 * g
<1>1. x \in Nat
  OBVIOUS
<1>2. GapOver(g, t) = AtMost(Unit, x \div t)
  BY DEF GapOver
<1> HIDE DEF x
<1> QED BY <1>1, <1>2, CappedPart

LEMMA GapOverRises ==
  ASSUME NEW g \in Nat, NEW t \in Nat \ {0}, NEW h \in Nat, NEW u \in Nat \ {0}, g * u <= h * t
  PROVE  GapOver(g, t) <= GapOver(h, u)
<1> DEFINE x == 200000 * g
           y == 200000 * h
           m == x \div t
           n == y \div u
<1>1. x \in Nat /\ y \in Nat /\ g * u \in Nat /\ h * t \in Nat
  OBVIOUS
<1>2. x * u <= y * t
  <2>1. x * u = 200000 * (g * u) /\ y * t = 200000 * (h * t)
    BY Z3
  <2> HIDE DEF x, y
  <2> QED BY <1>1, <2>1
<1>3. m \in Nat /\ n \in Nat /\ m <= n
  <2> HIDE DEF x, y
  <2> QED BY <1>1, <1>2, WholePart, WholePartsRise
<1> HIDE DEF m, n
<1>4. AtMost(1000, m) <= AtMost(1000, n)
  BY <1>3 DEF AtMost
<1> QED BY <1>4 DEF GapOver, Unit, m, n

LEMMA ScoreRange ==
  ASSUME NEW a \in PythPrice, NEW c \in ChainlinkPrice
  PROVE  DivergenceScore(a, c) \in 0 .. Unit
<1>1. a.price \in Int /\ c.price \in Int
  BY DEF PythPrice, ChainlinkPrice
<1>2. CASE a.price > 0 /\ c.price > 0
  <2>1. Distance(a.price, c.price) \in Nat /\ a.price + c.price \in Nat \ {0}
    BY <1>1, <1>2 DEF Distance
  <2>2. GapOver(Distance(a.price, c.price), a.price + c.price) \in 0 .. Unit
    BY <2>1, GapOverRange
  <2> QED BY <2>2, ScoreOfGap DEF Unit
<1>3. CASE ~(a.price > 0 /\ c.price > 0)
  <2>1. DivergenceScore(a, c) = 0
    BY <1>3, ScoreOfGap
  <2> QED BY <2>1 DEF Unit
<1> QED BY <1>2, <1>3

-----------------------------------------------------------------------------
(* Two positive prices and a third one further away on the same side: the  *)
(* gap grows by more than the mid price.                                   *)
LEMMA GapOutgrowsMid ==
  ASSUME NEW a \in Int, NEW c \in Int, NEW p \in Int, a > 0, c > 0, p > 0,
         (a < c /\ c <= p) \/ (a > c /\ c >= p)
  PROVE  Distance(a, c) * (a + p) <= Distance(a, p) * (a + c)
<1>1. a * c \in Int /\ a * p \in Int /\ c * p \in Int /\ a * a \in Int /\ c * a = a * c /\ p * a = a * p
      /\ p * c = c * p
  BY Z3
<1>2. /\ (c - a) * (a + p) = (a * c) + (c * p) - (a * a) - (a * p)
      /\ (p - a) * (a + c) = (a * p) + (c * p) - (a * a) - (a * c)
      /\ (a - c) * (a + p) = (a * a) + (a * p) - (a * c) - (c * p)
      /\ (a - p) * (a + c) = (a * a) + (a * c) - (a * p) - (c * p)
  BY Z3
<1>3. CASE a < c /\ c <= p
  <2>1. a * c <= a * p
    BY <1>3, Z3
  <2>2. (c - a) * (a + p) <= (p - a) * (a + c)
    BY <1>1, <1>2, <2>1
  <2> QED BY <1>3, <2>2 DEF Distance
<1>4. CASE a > c /\ c >= p
  <2>1. a * p <= a * c
    BY <1>4, Z3
  <2>2. (a - c) * (a + p) <= (a - p) * (a + c)
    BY <1>1, <1>2, <2>1
  <2> QED BY <1>4, <2>2 DEF Distance
<1> QED BY <1>3, <1>4

LEMMA FurtherScoresMore ==
  ASSUME NEW a \in PythPrice, NEW c \in ChainlinkPrice, NEW p \in Int,
         (a.price < c.price /\ c.price <= p) \/ (a.price > c.price /\ c.price >= p /\ p > 0)
  PROVE  DivergenceScore(a, c) <= DivergenceScore(a, [c EXCEPT !.price = p])
<1> DEFINE d == [c EXCEPT !.price = p]
           g == Distance(a.price, c.price)
           h == Distance(a.price, p)
           t == a.price + c.price
           u == a.price + p
<1>1. a.price \in Int /\ c.price \in Int /\ a.band \in Nat
  BY DEF PythPrice, ChainlinkPrice
<1>2. d \in ChainlinkPrice /\ d.price = p /\ d.time = c.time
  BY DEF ChainlinkPrice
<1>3. DivergenceScore(a, c) \in 0 .. Unit /\ DivergenceScore(a, d) \in 0 .. Unit
  BY <1>2, ScoreRange
<1>4. CASE DivergenceScore(a, c) = 0
  <2>1. 0 <= DivergenceScore(a, d)
    BY <1>3 DEF Unit
  <2> QED BY <1>4, <2>1
<1>5. CASE DivergenceScore(a, c) # 0
  <2>1. /\ a.price > 0 /\ c.price > 0
        /\ ~(Distance(a.time, c.time) > MaxAgeDiff)
        /\ ~(a.band > 0 /\ g <= a.band)
        /\ 20000 * g >= 5 * t
        /\ DivergenceScore(a, c) = GapOver(g, t)
    BY <1>5, ScoreOfGap
  <2>2. p > 0
    BY <1>1, <2>1
  <2>3. g \in Nat /\ h \in Nat /\ g <= h /\ t \in Nat \ {0} /\ u \in Nat \ {0}
    BY <1>1, <2>1, <2>2 DEF Distance
  <2>4. ~(a.band > 0 /\ h <= a.band)
    <3> HIDE DEF g, h
    <3> QED BY <1>1, <2>1, <2>3
  <2>5. 20000 * h >= 5 * u
    BY <1>1, <2>1, <2>2 DEF Distance
  <2>6. DivergenceScore(a, d) = GapOver(h, u)
    <3>1. /\ Distance(a.price, d.price) = h /\ a.price + d.price = u
          /\ Distance(a.time, d.time) = Distance(a.time, c.time)
      BY <1>2
    <3> HIDE DEF d, h, u
    <3> QED BY <1>2, <2>1, <2>2, <2>4, <2>5, <3>1, ScoreOfGap
  <2>7. g * u <= h * t
    BY <1>1, <2>1, <2>2, GapOutgrowsMid
  <2>8. GapOver(g, t) <= GapOver(h, u)
    <3> HIDE DEF g, h, t, u
    <3> QED BY <2>3, <2>7, GapOverRises
  <2> QED BY <2>1, <2>6, <2>8
<1> QED BY <1>4, <1>5

-----------------------------------------------------------------------------
Feeds ==
  /\ pyth \in [price : Prices, band : Bands, time : -MaxAge .. 0]
  /\ chainlink \in [price : Prices, time : -MaxAge .. 0]

LEMMA FeedsArePrices ==
  ASSUME Feeds
  PROVE  pyth \in PythPrice /\ chainlink \in ChainlinkPrice
<1>1. Prices \subseteq Int /\ Bands \subseteq Nat /\ -MaxAge .. 0 \subseteq Int
  BY FeedAssumption
<1>2. /\ [price : Prices, band : Bands, time : -MaxAge .. 0] \subseteq PythPrice
      /\ [price : Prices, time : -MaxAge .. 0] \subseteq ChainlinkPrice
  BY <1>1, Zenon DEF PythPrice, ChainlinkPrice
<1> QED BY <1>2 DEF Feeds

(* Every state has two well-typed prices. *)
LEMMA FeedsAlways == Spec => []Feeds
<1>1. Init => Feeds
  BY FeedAssumption DEF Init, Feeds
<1>2. Feeds /\ [Next]_vars => Feeds'
  <2> SUFFICES ASSUME Feeds, [Next]_vars PROVE Feeds'
    OBVIOUS
  <2>1. CASE PythPublishes
    BY <2>1, FeedAssumption DEF PythPublishes, Feeds
  <2>2. CASE ChainlinkPublishes
    BY <2>2, FeedAssumption DEF ChainlinkPublishes, Feeds
  <2>3. CASE Tick
    <3>1. \A t \in -MaxAge .. 0 : AtLeast(-MaxAge, t - 1) \in -MaxAge .. 0
      BY FeedAssumption DEF AtLeast
    <3> QED BY <2>3, <3>1 DEF Tick, Older, Feeds
  <2>4. CASE UNCHANGED vars
    BY <2>4 DEF vars, Feeds
  <2> QED BY <2>1, <2>2, <2>3, <2>4 DEF Next
<1> QED BY <1>1, <1>2, PTL DEF Spec

(* Prices keep their shape and ages their bound, and the score stays       *)
(* within 0 .. Unit whatever the two prices are.                           *)
THEOREM FeedTypes == Spec => []TypeOK
<1>1. Feeds => TypeOK
  BY FeedsArePrices, ScoreRange DEF Feeds, TypeOK, Score
<1> QED BY <1>1, FeedsAlways, PTL

(* compute_divergence has no gap between its branches: with Pyth's price   *)
(* fixed, a wider disagreement never scores less.                          *)
THEOREM WiderGaps == Spec => []WiderGapNeverScoresLess
<1>1. Feeds => WiderGapNeverScoresLess
  BY FeedsArePrices, FurtherScoresMore, FeedAssumption DEF WiderGapNeverScoresLess, Score
<1> QED BY <1>1, FeedsAlways, PTL

(* Without a band the two oracles are interchangeable. *)
THEOREM NoPrivilegedSide == Spec => []SidesAgree
<1>1. ASSUME Feeds, pyth.band = 0
      PROVE  Score = DivergenceScore([pyth EXCEPT !.price = chainlink.price],
                                     [chainlink EXCEPT !.price = pyth.price])
  <2> DEFINE a == [pyth EXCEPT !.price = chainlink.price]
             c == [chainlink EXCEPT !.price = pyth.price]
  <2>1. pyth \in PythPrice /\ chainlink \in ChainlinkPrice
    BY <1>1, FeedsArePrices
  <2>2. /\ a \in PythPrice /\ a.price = chainlink.price /\ a.time = pyth.time /\ a.band = 0
        /\ c \in ChainlinkPrice /\ c.price = pyth.price /\ c.time = chainlink.time
    BY <1>1, <2>1 DEF PythPrice, ChainlinkPrice
  <2>3. /\ pyth.price \in Int /\ chainlink.price \in Int
        /\ Distance(a.price, c.price) = Distance(pyth.price, chainlink.price)
        /\ a.price + c.price = pyth.price + chainlink.price
    BY <2>1, <2>2 DEF PythPrice, ChainlinkPrice, Distance
  <2> HIDE DEF a, c
  <2>4. DivergenceScore(a, c) = DivergenceScore(pyth, chainlink)
    BY <1>1, <2>1, <2>2, <2>3, ScoreOfGap
  <2> QED BY <2>4 DEF a, c, Score
<1>2. Feeds => SidesAgree
  BY <1>1 DEF SidesAgree
<1> QED BY <1>2, FeedsAlways, PTL

(* A divergence that is scored at all scores what 5 basis points stand for. *)
THEOREM SignificantOrNothing == Spec => []SignalFloor
<1>1. ASSUME Feeds, Score > 0 PROVE Score >= (SignificanceBps * Unit) \div 100
  <2> DEFINE g == Distance(pyth.price, chainlink.price)
             t == pyth.price + chainlink.price
             n == (200000 * g) \div t
  <2>1. pyth \in PythPrice /\ chainlink \in ChainlinkPrice
    BY <1>1, FeedsArePrices
  <2>2. Score = GapOver(g, t) /\ pyth.price > 0 /\ chainlink.price > 0 /\ 20000 * g >= 5 * t
    BY <1>1, <2>1, ScoreOfGap DEF Score
  <2>3. pyth.price \in Int /\ chainlink.price \in Int
    BY <2>1 DEF PythPrice, ChainlinkPrice
  <2>4. g \in Nat /\ t \in Nat \ {0}
    BY <2>2, <2>3 DEF Distance
  <2>5. n \in Nat /\ 50 <= n
    <3> HIDE DEF g, t
    <3>1. 50 * t <= 200000 * g
      BY <2>2, <2>4
    <3> QED BY <2>4, <3>1, WholePart, WholePartAtLeast
  <2> HIDE DEF n
  <2>6. AtMost(1000, n) >= 50
    BY <2>5 DEF AtMost
  <2> QED BY <2>2, <2>6 DEF GapOver, Unit, SignificanceBps, n
<1>2. Feeds => SignalFloor
  BY <1>1 DEF SignalFloor
<1> QED BY <1>2, FeedsAlways, PTL

(* Whichever feed stops is silenced once the other one is MaxAgeDiff ahead. *)
THEOREM StoppedFeedSilenced == Spec => []LaggingFeedSilent
<1>1. Feeds => LaggingFeedSilent
  <2> SUFFICES ASSUME Feeds PROVE LaggingFeedSilent
    OBVIOUS
  <2>1. pyth \in PythPrice /\ chainlink \in ChainlinkPrice /\ pyth.time \in Int /\ chainlink.time \in Int
    BY FeedsArePrices DEF PythPrice, ChainlinkPrice
  <2>2. /\ pyth.time = 0 /\ chainlink.time < -MaxAgeDiff
             => Distance(pyth.time, chainlink.time) > MaxAgeDiff
        /\ chainlink.time = 0 /\ pyth.time < -MaxAgeDiff
             => Distance(pyth.time, chainlink.time) > MaxAgeDiff
    BY <2>1, MaxAgeDiffAssumption DEF Distance
  <2>3. Distance(pyth.time, chainlink.time) > MaxAgeDiff => Score = 0
    BY <2>1, ScoreOfGap DEF Score
  <2> QED BY <2>2, <2>3 DEF LaggingFeedSilent
<1> QED BY <1>1, FeedsAlways, PTL
=============================================================================
