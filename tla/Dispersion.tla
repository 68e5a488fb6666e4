----------------------------- MODULE Dispersion -----------------------------
(***************************************************************************)
(* compute_dispersion (dispersion.py): the disagreement of Pyth's          *)
(* publishers about one asset, scored by the interquartile range of their  *)
(* quotes, and the publishers more than two standard deviations away from  *)
(* the median.                                                             *)
(*                                                                         *)
(* quotes is a sequence of prices, one per publisher.  Means and variances *)
(* are compared multiplied out, in integers.                               *)
(***************************************************************************)
EXTENDS Statistics, Functions

MinPublishers == 3

(* The prices that are positive, under the indices of their publishers *)
ValidPrices(quotes) ==
  [i \in {j \in DOMAIN quotes : quotes[j] > 0} |-> quotes[i]]

EnoughQuotes(quotes) ==
  Len(quotes) >= MinPublishers /\ SampleSize(ValidPrices(quotes)) >= MinPublishers

(* Mutated form: the quartile index rounded the other way, which is the    *)
(* maximum of five quotes.                                                 *)
UpperQuartileLate(s) ==
  OrderStatistic(s, AtMost(SampleSize(s), ((3 * SampleSize(s) + 3) \div 4) + 1))

LowerQuartile(s) == OrderStatistic(s, (SampleSize(s) \div 4) + 1)
UpperQuartile(s) == OrderStatistic(s, ((3 * SampleSize(s)) \div 4) + 1)

(* Mutated form: the middle band ends where the lower one does. *)
SpreadScoreFlat(bps, twice) ==
  IF bps < 2 * twice THEN 0
  ELSE IF bps < 20 * twice THEN (100 * (bps - 2 * twice)) \div (3 * twice)
  ELSE IF bps < 50 * twice THEN (40 * (bps - 20 * twice)) \div (3 * twice)
  ELSE Unit

(* Mutated form: the top of the ramp goes on rising. *)
SpreadScoreUncapped(bps, twice) ==
  IF bps < 2 * twice THEN 0
  ELSE IF bps < 20 * twice THEN (100 * (bps - 2 * twice)) \div (3 * twice)
  ELSE 600 + (40 * (bps - 20 * twice)) \div (3 * twice)

(* The ramp over an interquartile range of bps / twice basis points:       *)
(* 0 below 2, up to 0.6 at 20, up to 1 at 50.                              *)
SpreadScore(bps, twice) ==
  IF bps < 2 * twice THEN 0
  ELSE IF bps < 20 * twice THEN (100 * (bps - 2 * twice)) \div (3 * twice)
  ELSE IF bps < 50 * twice THEN 600 + (40 * (bps - 20 * twice)) \div (3 * twice)
  ELSE Unit

DispersionScore(quotes) ==
  IF ~EnoughQuotes(quotes) THEN 0
  ELSE LET s == ValidPrices(quotes)
       IN  SpreadScore(20000 * (UpperQuartile(s) - LowerQuartile(s)), TwiceMedian(s))

Total(s) == FoldFunction(+, 0, s)
SquaredDeviations(s) ==
  LET deviation == [i \in DOMAIN s |-> SampleSize(s) * s[i] - Total(s)]
  IN  FoldFunction(+, 0, [i \in DOMAIN s |-> deviation[i] * deviation[i]])

(* Mutated form: three standard deviations. *)
IsOutlierOfThree(s, price) ==
  LET d == 2 * price - TwiceMedian(s)  n == SampleSize(s)
  IN  SquaredDeviations(s) > 0 /\ d * d > (36 * SquaredDeviations(s)) \div (n * n * (n - 1))

(* |price - median| > 2 stdev, with stdev the sample standard deviation of *)
(* s: both sides are doubled and squared.                                  *)
IsOutlier(s, price) ==
  LET d == 2 * price - TwiceMedian(s)  n == SampleSize(s)
  IN  SquaredDeviations(s) > 0 /\ d * d > (16 * SquaredDeviations(s)) \div (n * n * (n - 1))

(* outlier_publishers, as indices *)
Outliers(quotes) ==
  IF ~EnoughQuotes(quotes) THEN {}
  ELSE {i \in DOMAIN quotes : IsOutlier(ValidPrices(quotes), quotes[i])}
=============================================================================
