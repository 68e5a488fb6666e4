----------------------------- MODULE Statistics -----------------------------
(***************************************************************************)
(* What the scoring modules share: fixed-point scores and the order        *)
(* statistics of a sequence of readings.                                   *)
(*                                                                         *)
(* A score of the code, a float in 0.0 .. 1.0, is a number in 0 .. Unit,   *)
(* every division rounded down.  A median of an even number of readings    *)
(* can be a half, so the modules work with twice the median.               *)
(***************************************************************************)
EXTENDS Integers, Sequences, FiniteSets

Unit == 1000

AtMost(cap, n) == IF n < cap THEN n ELSE cap
AtLeast(floor, n) == IF n > floor THEN n ELSE floor
Distance(m, n) == IF m < n THEN n - m ELSE m - n

(* A sample is a function on a finite set of indices, such as a sequence:  *)
(* the order of its readings does not matter to what follows.              *)
SampleSize(s) == Cardinality(DOMAIN s)

(* The k-th smallest element of a non-empty sample, counted with           *)
(* multiplicity: sorted(s)[k - 1].                                         *)
OrderStatistic(s, k) ==
  CHOOSE v \in {s[i] : i \in DOMAIN s} :
    /\ Cardinality({i \in DOMAIN s : s[i] < v}) < k
    /\ Cardinality({i \in DOMAIN s : s[i] <= v}) >= k

(* statistics.median, doubled *)
TwiceMedian(s) ==
  OrderStatistic(s, (SampleSize(s) + 1) \div 2) + OrderStatistic(s, (SampleSize(s) \div 2) + 1)
=============================================================================
