----------------------------- MODULE Divergence -----------------------------
(***************************************************************************)
(* compute_divergence (divergence.py): two oracle prices of one asset and  *)
(* the score of their difference.                                          *)
(*                                                                         *)
(* A price is a record [price, band, time]; time is its publish time, in   *)
(* any unit, and MaxAgeDiff is max_age_diff_sec in that unit.  Basis       *)
(* points of the mid price are compared by cross-multiplication, so no     *)
(* rounding decides a threshold.  The asset_mismatch branch is left out:   *)
(* both prices come from lookups under one alias.                          *)
(***************************************************************************)
EXTENDS Statistics

CONSTANT MaxAgeDiff

ASSUME MaxAgeDiffAssumption == MaxAgeDiff \in Nat

SignificanceBps == 5

(* rel_diff_bps >= n, with rel_diff_bps = gap / ((p + c) / 2) * 10000 *)
AtLeastBps(pyth, chainlink, n) ==
  20000 * Distance(pyth.price, chainlink.price) >= n * (pyth.price + chainlink.price)

(* Mutated form: the ramp without its cap. *)
GapScoreUncapped(pyth, chainlink) ==
  (200 * Unit * Distance(pyth.price, chainlink.price)) \div (pyth.price + chainlink.price)

(* Mutated form: basis points of Pyth's price instead of the mid price. *)
GapScoreOfPyth(pyth, chainlink) ==
  AtMost(Unit, (100 * Unit * Distance(pyth.price, chainlink.price)) \div pyth.price)

(* min(1.0, rel_diff_bps / 100) *)
GapScore(pyth, chainlink) ==
  AtMost(Unit, (200 * Unit * Distance(pyth.price, chainlink.price))
                 \div (pyth.price + chainlink.price))

(* Mutated form: only a Pyth price that lags is told to be stale. *)
StaleBehind(pyth, chainlink) == chainlink.time - pyth.time > MaxAgeDiff

(* One of the prices is too much older than the other. *)
Stale(pyth, chainlink) == Distance(pyth.time, chainlink.time) > MaxAgeDiff

(* Mutated form: the comparison with the band the wrong way round. *)
OverlapInverted(pyth, chainlink) ==
  pyth.band > 0 /\ Distance(pyth.price, chainlink.price) >= pyth.band

(* Chainlink's price lies within Pyth's own uncertainty. *)
Overlap(pyth, chainlink) ==
  pyth.band > 0 /\ Distance(pyth.price, chainlink.price) <= pyth.band

(* Mutated form: the significance threshold forgotten. *)
DivergenceReasonEager(pyth, chainlink) ==
  IF pyth.price <= 0 \/ chainlink.price <= 0 THEN "non_positive_price"
  ELSE IF Stale(pyth, chainlink) THEN "feed_stale"
  ELSE IF Overlap(pyth, chainlink) THEN "within_pyth_confidence"
  ELSE "divergence"

(* The branch compute_divergence returns from; only the last one scores. *)
DivergenceReason(pyth, chainlink) ==
  IF pyth.price <= 0 \/ chainlink.price <= 0 THEN "non_positive_price"
  ELSE IF Stale(pyth, chainlink) THEN "feed_stale"
  ELSE IF Overlap(pyth, chainlink) THEN "within_pyth_confidence"
  ELSE IF ~AtLeastBps(pyth, chainlink, SignificanceBps) THEN "below_significance_threshold"
  ELSE "divergence"

DivergenceScore(pyth, chainlink) ==
  IF DivergenceReason(pyth, chainlink) = "divergence" THEN GapScore(pyth, chainlink) ELSE 0
=============================================================================
