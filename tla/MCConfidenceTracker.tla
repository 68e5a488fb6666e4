------------------------ MODULE MCConfidenceTracker -------------------------
(* One asset, a window one longer than the warm-up of five, and four bands: *)
(* none, the baseline, three times and seven times it, so that every band   *)
(* of the ramp, the zero baseline and both parities of the median occur.    *)
EXTENDS ConfidenceTracker
MCBps == {0, 1, 3, 7}
=============================================================================
