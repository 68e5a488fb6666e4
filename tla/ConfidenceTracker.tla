------------------------- MODULE ConfidenceTracker --------------------------
(***************************************************************************)
(* The ConfidenceTracker class of confidence.py: one rolling window per    *)
(* asset, fed by the scoring loop with the band of the current Pyth        *)
(* snapshot - the same band again and again while Pyth is silent.          *)
(*                                                                         *)
(* total and frozen are history variables of the properties.               *)
(***************************************************************************)
EXTENDS Confidence

CONSTANTS
  Aliases,      \* the assets
  Bps           \* the bands a reading may have, in basis points

ASSUME BpsAssumption == Bps \subseteq Nat

VARIABLES
  window,       \* self._window; an asset not in the dict has an empty one
  signal,       \* the signal observe returned last
  total,        \* readings so far, counted up to TotalCap
  frozen        \* how many of the latest readings are equal, up to WindowN + 1

vars == <<window, signal, total, frozen>>

TotalCap == WindowN + MinSamples + 1

Reasons == {"none", "warmup", "zero_baseline", "normal", "widening", "strong",
            "non_positive_price"}

TypeOK ==
  /\ window \in [Aliases -> Seq(Bps)]
  /\ \A a \in Aliases : signal[a].reason \in Reasons /\ signal[a].score \in 0 .. Unit
  /\ total \in [Aliases -> 0 .. TotalCap]
  /\ frozen \in [Aliases -> 0 .. WindowN + 1]

Init ==
  /\ window = [a \in Aliases |-> <<>>]
  /\ signal = [a \in Aliases |-> [reason |-> "none", score |-> 0]]
  /\ total = [a \in Aliases |-> 0]
  /\ frozen = [a \in Aliases |-> 0]

Repeats(a, bps) == window[a] # <<>> /\ window[a][Len(window[a])] = bps

(* observe, for a snapshot with a positive price *)
Observe(a, bps) ==
  /\ signal' = [signal EXCEPT ![a] = Widening(window[a], bps)]
  /\ window' = [window EXCEPT ![a] = Push(@, bps)]
  /\ total' = [total EXCEPT ![a] = AtMost(TotalCap, @ + 1)]
  /\ frozen' = [frozen EXCEPT ![a] =
                  IF Repeats(a, bps) THEN AtMost(WindowN + 1, @ + 1) ELSE 1]

(* observe, for a price that is not positive: the early return *)
ObserveNonPositive(a) ==
  /\ signal' = [signal EXCEPT ![a] = [reason |-> "non_positive_price", score |-> 0]]
  /\ UNCHANGED <<window, total, frozen>>

Next ==
  \E a \in Aliases :
    \/ \E bps \in Bps : Observe(a, bps)
    \/ ObserveNonPositive(a)

Spec == Init /\ [][Next]_vars

-----------------------------------------------------------------------------
(* The window never outgrows its configured size, zero included, and loses *)
(* nothing before it is full: it holds as many readings as there were, up  *)
(* to WindowN of them.  Which ones it drops is FrozenFeedFallsSilent's.    *)
WindowHoldsLastN ==
  \A a \in Aliases : Len(window[a]) = AtMost(WindowN, total[a])

(* The deque's promise "need at least 5 samples to establish baseline": a  *)
(* reading scores only after MinSamples earlier readings of its asset -    *)
(* and never at all when the configured window is shorter than that.       *)
ScoreNeedsBaseline ==
  \A a \in Aliases :
    signal[a].score > 0 => total[a] > MinSamples /\ WindowN >= MinSamples

(* A frozen feed falls silent.  The loop observes the same band every      *)
(* cycle while the websocket is down; once the repeated band fills half of *)
(* the window it is scored against, the median has moved to it and the     *)
(* alarm is over, whatever the window held before.                         *)
FrozenFeedFallsSilent ==
  \A a \in Aliases :
    2 * (frozen[a] - 1) >= AtMost(WindowN, total[a] - 1) => signal[a].score = 0

(* Against one and the same window a wider band never scores less: the     *)
(* three bands of the ramp join without a drop at ratio 2 and ratio 5.     *)
WiderNeverScoresLess ==
  \A a \in Aliases : \A b, c \in Bps :
    b <= c => Widening(window[a], b).score <= Widening(window[a], c).score
=============================================================================
