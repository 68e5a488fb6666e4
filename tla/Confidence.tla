----------------------------- MODULE Confidence -----------------------------
(***************************************************************************)
(* The arithmetic of the confidence-widening signal (confidence.py): the   *)
(* rolling window of one asset and the score of a reading against it.      *)
(*                                                                         *)
(* A reading is the width of Pyth's confidence band in basis points of the *)
(* price.                                                                  *)
(***************************************************************************)
EXTENDS Statistics

CONSTANTS
  WindowN,      \* settings.confidence_window_n, the deque's maxlen
  MinSamples    \* readings needed before a baseline exists (5 in the code)

ASSUME WindowAssumption == WindowN \in Nat
ASSUME MinSamplesAssumption == MinSamples \in Nat \ {0}

(* Mutated form: the deque without its maxlen. *)
PushUnbounded(history, bps) == Append(history, bps)

(* Mutated form: a full deque that refuses the new reading instead of      *)
(* dropping the oldest one.                                                *)
PushKeepOldest(history, bps) ==
  IF Len(history) < WindowN THEN Append(history, bps) ELSE history

(* deque(maxlen = WindowN).append *)
Push(history, bps) ==
  LET longer == Append(history, bps)
  IN  IF Len(longer) > WindowN THEN Tail(longer) ELSE longer

(* Mutated form: the strong band ramps from 0 instead of from 0.7. *)
RampDisconnected(bps, twice) ==
  IF bps < twice THEN 0
  ELSE IF 2 * bps < 5 * twice THEN (700 * (2 * bps - 2 * twice)) \div (3 * twice)
  ELSE AtMost(Unit, (60 * (2 * bps - 5 * twice)) \div twice)

(* Mutated form: the strong band without its min(1.0, ...). *)
RampUncapped(bps, twice) ==
  IF bps < twice THEN 0
  ELSE IF 2 * bps < 5 * twice THEN (700 * (2 * bps - 2 * twice)) \div (3 * twice)
  ELSE 700 + (60 * (2 * bps - 5 * twice)) \div twice

(* The score of a reading whose ratio to a positive baseline is            *)
(* r = 2 * bps / twice:  0 below 2, 0.7 (r - 2) / 3 below 5, and           *)
(* min(1, 0.7 + 0.3 (r - 5) / 5) from there.                               *)
Ramp(bps, twice) ==
  IF bps < twice THEN 0
  ELSE IF 2 * bps < 5 * twice THEN (700 * (2 * bps - 2 * twice)) \div (3 * twice)
  ELSE AtMost(Unit, 700 + (60 * (2 * bps - 5 * twice)) \div twice)

(* Mutated form: the new reading counted among the samples of its baseline. *)
WarmingUpOffByOne(history) == Len(history) + 1 < MinSamples

(* Too few earlier readings for a baseline. *)
WarmingUp(history) == Len(history) < MinSamples

(* What observe returns for a reading, given the window before it. *)
Widening(history, bps) ==
  IF WarmingUp(history) THEN [reason |-> "warmup", score |-> 0]
  ELSE LET twice == TwiceMedian(history)
       IN  IF twice <= 0 THEN [reason |-> "zero_baseline", score |-> 0]
           ELSE [reason |-> IF bps < twice THEN "normal"
                            ELSE IF 2 * bps < 5 * twice THEN "widening" ELSE "strong",
                 score  |-> Ramp(bps, twice)]
=============================================================================
