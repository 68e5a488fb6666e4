---------------------- MODULE ConfidenceTrackerProofs -----------------------
(***************************************************************************)
(* Theorems about the confidence tracker, for every window size - shorter  *)
(* than the warm-up and zero included -, every set of assets and bands.    *)
(***************************************************************************)
EXTENDS ConfidenceTracker, StatisticsProofs, SequenceTheorems

(* The types the two theorems rest on; the range of a score is not among   *)
(* them.                                                                   *)
Typed ==
  /\ window \in [Aliases -> Seq(Bps)]
  /\ total \in [Aliases -> 0 .. TotalCap]
  /\ DOMAIN signal = Aliases

(* deque(maxlen = WindowN).append: one element more, up to WindowN. *)
LEMMA PushLength ==
  ASSUME NEW h \in Seq(Bps), Len(h) <= WindowN, NEW b \in Bps
  PROVE  Push(h, b) \in Seq(Bps) /\ Len(Push(h, b)) = AtMost(WindowN, Len(h) + 1)
<1> DEFINE longer == Append(h, b)
<1>1. longer \in Seq(Bps) /\ Len(longer) = Len(h) + 1 /\ Len(h) \in Nat
  OBVIOUS
<1>2. Tail(longer) \in Seq(Bps) /\ Len(Tail(longer)) = Len(h)
  BY <1>1
<1>3. CASE Len(longer) > WindowN
  <2>1. Len(h) = WindowN
    BY <1>1, <1>3, WindowAssumption
  <2> QED BY <1>1, <1>2, <1>3, <2>1, WindowAssumption DEF Push, AtMost
<1>4. CASE ~(Len(longer) > WindowN)
  BY <1>1, <1>4, WindowAssumption DEF Push, AtMost
<1> QED BY <1>3, <1>4

LEMMA CapIsLarge == TotalCap \in Nat /\ TotalCap > WindowN /\ TotalCap > MinSamples
BY WindowAssumption, MinSamplesAssumption DEF TotalCap

(* The window holds every reading until it is full and exactly WindowN     *)
(* from then on.                                                           *)
LEMMA WindowInductive ==
  ASSUME Typed, WindowHoldsLastN, [Next]_vars
  PROVE  Typed' /\ WindowHoldsLastN'
<1>1. ASSUME NEW a \in Aliases, NEW bps \in Bps, Observe(a, bps)
      PROVE  Typed' /\ WindowHoldsLastN'
  <2>1. Len(window[a]) = AtMost(WindowN, total[a]) /\ total[a] \in 0 .. TotalCap
    BY DEF Typed, WindowHoldsLastN
  <2>2. Len(window[a]) <= WindowN
    BY <2>1, CapIsLarge, WindowAssumption DEF AtMost
  <2>3. Push(window[a], bps) \in Seq(Bps)
        /\ Len(Push(window[a], bps)) = AtMost(WindowN, Len(window[a]) + 1)
    BY <2>2, PushLength DEF Typed
  <2>4. AtMost(TotalCap, total[a] + 1) \in 0 .. TotalCap
        /\ AtMost(WindowN, AtMost(TotalCap, total[a] + 1)) = AtMost(WindowN, Len(window[a]) + 1)
    BY <2>1, CapIsLarge, WindowAssumption DEF AtMost
  <2>5. /\ window' = [window EXCEPT ![a] = Push(window[a], bps)]
        /\ total' = [total EXCEPT ![a] = AtMost(TotalCap, total[a] + 1)]
        /\ DOMAIN signal' = Aliases
    BY <1>1 DEF Observe, Typed
  <2>6. Typed'
    BY <2>3, <2>4, <2>5 DEF Typed
  <2>7. ASSUME NEW x \in Aliases PROVE Len(window'[x]) = AtMost(WindowN, total'[x])
    <3>1. CASE x = a
      BY <2>3, <2>4, <2>5, <3>1 DEF Typed
    <3>2. CASE x # a
      BY <2>5, <3>2 DEF Typed, WindowHoldsLastN
    <3> QED BY <3>1, <3>2
  <2> QED BY <2>6, <2>7 DEF WindowHoldsLastN
<1>2. ASSUME NEW a \in Aliases, ObserveNonPositive(a) PROVE Typed' /\ WindowHoldsLastN'
  BY <1>2 DEF ObserveNonPositive, Typed, WindowHoldsLastN
<1>3. CASE UNCHANGED vars
  BY <1>3 DEF vars, Typed, WindowHoldsLastN
<1> QED BY <1>1, <1>2, <1>3 DEF Next

LEMMA InitiallyEmpty == Init => Typed /\ WindowHoldsLastN
<1> SUFFICES ASSUME Init PROVE Typed /\ WindowHoldsLastN
  OBVIOUS
<1>1. Typed
  BY CapIsLarge DEF Init, Typed
<1>2. ASSUME NEW a \in Aliases PROVE Len(window[a]) = AtMost(WindowN, total[a])
  <2>1. window[a] = <<>> /\ total[a] = 0
    BY DEF Init
  <2> QED BY <2>1, WindowAssumption DEF AtMost
<1> QED BY <1>1, <1>2 DEF WindowHoldsLastN

(* ConfidenceTracker.observe keeps exactly the last WindowN readings, for  *)
(* every WindowN.                                                          *)
THEOREM WindowBounded == Spec => []WindowHoldsLastN
BY InitiallyEmpty, WindowInductive, PTL DEF Spec

(* No reading scores before MinSamples earlier ones, and none ever does    *)
(* when the window is configured shorter than the warm-up.                 *)
THEOREM NoScoreBeforeBaseline == Spec => []ScoreNeedsBaseline
<1>1. Init => ScoreNeedsBaseline
  BY DEF Init, ScoreNeedsBaseline
<1>2. Typed /\ WindowHoldsLastN /\ ScoreNeedsBaseline /\ [Next]_vars => ScoreNeedsBaseline'
  <2> SUFFICES ASSUME Typed, WindowHoldsLastN, ScoreNeedsBaseline, [Next]_vars,
                      NEW x \in Aliases, signal'[x].score > 0
               PROVE  total'[x] > MinSamples /\ WindowN >= MinSamples
    BY DEF ScoreNeedsBaseline
  <2>1. ASSUME NEW a \in Aliases, NEW bps \in Bps, Observe(a, bps)
        PROVE  total'[x] > MinSamples /\ WindowN >= MinSamples
    <3>1. CASE x = a
      <4>1. signal'[a] = Widening(window[a], bps) /\ total'[a] = AtMost(TotalCap, total[a] + 1)
        BY <2>1 DEF Observe, Typed
      <4>2. ~WarmingUp(window[a])
        BY <3>1, <4>1 DEF Widening
      <4>3. AtMost(WindowN, total[a]) >= MinSamples /\ total[a] \in Nat
        <5>1. Len(window[a]) = AtMost(WindowN, total[a]) /\ total[a] \in Nat
          BY CapIsLarge DEF WindowHoldsLastN, Typed
        <5> QED BY <4>2, <5>1, WindowAssumption, MinSamplesAssumption DEF WarmingUp, AtMost
      <4> QED BY <3>1, <4>1, <4>3, CapIsLarge, WindowAssumption, MinSamplesAssumption DEF AtMost
    <3>2. CASE x # a
      <4>1. signal'[x] = signal[x] /\ total'[x] = total[x]
        BY <2>1, <3>2 DEF Observe, Typed
      <4> QED BY <4>1 DEF ScoreNeedsBaseline
    <3> QED BY <3>1, <3>2
  <2>2. ASSUME NEW a \in Aliases, ObserveNonPositive(a)
        PROVE  total'[x] > MinSamples /\ WindowN >= MinSamples
    <3>1. x # a
      BY <2>2 DEF ObserveNonPositive, Typed
    <3>2. signal'[x] = signal[x] /\ total'[x] = total[x]
      BY <2>2, <3>1 DEF ObserveNonPositive, Typed
    <3> QED BY <3>2 DEF ScoreNeedsBaseline
  <2>3. CASE UNCHANGED vars
    BY <2>3 DEF vars, ScoreNeedsBaseline
  <2> QED BY <2>1, <2>2, <2>3 DEF Next
<1> QED BY <1>1, <1>2, InitiallyEmpty, WindowInductive, PTL DEF Spec

-----------------------------------------------------------------------------
(* The score of a reading *)
LEMMA WindowIsSample ==
  ASSUME NEW h \in Seq(Nat)
  PROVE  Sample(h) /\ SampleSize(h) = Len(h) /\ \A i \in DOMAIN h : h[i] \in Nat
<1>1. h \in Seq(Int) /\ \A i \in DOMAIN h : h[i] \in Nat
  OBVIOUS
<1> QED BY <1>1, SequenceIsSample

LEMMA MedianOfWindow ==
  ASSUME NEW h \in Seq(Nat), ~WarmingUp(h)
  PROVE  TwiceMedian(h) \in Nat
<1>1. Sample(h) /\ SampleSize(h) # 0 /\ \A i \in DOMAIN h : h[i] \in Nat
  BY WindowIsSample, MinSamplesAssumption DEF WarmingUp
<1> QED BY <1>1, MedianOfReadings

(* The two slopes of the ramp stay within their bands. *)
LEMMA LowerSlope ==
  ASSUME NEW b \in Nat, NEW t \in Nat \ {0}, t <= b, 2 * b < 5 * t
  PROVE  (700 * (2 * b - 2 * t)) \div (3 * t) \in 0 .. 700
<1>1. 700 * (2 * b - 2 * t) \in Nat /\ 3 * t \in Nat \ {0} /\ 700 * (2 * b - 2 * t) <= 700 * (3 * t)
  OBVIOUS
<1> QED BY <1>1, WholePart, WholePartAtMost

LEMMA UpperSlope ==
  ASSUME NEW b \in Nat, NEW t \in Nat \ {0}, 2 * b >= 5 * t
  PROVE  (60 * (2 * b - 5 * t)) \div t \in Nat
<1>1. 60 * (2 * b - 5 * t) \in Nat
  OBVIOUS
<1> QED BY <1>1, WholePart

LEMMA RampBands ==
  ASSUME NEW b \in Nat, NEW t \in Nat \ {0}
  PROVE  /\ b < t => Ramp(b, t) = 0
         /\ t <= b /\ 2 * b < 5 * t => Ramp(b, t) = (700 * (2 * b - 2 * t)) \div (3 * t)
         /\ 2 * b >= 5 * t => Ramp(b, t) = AtMost(Unit, 700 + (60 * (2 * b - 5 * t)) \div t)
<1>1. ASSUME b < t PROVE Ramp(b, t) = 0
  <2>1. ~(2 * b >= 5 * t) /\ 2 * b < 5 * t
    BY <1>1
  <2> QED BY <1>1, Zenon DEF Ramp
<1>2. ASSUME t <= b, 2 * b < 5 * t
      PROVE  Ramp(b, t) = (700 * (2 * b - 2 * t)) \div (3 * t)
  <2>1. ~(b < t)
    BY <1>2
  <2> QED BY <1>2, <2>1, Zenon DEF Ramp
<1>3. ASSUME 2 * b >= 5 * t
      PROVE  Ramp(b, t) = AtMost(Unit, 700 + (60 * (2 * b - 5 * t)) \div t)
  <2>1. ~(b < t) /\ ~(2 * b < 5 * t)
    BY <1>3
  <2> QED BY <2>1, Zenon DEF Ramp
<1> QED BY <1>1, <1>2, <1>3

LEMMA RampRange ==
  ASSUME NEW b \in Nat, NEW t \in Nat \ {0}
  PROVE  Ramp(b, t) \in 0 .. Unit
<1>1. CASE b < t
  BY <1>1 DEF Ramp, Unit
<1>2. CASE b >= t /\ 2 * b < 5 * t
  BY <1>2, LowerSlope DEF Ramp, Unit
<1>3. CASE b >= t /\ ~(2 * b < 5 * t)
  BY <1>3, UpperSlope DEF Ramp, Unit, AtMost
<1> QED BY <1>1, <1>2, <1>3

LEMMA RampRises ==
  ASSUME NEW b \in Nat, NEW c \in Nat, b <= c, NEW t \in Nat \ {0}
  PROVE  Ramp(b, t) <= Ramp(c, t)
<1>1. CASE b < t
  <2>1. Ramp(b, t) = 0 /\ Ramp(c, t) \in 0 .. Unit
    BY <1>1, RampBands, RampRange
  <2> QED BY <2>1 DEF Unit
<1>2. CASE b >= t /\ 2 * c < 5 * t
  <2>1. /\ 700 * (2 * b - 2 * t) \in Nat /\ 700 * (2 * c - 2 * t) \in Nat /\ 3 * t \in Nat \ {0}
        /\ 700 * (2 * b - 2 * t) <= 700 * (2 * c - 2 * t)
    BY <1>2
  <2>2. (700 * (2 * b - 2 * t)) \div (3 * t) <= (700 * (2 * c - 2 * t)) \div (3 * t)
    <3> DEFINE m == 700 * (2 * b - 2 * t)
               n == 700 * (2 * c - 2 * t)
               p == 3 * t
    <3>1. m \in Nat /\ n \in Nat /\ p \in Nat \ {0} /\ m <= n
      BY <2>1
    <3> HIDE DEF m, n, p
    <3>2. m * p <= n * p
      BY <3>1, SMTT(30)
    <3>3. m \div p <= n \div p
      BY <3>1, <3>2, WholePartsRise
    <3> QED BY <3>3 DEF m, n, p
  <2> QED BY <1>2, <2>2 DEF Ramp
<1>3. CASE b >= t /\ 2 * b < 5 * t /\ ~(2 * c < 5 * t)
  <2>1. Ramp(b, t) \in 0 .. 700
    BY <1>3, LowerSlope DEF Ramp
  <2>2. Ramp(c, t) >= 700
    BY <1>3, UpperSlope DEF Ramp, AtMost, Unit
  <2>3. Ramp(c, t) \in 0 .. Unit
    BY RampRange
  <2> DEFINE x == Ramp(b, t)
             y == Ramp(c, t)
  <2>4. x \in 0 .. 700 /\ y \in 0 .. 1000 /\ y >= 700
    BY <2>1, <2>2, <2>3 DEF Unit
  <2> HIDE DEF x, y
  <2>5. x <= y
    BY <2>4
  <2> QED BY <2>5 DEF x, y
<1>4. CASE b >= t /\ ~(2 * b < 5 * t)
  <2> DEFINE m == 60 * (2 * b - 5 * t)
             n == 60 * (2 * c - 5 * t)
  <2>1. m \in Nat /\ n \in Nat /\ m <= n
    BY <1>4
  <2> HIDE DEF m, n
  <2>2. m * t <= n * t
    BY <2>1, SMTT(30)
  <2>3. m \div t <= n \div t /\ m \div t \in Nat /\ n \div t \in Nat
    BY <2>1, <2>2, WholePartsRise, WholePart
  <2>4. Ramp(b, t) = AtMost(Unit, 700 + m \div t) /\ Ramp(c, t) = AtMost(Unit, 700 + n \div t)
    BY <1>4 DEF Ramp, m, n
  <2> QED BY <2>3, <2>4 DEF AtMost, Unit
<1> QED BY <1>1, <1>2, <1>3, <1>4

LEMMA WideningRange ==
  ASSUME NEW h \in Seq(Nat), NEW b \in Nat
  PROVE  /\ Widening(h, b).score \in 0 .. Unit
         /\ Widening(h, b).reason \in Reasons
         /\ Widening(h, b).score > 0 => Len(h) >= MinSamples
<1>1. CASE WarmingUp(h)
  BY <1>1 DEF Widening, Unit, Reasons
<1>2. CASE ~WarmingUp(h)
  <2>1. TwiceMedian(h) \in Nat /\ Len(h) >= MinSamples
    BY <1>2, MedianOfWindow, MinSamplesAssumption DEF WarmingUp
  <2>2. CASE TwiceMedian(h) <= 0
    BY <1>2, <2>1, <2>2 DEF Widening, Unit, Reasons
  <2>3. CASE ~(TwiceMedian(h) <= 0)
    <3>1. Ramp(b, TwiceMedian(h)) \in 0 .. Unit
      <4>1. TwiceMedian(h) \in Nat \ {0}
        BY <2>1, <2>3
      <4> QED BY <4>1, RampRange
    <3>2. /\ Widening(h, b).score = Ramp(b, TwiceMedian(h))
          /\ Widening(h, b).reason \in {"normal", "widening", "strong"}
      BY <1>2, <2>3 DEF Widening
    <3> QED BY <2>1, <3>1, <3>2 DEF Reasons
  <2> QED BY <2>2, <2>3
<1> QED BY <1>1, <1>2

(* Against one window a wider band never scores less. *)
LEMMA WideningRises ==
  ASSUME NEW h \in Seq(Nat), NEW b \in Nat, NEW c \in Nat, b <= c
  PROVE  Widening(h, b).score <= Widening(h, c).score
<1>1. CASE WarmingUp(h)
  BY <1>1 DEF Widening
<1>2. CASE ~WarmingUp(h) /\ TwiceMedian(h) <= 0
  BY <1>2 DEF Widening
<1>3. CASE ~WarmingUp(h) /\ ~(TwiceMedian(h) <= 0)
  <2>1. TwiceMedian(h) \in Nat \ {0}
    BY <1>3, MedianOfWindow
  <2>2. /\ Widening(h, b).score = Ramp(b, TwiceMedian(h))
        /\ Widening(h, c).score = Ramp(c, TwiceMedian(h))
    BY <1>3 DEF Widening
  <2> QED BY <2>1, <2>2, RampRises
<1> QED BY <1>1, <1>2, <1>3

(* A band that is at least half of the window it is scored against has     *)
(* become its own baseline.                                                *)
LEMMA CommonBandIsSilent ==
  ASSUME NEW h \in Seq(Nat), NEW b \in Nat,
         2 * Cardinality({i \in DOMAIN h : h[i] = b}) >= Len(h)
  PROVE  Widening(h, b).score = 0
<1>1. CASE WarmingUp(h)
  BY <1>1 DEF Widening
<1>2. CASE ~WarmingUp(h) /\ TwiceMedian(h) <= 0
  BY <1>2 DEF Widening
<1>3. CASE ~WarmingUp(h) /\ ~(TwiceMedian(h) <= 0)
  <2>1. Sample(h) /\ SampleSize(h) = Len(h) /\ SampleSize(h) # 0 /\ \A i \in DOMAIN h : h[i] \in Nat
    BY <1>3, WindowIsSample, MinSamplesAssumption DEF WarmingUp
  <2>2. PICK i \in DOMAIN h : TwiceMedian(h) = b + h[i]
    <3>1. b \in Int /\ 2 * Cardinality({i \in DOMAIN h : h[i] = b}) >= SampleSize(h)
      BY <2>1
    <3> QED BY <2>1, <3>1, CommonReading
  <2> DEFINE t == TwiceMedian(h)
  <2>3. t \in Nat \ {0} /\ b <= t
    BY <1>3, <2>1, <2>2
  <2>4. Widening(h, b).score = Ramp(b, t)
    BY <1>3 DEF Widening
  <2> HIDE DEF t
  <2>5. CASE b < t
    BY <2>4, <2>5 DEF Ramp
  <2>6. CASE b = t
    <3>1. 700 * (2 * b - 2 * t) = 0 /\ 2 * b < 5 * t /\ ~(b < t) /\ 3 * t \in Nat \ {0}
      BY <2>3, <2>6
    <3>2. 0 \div (3 * t) = 0
      BY <3>1, WholePart, WholePartAtMost
    <3> QED BY <2>4, <3>1, <3>2 DEF Ramp
  <2> QED BY <2>3, <2>5, <2>6
<1> QED BY <1>1, <1>2, <1>3

-----------------------------------------------------------------------------
(* The types of the run, with the domain of signal, which they leave open  *)
Types == TypeOK /\ DOMAIN signal = Aliases

LEMMA WindowsAreNatural ==
  ASSUME Types, NEW a \in Aliases
  PROVE  window[a] \in Seq(Nat)
<1>1. window[a] \in Seq(Bps)
  BY DEF Types, TypeOK
<1> QED BY <1>1, BpsAssumption, SeqMonotonic

LEMMA TypesInductive ==
  ASSUME Types, WindowHoldsLastN, [Next]_vars
  PROVE  Types'
<1>1. ASSUME NEW a \in Aliases, NEW bps \in Bps, Observe(a, bps) PROVE Types'
  <2>1. window[a] \in Seq(Bps) /\ total[a] \in 0 .. TotalCap /\ frozen[a] \in 0 .. WindowN + 1
    BY DEF Types, TypeOK
  <2>2. Len(window[a]) <= WindowN
    BY <2>1, CapIsLarge, WindowAssumption DEF WindowHoldsLastN, AtMost
  <2>3. Push(window[a], bps) \in Seq(Bps)
    BY <2>1, <2>2, PushLength
  <2>4. /\ AtMost(TotalCap, total[a] + 1) \in 0 .. TotalCap
        /\ AtMost(WindowN + 1, frozen[a] + 1) \in 0 .. WindowN + 1 /\ 1 \in 0 .. WindowN + 1
    BY <2>1, CapIsLarge, WindowAssumption DEF AtMost
  <2>5. /\ Widening(window[a], bps).score \in 0 .. Unit
        /\ Widening(window[a], bps).reason \in Reasons
    BY WindowsAreNatural, WideningRange, BpsAssumption
  <2>6. /\ window' = [window EXCEPT ![a] = Push(window[a], bps)]
        /\ total' = [total EXCEPT ![a] = AtMost(TotalCap, total[a] + 1)]
        /\ signal' = [signal EXCEPT ![a] = Widening(window[a], bps)]
        /\ frozen' = [frozen EXCEPT ![a] =
                         IF Repeats(a, bps) THEN AtMost(WindowN + 1, frozen[a] + 1) ELSE 1]
    BY <1>1 DEF Observe
  <2>7. window' \in [Aliases -> Seq(Bps)] /\ total' \in [Aliases -> 0 .. TotalCap]
    BY <2>3, <2>4, <2>6 DEF Types, TypeOK
  <2>8. frozen' \in [Aliases -> 0 .. WindowN + 1]
    BY <2>4, <2>6 DEF Types, TypeOK
  <2>9. /\ DOMAIN signal' = Aliases
        /\ \A x \in Aliases : signal'[x].reason \in Reasons /\ signal'[x].score \in 0 .. Unit
    BY <2>5, <2>6 DEF Types, TypeOK
  <2> QED BY <2>7, <2>8, <2>9 DEF Types, TypeOK
<1>2. ASSUME NEW a \in Aliases, ObserveNonPositive(a) PROVE Types'
  BY <1>2 DEF ObserveNonPositive, Types, TypeOK, Reasons, Unit
<1>3. CASE UNCHANGED vars
  BY <1>3 DEF vars, Types, TypeOK
<1> QED BY <1>1, <1>2, <1>3 DEF Next

LEMMA InitialTypes == Init => Types
<1> SUFFICES ASSUME Init PROVE Types
  OBVIOUS
<1>1. 0 \in 0 .. TotalCap /\ 0 \in 0 .. WindowN + 1 /\ <<>> \in Seq(Bps)
  BY CapIsLarge, WindowAssumption
<1> QED BY <1>1 DEF Init, Types, TypeOK, Reasons, Unit

(* Every signal has one of the reasons of the code and a score between 0   *)
(* and 1, whatever the bands.                                              *)
THEOREM TrackerTypes == Spec => []TypeOK
<1>1. Types => TypeOK
  BY DEF Types
<1>2. WindowHoldsLastN /\ Types /\ [Next]_vars => Types'
  BY TypesInductive
<1> QED BY <1>1, <1>2, InitialTypes, WindowBounded, PTL DEF Spec

(* ConfidenceTracker.observe: against one and the same window a wider band *)
(* never scores less, whatever the window holds.                           *)
THEOREM RampHasNoDrop == Spec => []WiderNeverScoresLess
<1>1. Types => WiderNeverScoresLess
  BY WindowsAreNatural, WideningRises, BpsAssumption DEF WiderNeverScoresLess
<1>2. WindowHoldsLastN /\ Types /\ [Next]_vars => Types'
  BY TypesInductive
<1> QED BY <1>1, <1>2, InitialTypes, WindowBounded, PTL DEF Spec

-----------------------------------------------------------------------------
(* The latest frozen[a] readings of the window are equal. *)
EqualTail(h, count) == \A i \in DOMAIN h : i > Len(h) - count => h[i] = h[Len(h)]

Tails == \A a \in Aliases : EqualTail(window[a], frozen[a])

LEMMA PushExtendsTail ==
  ASSUME NEW h \in Seq(Nat), NEW b \in Nat, NEW count \in Nat, NEW more \in Nat,
         EqualTail(h, count),
         more <= 1 \/ (more <= count + 1 /\ h # <<>> /\ h[Len(h)] = b)
  PROVE  EqualTail(Push(h, b), more)
<1> DEFINE longer == Append(h, b)
           n == Len(h)
<1>1. /\ n \in Nat /\ Len(longer) = n + 1 /\ DOMAIN longer = 1 .. n + 1 /\ DOMAIN h = 1 .. n
      /\ longer \in Seq(Nat) /\ longer[n + 1] = b /\ \A i \in 1 .. n : longer[i] = h[i]
  OBVIOUS
<1> HIDE DEF longer, n
<1>2. ASSUME NEW i \in 1 .. n + 1, i > n + 1 - more PROVE longer[i] = b
  <2>1. CASE i = n + 1
    BY <1>1, <2>1
  <2>2. CASE i # n + 1
    <3>1. i \in 1 .. n /\ i > n - count /\ more <= count + 1 /\ h[n] = b
      BY <1>1, <1>2, <2>2 DEF n
    <3>2. h[i] = h[n]
      BY <1>1, <3>1 DEF EqualTail, n
    <3> QED BY <1>1, <3>1, <3>2
  <2> QED BY <2>1, <2>2
<1>3. EqualTail(longer, more)
  BY <1>1, <1>2 DEF EqualTail
<1>4. EqualTail(Tail(longer), more)
  <2>1. /\ Len(Tail(longer)) = n /\ DOMAIN Tail(longer) = 1 .. n
        /\ \A i \in 1 .. n : Tail(longer)[i] = longer[i + 1]
    BY <1>1
  <2>2. ASSUME NEW i \in 1 .. n, i > n - more PROVE Tail(longer)[i] = Tail(longer)[n]
    <3>1. i + 1 \in 1 .. n + 1 /\ i + 1 > n + 1 - more /\ n \in 1 .. n
      BY <1>1, <2>2
    <3>2. longer[i + 1] = b
      BY <1>2, <3>1
    <3> QED BY <1>1, <2>1, <3>1, <3>2
  <2> QED BY <2>1, <2>2 DEF EqualTail
<1> QED BY <1>3, <1>4 DEF Push, longer

(* A tail of equal readings is counted by CommonBandIsSilent. *)
LEMMA EqualTailCounts ==
  ASSUME NEW h \in Seq(Nat), NEW count \in Nat, EqualTail(h, count), h # <<>>
  PROVE  Cardinality({i \in DOMAIN h : h[i] = h[Len(h)]}) >= AtMost(Len(h), count)
<1> DEFINE n == Len(h)
           m == AtMost(n, count)
           T == (n - m + 1) .. n
<1>1. n \in Nat /\ DOMAIN h = 1 .. n /\ m \in Nat /\ m <= n /\ m <= count
  BY DEF AtMost
<1>2. T \subseteq {i \in DOMAIN h : h[i] = h[n]}
  <2> SUFFICES ASSUME NEW i \in T PROVE i \in 1 .. n /\ h[i] = h[n]
    BY <1>1
  <2> HIDE DEF m
  <2>1. i \in 1 .. n /\ i > n - count
    BY <1>1
  <2> QED BY <1>1, <2>1 DEF EqualTail
<1>3. Cardinality(T) = m
  <2> HIDE DEF m, n
  <2>1. Cardinality(T) = IF n - m + 1 > n THEN 0 ELSE n - (n - m + 1) + 1
    BY <1>1, FS_Interval
  <2> QED BY <1>1, <2>1
<1>4. IsFiniteSet({i \in DOMAIN h : h[i] = h[n]})
  <2>1. IsFiniteSet(DOMAIN h)
    BY WindowIsSample DEF Sample
  <2> QED BY <2>1, FS_Subset
<1> HIDE DEF T, m, n
<1>5. Cardinality(T) <= Cardinality({i \in DOMAIN h : h[i] = h[n]})
  BY <1>2, <1>4, FS_Subset
<1>6. Cardinality({i \in DOMAIN h : h[i] = h[n]}) \in Nat
  BY <1>4, FS_CardinalityType
<1>7. Cardinality({i \in DOMAIN h : h[i] = h[n]}) >= m
  BY <1>1, <1>3, <1>5, <1>6
<1> QED BY <1>7 DEF m, n

LEMMA TailsInductive ==
  ASSUME Types, Tails, [Next]_vars
  PROVE  Tails'
<1>1. ASSUME NEW a \in Aliases, NEW bps \in Bps, Observe(a, bps) PROVE Tails'
  <2> DEFINE h == window[a]
             more == IF Repeats(a, bps) THEN AtMost(WindowN + 1, frozen[a] + 1) ELSE 1
  <2>1. h \in Seq(Nat) /\ bps \in Nat /\ frozen[a] \in Nat /\ EqualTail(h, frozen[a])
    BY WindowsAreNatural, BpsAssumption DEF Types, TypeOK, Tails
  <2>2. more \in Nat /\ (more <= 1 \/ (more <= frozen[a] + 1 /\ h # <<>> /\ h[Len(h)] = bps))
    BY <2>1, WindowAssumption DEF AtMost, Repeats
  <2>3. /\ window' = [window EXCEPT ![a] = Push(h, bps)]
        /\ frozen' = [frozen EXCEPT ![a] = more]
        /\ DOMAIN window = Aliases /\ DOMAIN frozen = Aliases
    BY <1>1 DEF Observe, Types, TypeOK
  <2> HIDE DEF h, more
  <2>4. EqualTail(Push(h, bps), more)
    BY <2>1, <2>2, PushExtendsTail
  <2> QED BY <2>3, <2>4 DEF Tails
<1>2. ASSUME NEW a \in Aliases, ObserveNonPositive(a) PROVE Tails'
  BY <1>2 DEF ObserveNonPositive, Tails
<1>3. CASE UNCHANGED vars
  BY <1>3 DEF vars, Tails
<1> QED BY <1>1, <1>2, <1>3 DEF Next

(* The reading scored against a window whose tail it repeats *)
LEMMA RepeatedReadingIsSilent ==
  ASSUME Types, WindowHoldsLastN, Tails, NEW a \in Aliases, NEW bps \in Bps, Observe(a, bps),
         2 * (frozen'[a] - 1) >= AtMost(WindowN, total'[a] - 1)
  PROVE  signal'[a].score = 0
<1> DEFINE h == window[a]
           n == Len(h)
<1>1. /\ h \in Seq(Nat) /\ n \in Nat /\ bps \in Nat /\ frozen[a] \in Nat /\ total[a] \in Nat
      /\ n = AtMost(WindowN, total[a]) /\ EqualTail(h, frozen[a])
  BY WindowsAreNatural, BpsAssumption, CapIsLarge
     DEF Types, TypeOK, Tails, WindowHoldsLastN
<1>2. /\ signal'[a] = Widening(h, bps)
      /\ total'[a] = AtMost(TotalCap, total[a] + 1)
      /\ frozen'[a] = IF Repeats(a, bps) THEN AtMost(WindowN + 1, frozen[a] + 1) ELSE 1
  BY DEF Observe, Types, TypeOK
<1>3. AtMost(WindowN, total'[a] - 1) = n
  BY <1>1, <1>2, CapIsLarge, WindowAssumption DEF AtMost
<1>4. CASE Repeats(a, bps)
  <2>1. h # <<>> /\ h[n] = bps
    BY <1>4 DEF Repeats
  <2> DEFINE equal == Cardinality({i \in DOMAIN h : h[i] = bps})
  <2>2. equal >= AtMost(n, frozen[a])
    BY <1>1, <2>1, EqualTailCounts
  <2>3. equal \in Nat
    <3>1. IsFiniteSet(DOMAIN h)
      BY <1>1, WindowIsSample DEF Sample
    <3> QED BY <3>1, CountInSample
  <2>4. frozen'[a] - 1 = AtMost(WindowN, frozen[a])
    BY <1>1, <1>2, <1>4, WindowAssumption DEF AtMost
  <2>5. 2 * AtMost(WindowN, frozen[a]) >= n
    BY <1>3, <2>4
  <2>6. 2 * equal >= n
    <3> HIDE DEF equal, n, h
    <3> QED BY <1>1, <2>2, <2>3, <2>5, WindowAssumption DEF AtMost
  <2> QED BY <1>1, <1>2, <2>6, CommonBandIsSilent
<1>5. CASE ~Repeats(a, bps)
  <2>1. n = 0
    BY <1>1, <1>2, <1>3, <1>5
  <2>2. WarmingUp(h)
    BY <2>1, MinSamplesAssumption DEF WarmingUp
  <2> QED BY <1>2, <2>2 DEF Widening
<1> QED BY <1>4, <1>5

(* A feed that stands still - the websocket is down, the loop observes the *)
(* same snapshot every cycle - falls silent once the repeated band fills   *)
(* half of the window it is scored against, for windows of every length.   *)
THEOREM FrozenFeedIsSilent == Spec => []FrozenFeedFallsSilent
<1>1. Init => Tails /\ FrozenFeedFallsSilent
  BY DEF Init, Tails, EqualTail, FrozenFeedFallsSilent
<1>2. Types /\ WindowHoldsLastN /\ Tails /\ FrozenFeedFallsSilent /\ [Next]_vars
        => FrozenFeedFallsSilent'
  <2> SUFFICES ASSUME Types, WindowHoldsLastN, Tails, FrozenFeedFallsSilent, [Next]_vars,
                      NEW x \in Aliases, 2 * (frozen'[x] - 1) >= AtMost(WindowN, total'[x] - 1)
               PROVE  signal'[x].score = 0
    BY DEF FrozenFeedFallsSilent
  <2>1. ASSUME NEW a \in Aliases, NEW bps \in Bps, Observe(a, bps) PROVE signal'[x].score = 0
    <3>1. CASE x = a
      BY <2>1, <3>1, RepeatedReadingIsSilent
    <3>2. CASE x # a
      <4>1. signal'[x] = signal[x] /\ total'[x] = total[x] /\ frozen'[x] = frozen[x]
        BY <2>1, <3>2 DEF Observe, Types, TypeOK
      <4> QED BY <4>1 DEF FrozenFeedFallsSilent
    <3> QED BY <3>1, <3>2
  <2>2. ASSUME NEW a \in Aliases, ObserveNonPositive(a) PROVE signal'[x].score = 0
    <3>1. CASE x = a
      BY <2>2, <3>1 DEF ObserveNonPositive, Types, TypeOK
    <3>2. CASE x # a
      <4>1. signal'[x] = signal[x] /\ total'[x] = total[x] /\ frozen'[x] = frozen[x]
        BY <2>2, <3>2 DEF ObserveNonPositive, Types, TypeOK
      <4> QED BY <4>1 DEF FrozenFeedFallsSilent
    <3> QED BY <3>1, <3>2
  <2>3. CASE UNCHANGED vars
    BY <2>3 DEF vars, FrozenFeedFallsSilent
  <2> QED BY <2>1, <2>2, <2>3 DEF Next
<1>3. WindowHoldsLastN /\ Types /\ [Next]_vars => Types'
  BY TypesInductive
<1>4. Types /\ Tails /\ [Next]_vars => Tails'
  BY TailsInductive
<1> QED BY <1>1, <1>2, <1>3, <1>4, InitialTypes, WindowBounded, PTL DEF Spec
=============================================================================
