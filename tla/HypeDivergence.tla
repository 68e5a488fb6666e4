--------------------------- MODULE HypeDivergence ---------------------------
(***************************************************************************)
(* compute_hype_divergence and VelocityHistory (hype_divergence.py): up to *)
(* three prices of HYPE, the widest gap between two of them, the source    *)
(* that leads, and the speed at which the gap changes.                     *)
(*                                                                         *)
(* A reading is [price, age] or NoPrice.  Times are ages, counted back     *)
(* from now, so a larger age is an earlier time; NoTime is a time stamp of *)
(* 0.  Gaps are whole basis points, rounded down.  float() of a text may   *)
(* give a nan or an infinity, which the comparisons of a price with 0 do   *)
(* not keep out: prices, gaps and distances are integers, Infinite or      *)
(* NotANumber, with the arithmetic and the order of floats.                *)
(***************************************************************************)
EXTENDS Statistics

CONSTANTS
  NoPrice,      \* the source gave no price: None
  NotANumber,   \* float("nan"): neither positive nor not positive
  Infinite,     \* float("inf")
  NoTime,       \* timestamp_ms = 0
  NoVelocity,   \* velocity_bps_per_min = None
  ThresholdBps, \* hype_divergence_threshold_bps
  WindowN       \* hype_divergence_velocity_window_n

ASSUME HypeAssumption ==
  /\ WindowN \in Nat /\ ThresholdBps \in Nat /\ NoTime \notin Int
  /\ {NotANumber, Infinite} \cap Int = {} /\ NotANumber # Infinite

Order == <<"streams", "redstone", "hl">>
Sources == {Order[i] : i \in DOMAIN Order}

(* The first of some sources, in the order of the arguments *)
First(some) == Order[CHOOSE i \in DOMAIN Order :
                       Order[i] \in some /\ \A j \in 1 .. i - 1 : Order[j] \notin some]

(* sp, rp and hp *)
Prices(readings) ==
  [s \in Sources |-> IF readings[s] = NoPrice THEN NoPrice ELSE readings[s].price]

(* m > n of two floats: a nan compares with nothing. *)
Above(m, n) ==
  /\ NotANumber \notin {m, n} /\ n # Infinite
  /\ m = Infinite \/ m > n

(* price is not None and price > 0 *)
Present(prices) == {s \in Sources : prices[s] # NoPrice /\ Above(prices[s], 0)}

(* ts_ms of the cycle: the first source with a time stamp gives it. *)
CycleAge(readings) ==
  LET stamped == {s \in Sources : readings[s] # NoPrice /\ readings[s].age # NoTime}
  IN  IF stamped = {} THEN NoTime ELSE readings[First(stamped)].age

(* _pair_bps of two positive prices: with an infinite one, inf / inf *)
PairBps(m, n) ==
  IF Infinite \in {m, n} THEN NotANumber ELSE (20000 * Distance(m, n)) \div (m + n)

(* max_div_bps: 0 with fewer than two prices.  max keeps a nan it starts   *)
(* with and passes over a later one.                                       *)
MaxGap(prices) ==
  LET some == Present(prices)
      foremost == First(some)
      numbers == ({PairBps(prices[s], prices[t]) : s, t \in some} \cup {0}) \ {NotANumber}
  IN  IF /\ Cardinality(some) > 1
         /\ PairBps(prices[foremost], prices[First(some \ {foremost})]) = NotANumber
      THEN NotANumber
      ELSE CHOOSE g \in numbers : \A h \in numbers : h <= g

(* _median3: the price of a source between the two others *)
Median(prices) ==
  prices[CHOOSE s \in Sources : \E below, above \in Sources :
           /\ {below, s, above} = Sources
           /\ ~Above(prices[below], prices[s]) /\ ~Above(prices[s], prices[above])]

(* abs(m - n) *)
Off(m, n) ==
  IF {m, n} = {Infinite} THEN NotANumber
  ELSE IF Infinite \in {m, n} THEN Infinite ELSE Distance(m, n)

(* Mutated form: the source nearest to the median leads. *)
FurthestNearest(some, off) == First({s \in some : \A t \in some : ~Above(off[s], off[t])})

(* max(candidates, key=lambda kv: kv[1]): the first of several maxima, or  *)
(* the first candidate if its key is a nan                                 *)
Furthest(some, off) ==
  IF off[First(some)] = NotANumber THEN First(some)
  ELSE First({s \in some : off[s] # NotANumber /\ \A t \in some : ~Above(off[t], off[s])})

(* The source furthest from the median of three; of two sources the one    *)
(* with the higher price                                                   *)
Leader(prices) ==
  LET some == Present(prices)
      median == Median(prices)
      off == [s \in some |-> Off(prices[s], median)]
  IN  CASE Cardinality(some) = 3 -> Furthest(some, off)
        [] Cardinality(some) = 2 -> Furthest(some, prices)
        [] OTHER -> "none"

Reason(prices, gap) ==
  LET count == Cardinality(Present(prices))
  IN  CASE count = 0 -> "no_sources"
        [] count = 1 -> "single_source"
        [] count > 1 /\ Above(ThresholdBps, gap) -> "below_threshold"
        [] OTHER -> "none"

(* _compute_velocity: whether the gap widened from the first entry to the  *)
(* last (1), narrowed (-1) or neither (0).  How fast is left out.          *)
Velocity(history) ==
  IF Len(history) < 2 \/ history[1].age <= history[Len(history)].age THEN NoVelocity
  ELSE LET first == history[1]
           last == history[Len(history)]
       IN  CASE NotANumber \in {first.gap, last.gap} -> NotANumber
             [] Above(last.gap, first.gap)  -> 1
             [] Above(first.gap, last.gap)  -> -1
             [] OTHER                       -> 0

(* The signal of compute_hype_divergence; its ts_ms is CycleAge. *)
Signal(readings, history) ==
  LET prices == Prices(readings)
      gap == MaxGap(prices)
  IN  [prices |-> prices, gap |-> gap, leader |-> Leader(prices),
       reason |-> Reason(prices, gap), velocity |-> Velocity(history)]

(* entries[-n:], which for n = 0 is entries[0:], the whole list *)
LastOf(entries, n) ==
  IF n = 0 \/ Len(entries) <= n THEN entries
  ELSE SubSeq(entries, Len(entries) - n + 1, Len(entries))

(* Mutated form: entries[: self._window_n], the oldest entries kept. *)
AppendedKeepOldest(entries, entry) ==
  LET longer == Append(entries, entry)
  IN  IF Len(longer) > WindowN THEN SubSeq(longer, 1, WindowN) ELSE longer

(* VelocityHistory.append *)
Appended(entries, entry) ==
  LET longer == Append(entries, entry)
  IN  IF Len(longer) > WindowN THEN LastOf(longer, WindowN) ELSE longer
=============================================================================
