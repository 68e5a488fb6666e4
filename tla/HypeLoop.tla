------------------------------ MODULE HypeLoop ------------------------------
(***************************************************************************)
(* hype_divergence_loop and _publish_hype_divergence (main.py) with the    *)
(* three readers they gather.  gather is one await: it returns when all    *)
(* three reads have ended, with a price, None or an exception each, some   *)
(* of them a while ago.  Then the signal is computed, the history extended *)
(* and the signal SET and XADDed, without a look back.                     *)
(*                                                                         *)
(* Of the signal in Redis only its age in cycles is kept: 0 is the running *)
(* or last cycle's.  Times are distances, as in ScoringLoop.               *)
(***************************************************************************)
EXTENDS HypeDivergence

CONSTANTS
  StreamsReadings,    \* what read_chainlink_price("hype") may return but None
  WordBits,           \* 256: the width of the word latestAnswer() returns
  Words,              \* the words it may hold
  Mids,               \* what the HYPE entry of allMids may parse to
  Raised,             \* a read that ended with an exception
  NoSignal,           \* no signal in the key, the stream or in flight
  Interval,           \* hype_divergence_poll_interval_s, in ticks
  LatestTtl,          \* ex=60, in ticks
  MaxStale, MaxAhead, \* how far Chainlink's clock may be behind or ahead
  MaxCycle,           \* bound: the ticks a cycle's awaits take together
  MaxLag              \* bound: older signals are not told apart

ASSUME LoopAssumption ==
  /\ {Interval, MaxStale, MaxAhead, MaxCycle} \subseteq Nat
  /\ {LatestTtl, MaxLag} \subseteq Nat \ {0}
  /\ WordBits \in Nat \ {0}
  /\ NoPrice \notin StreamsReadings /\ NoSignal \notin Nat
  /\ Raised \notin StreamsReadings \cup {NoPrice}
  /\ \A r \in StreamsReadings :
       r = [price |-> r.price, age |-> r.age] /\ r.age \in (-MaxAhead .. MaxStale) \cup {NoTime}

(* Prices are whole units, or what else float() may give; a word is one of *)
(* WordBits bits.                                                          *)
Floats == Int \cup {NotANumber, Infinite}

ASSUME PriceAssumption ==
  /\ NoPrice \notin Floats
  /\ \A r \in StreamsReadings : r.price \in Floats /\ (r.price \in Int => r.price > 0)
  /\ Words \subseteq 0 .. 2 ^ WordBits - 1
  /\ Mids \subseteq Floats

VARIABLES
  pc,            \* where the loop is
  history,       \* VelocityHistory._entries
  out,           \* the signal being published
  stop,          \* stop_event
  elapsed,       \* ticks since cycle_start
  latest, ttl,   \* Redis: the age of the signal in the latest key, its expiry
  stream,        \* Redis: the age of the last signal in the stream
  appended,      \* signals of this process, up to MaxAppended
  recent,        \* the last WindowN of their entries, the newest first
  refused,       \* cycles in a row whose SET failed, up to MaxRefused
  torn           \* the last signal SET did not reach the stream

redis == <<latest, ttl, stream>>
past == <<appended, recent, refused, torn>>
vars == <<pc, history, out, stop, elapsed, redis, past>>

(* How many failed writes in a row the expiry bridges *)
Period == AtLeast(1, AtLeast(Interval, MaxCycle))
Absorbed == (LatestTtl - 1) \div Period - 2
MaxRefused == AtLeast(0, Absorbed + 1)

MaxAppended == AtLeast(3, WindowN + 1)

-----------------------------------------------------------------------------
(* The readers.  HTTP errors, bad statuses, bodies of another shape and    *)
(* short or undecodable words all give None.                               *)

(* Mutated form: the word taken as unsigned. *)
UnsignedWord(word) == word

(* _decode_int256: two's complement *)
SignedWord(word) == IF word >= 2 ^ (WordBits - 1) THEN word - 2 ^ WordBits ELSE word

(* read_redstone_hype_price: the price in units of 10 ^ -decimals, with    *)
(* the time of the read                                                    *)
RedstoneReading(word) ==
  IF SignedWord(word) <= 0 THEN NoPrice ELSE [price |-> SignedWord(word), age |-> 0]

(* read_hl_hype_mid: "price_usd <= 0" keeps neither a nan nor an infinity  *)
(* out.                                                                    *)
HlReading(mid) ==
  IF mid \notin {NotANumber, Infinite} /\ mid <= 0 THEN NoPrice ELSE [price |-> mid, age |-> 0]

Results(s) ==
  {NoPrice, Raised} \cup CASE s = "streams"  -> StreamsReadings
                           [] s = "redstone" -> {RedstoneReading(w) : w \in Words}
                           [] s = "hl"       -> {HlReading(m) : m \in Mids}

-----------------------------------------------------------------------------
Init ==
  /\ pc = "gathering" /\ history = <<>> /\ out = NoSignal
  /\ stop = FALSE /\ elapsed = 0
  /\ latest = NoSignal /\ ttl = 0 /\ stream = NoSignal
  /\ appended = 0 /\ recent = [i \in 1 .. WindowN |-> NoPrice]
  /\ refused = MaxRefused /\ torn = FALSE

(* Some ticks later a time stamp is as many ticks older. *)
Aged(r, ticks) == IF r.age = NoTime THEN r ELSE [r EXCEPT !.age = @ + ticks]

(* What gather may hand over for a source: its read ended at any time      *)
(* since the cycle began.                                                  *)
Gathered(s) ==
  LET prices == Results(s) \ {NoPrice, Raised}
  IN  {NoPrice, Raised} \cup {Aged(r, ticks) : r \in prices, ticks \in 0 .. elapsed}

(* Exceptions become None. *)
Answers(results) == [s \in Sources |-> IF results[s] = Raised THEN NoPrice ELSE results[s]]

(* sig.ts_ms or int(time.time() * 1000) *)
RecordedAge(age) == IF age = NoTime THEN 0 ELSE age

Older(lag) == IF lag = NoSignal THEN NoSignal ELSE AtMost(MaxLag, lag + 1)

Recorded(entry) == [i \in 1 .. WindowN |-> IF i = 1 THEN entry ELSE recent[i - 1]]

(* Mutated form: gather without return_exceptions. *)
GatherRaises(results) ==
  /\ pc = "gathering"
  /\ IF \E s \in Sources : results[s] = Raised
     THEN pc' = "sleeping" /\ UNCHANGED <<history, out, latest, stream, appended, recent>>
     ELSE /\ out' = Signal(Answers(results), history)
          /\ LET entry == [age |-> RecordedAge(CycleAge(Answers(results))), gap |-> out'.gap]
             IN  history' = Appended(history, entry) /\ recent' = Recorded(entry)
          /\ pc' = "setting"
          /\ latest' = Older(latest) /\ stream' = Older(stream)
          /\ appended' = AtMost(MaxAppended, appended + 1)
  /\ UNCHANGED <<stop, elapsed, ttl, refused, torn>>

(* gather returns; from here to the SET there is no await.  The velocity   *)
(* is that of the history before this cycle's entry.                       *)
GatherReturns(results) ==
  /\ pc = "gathering"
  /\ out' = Signal(Answers(results), history)
  /\ LET entry == [age |-> RecordedAge(CycleAge(Answers(results))), gap |-> out'.gap]
     IN  history' = Appended(history, entry) /\ recent' = Recorded(entry)
  /\ pc' = "setting"
  /\ latest' = Older(latest) /\ stream' = Older(stream)
  /\ appended' = AtMost(MaxAppended, appended + 1)
  /\ UNCHANGED <<stop, elapsed, ttl, refused, torn>>

(* How a Redis command may end: done, failed, or done with the answer lost *)
Outcomes == {"ok", "failed", "lost"}
Executed(outcome) == outcome # "failed"

(* Mutated form: SET and XADD with a try of their own. *)
AddsAnyway(outcome) == TRUE

(* The XADD is in the same try as the SET. *)
Adds(outcome) == outcome = "ok"

SetLatest(outcome) ==
  /\ pc = "setting"
  /\ IF Executed(outcome)
     THEN latest' = 0 /\ ttl' = LatestTtl /\ refused' = 0 /\ torn' = ~Adds(outcome)
     ELSE refused' = AtMost(MaxRefused, refused + 1) /\ UNCHANGED <<latest, ttl, torn>>
  /\ IF Adds(outcome) THEN pc' = "adding" /\ UNCHANGED out
     ELSE pc' = "sleeping" /\ out' = NoSignal
  /\ UNCHANGED <<history, stop, elapsed, stream, appended, recent>>

AddEntry(outcome) ==
  /\ pc = "adding"
  /\ stream' = IF Executed(outcome) THEN 0 ELSE stream
  /\ torn' = ~Executed(outcome)
  /\ pc' = "sleeping" /\ out' = NoSignal
  /\ UNCHANGED <<history, stop, elapsed, latest, ttl, appended, recent, refused>>

(* Mutated form: the loop goes on for ever. *)
WakeForEver ==
  /\ pc = "sleeping" /\ (elapsed >= Interval \/ stop)
  /\ pc' = "gathering" /\ elapsed' = 0
  /\ UNCHANGED <<history, out, stop, redis, past>>

(* The wait ends, by its timeout or by the stop signal. *)
Wake ==
  /\ pc = "sleeping" /\ (elapsed >= Interval \/ stop)
  /\ IF stop THEN pc' = "done" /\ UNCHANGED elapsed ELSE pc' = "gathering" /\ elapsed' = 0
  /\ UNCHANGED <<history, out, stop, redis, past>>

SetStop ==
  /\ pc # "down" /\ ~stop
  /\ stop' = TRUE
  /\ UNCHANGED <<pc, history, out, elapsed, redis, past>>

(* The process dies; a write in flight may still be carried out.  A death  *)
(* after the stop signal ends the run and is left out.                     *)
Crash(executed) ==
  /\ pc \notin {"down", "done"} /\ ~stop
  /\ IF executed /\ pc = "setting" THEN latest' = 0 /\ ttl' = LatestTtl ELSE UNCHANGED <<latest, ttl>>
  /\ stream' = IF executed /\ pc = "adding" THEN 0 ELSE stream
  /\ torn' = CASE pc = "setting" -> executed \/ torn
               [] pc = "adding"  -> ~executed
               [] OTHER          -> torn
  /\ pc' = "down" /\ history' = <<>> /\ out' = NoSignal /\ elapsed' = 0
  /\ appended' = 0 /\ recent' = [i \in 1 .. WindowN |-> NoPrice] /\ refused' = MaxRefused
  /\ UNCHANGED stop

Restart ==
  /\ pc = "down"
  /\ pc' = "gathering"
  /\ UNCHANGED <<history, out, stop, elapsed, redis, past>>

TimeMayPass ==
  CASE pc \in {"down", "done"} -> ttl > 0
    [] pc = "sleeping"         -> elapsed < Interval
    [] OTHER                   -> elapsed < MaxCycle

Tick ==
  /\ TimeMayPass
  /\ elapsed' = IF pc \in {"down", "done"} THEN elapsed ELSE elapsed + 1
  /\ history' = [i \in DOMAIN history |-> Aged(history[i], 1)]
  /\ recent' = [i \in 1 .. WindowN |-> IF i <= appended THEN Aged(recent[i], 1) ELSE recent[i]]
  /\ ttl' = AtLeast(0, ttl - 1)
  /\ latest' = IF ttl' = 0 THEN NoSignal ELSE latest
  /\ UNCHANGED <<pc, out, stop, stream, appended, refused, torn>>

LoopStep ==
  \/ \E a \in Gathered("streams"), b \in Gathered("redstone"), c \in Gathered("hl") :
       GatherReturns([streams |-> a, redstone |-> b, hl |-> c])
  \/ \E outcome \in Outcomes : SetLatest(outcome) \/ AddEntry(outcome)
  \/ Wake

Next ==
  \/ LoopStep
  \/ SetStop
  \/ \E executed \in BOOLEAN : Crash(executed)
  \/ Restart
  \/ Tick

Spec == Init /\ [][Next]_vars

(* LoopStep told by where it leads: every step of the loop takes it to     *)
(* another place, and only a crash takes it down.                          *)
Advances ==
  /\ pc \in {"gathering", "setting", "adding"} \/ (pc = "sleeping" /\ (elapsed >= Interval \/ stop))
  /\ pc' \in {"gathering", "setting", "adding", "sleeping", "done"} \ {pc}

(* The HTTP reads end by their timeouts; that Redis answers, and at some   *)
(* time carries out one of many SETs, is an assumption.                    *)
Fairness ==
  /\ WF_pc(Advances) /\ WF_vars(Tick) /\ WF_vars(Restart)
  /\ SF_vars(SetLatest("ok"))

FairSpec == Spec /\ Fairness

-----------------------------------------------------------------------------
MaxSkew == MaxAhead + MaxStale + MaxCycle

TypeOK ==
  /\ pc \in {"gathering", "setting", "adding", "sleeping", "done", "down"}
  /\ IF pc \in {"setting", "adding"}
     THEN /\ out.leader \in Sources \cup {"none"} /\ out.gap \in Nat \cup {NotANumber}
          /\ out.prices["redstone"] \in {NoPrice} \cup 1 .. 2 ^ (WordBits - 1) - 1
     ELSE out = NoSignal
  /\ \A i \in DOMAIN history : history[i].gap \in Nat \cup {NotANumber} /\ history[i].age \in Int
  /\ {latest, stream} \subseteq (0 .. MaxLag) \cup {NoSignal}
  /\ ttl \in 0 .. LatestTtl /\ (ttl = 0 <=> latest = NoSignal)
  /\ elapsed \in 0 .. AtLeast(Interval, MaxCycle)
  /\ appended \in 0 .. MaxAppended /\ refused \in 0 .. MaxRefused
  /\ {stop, torn} \subseteq BOOLEAN

(* "leader: the source furthest from the median": among finite prices it   *)
(* is always one of the two sources whose gap is the signal's max_div_bps, *)
(* which no median enters; a source without a price - None, an exception,  *)
(* a nan - never leads, and a lone one does not.  An infinite price always *)
(* leads, but the gap beside it is a nan, or that of the two other sources *)
(* when Hyperliquid's is the infinite one.                                 *)
LeaderInWidestPair ==
  out # NoSignal =>
    LET some == Present(out.prices)
        endless == {s \in some : out.prices[s] = Infinite}
    IN  IF Cardinality(some) < 2 THEN out.leader = "none" /\ out.gap = 0
        ELSE IF endless = {}
        THEN /\ out.leader \in some
             /\ \E s \in some : out.gap = PairBps(out.prices[out.leader], out.prices[s])
        ELSE /\ out.leader \in endless
             /\ \/ out.gap = NotANumber
                \/ /\ endless = {"hl"} /\ some = Sources
                   /\ out.gap = PairBps(out.prices["streams"], out.prices["redstone"])

(* What the velocity is taken from: the history is that of the last        *)
(* WindowN cycles of this process, the newest last - failed publishes and  *)
(* failed sources included, a former process excluded - and although its   *)
(* times come from whichever source answered, none lies before the time of *)
(* an earlier cycle by more than Chainlink's clock may be off.  A signal   *)
(* carries a velocity only after two earlier ones.                         *)
HistoryFaithful ==
  /\ WindowN > 0 =>
       /\ Len(history) = AtMost(WindowN, appended)
       /\ \A i \in DOMAIN history : history[i] = recent[Len(history) + 1 - i]
  /\ \A i, j \in DOMAIN history : i <= j => history[j].age <= history[i].age + MaxSkew
  /\ out # NoSignal /\ out.velocity # NoVelocity => appended >= 3

(* SET and XADD share a try: the stream never holds a signal the latest    *)
(* key has not held, and while no write went wrong halfway - an answer     *)
(* lost, a crash between the two - both end with the same signal.          *)
StreamFollowsLatest ==
  latest # NoSignal =>
    /\ stream # NoSignal => stream >= latest
    /\ pc # "adding" /\ ~torn => stream = latest

(* "a failing source just becomes None": whatever the sources do, each     *)
(* cycle sends its signal, so the minute of the latest key bridges         *)
(* Absorbed failed writes in a row.                                        *)
LatestOutlivesOutages ==
  pc \notin {"down", "done"} /\ refused <= Absorbed => ttl > 0

(* The loop is a task as main expects it. *)
AbstractTask == INSTANCE Task WITH returned <- pc = "done"
ImplementsTask == AbstractTask!LiveSpec

(* Without a stop, and once the process no longer dies, the latest key is  *)
(* written again and again, whatever the sources do.                       *)
SignalsKeepComing ==
  <>[](pc # "down") => []<>(stop \/ ttl = LatestTtl)
=============================================================================
