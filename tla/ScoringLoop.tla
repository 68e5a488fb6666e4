---------------------------- MODULE ScoringLoop -----------------------------
(***************************************************************************)
(* The composite-scoring loop (scoring_loop of main.py) with everything it *)
(* calls: the Chainlink prices read from Redis, the Pyth snapshot the      *)
(* websocket subscriber fills meanwhile, the confidence tracker, the       *)
(* score, its SET and XADD, and the republished Pyth prices.               *)
(*                                                                         *)
(* Every await is a step of its own, so the subscriber, the Chainlink      *)
(* writer, the stop signal and a crash come in between.  A Redis call may  *)
(* fail, or be carried out with its answer lost.  The process may crash    *)
(* at any point and is started again by Docker.                            *)
(*                                                                         *)
(* Time is counted in ticks and kept as distances - to the start of the    *)
(* cycle, to an expiry, to the last write - so that no clock grows.  A     *)
(* tick is a second, as in the expiry of the latest key, and an interval   *)
(* is a whole number of them.                                              *)
(* MaxCycle bounds the ticks a cycle's awaits take together: the client    *)
(* has no timeout of its own, the bound is an assumption on Redis.         *)
(***************************************************************************)
EXTENDS Confidence, Divergence, Composite, Dispersion

CONSTANTS
  AliasSeq,           \* chainlink_feed_aliases_csv
  PythOnly,           \* assets with a Pyth feed that are not in AliasSeq
  QuotesOf,           \* per asset, the quotes [price, band, time] Pyth may give
  KeysOf,             \* per asset, what chainlink:<alias>:latest may hold
  NoQuote,            \* no snapshot yet
  NoPrice,            \* a key that is missing or whose price is unusable;
                      \* a nan or an infinity scores as none does
  Poison,             \* a value on which parsing raises, such as a JSON array
  NoScore,            \* no entry
  Threshold,          \* composite_publish_threshold, in units of 1 / Unit
  Interval,           \* cycle_interval_sec, in ticks
  PublishPyth,        \* pyth_publish_to_redis
  MinGap,             \* pyth_publish_min_interval_ms, in ticks
  MaxCycle,           \* bound: the ticks a cycle's awaits take together
  MaxMisses,          \* bound: the cycles without a write that are counted
  MayStop             \* bound: whether the stop signal may come

Scored == {AliasSeq[i] : i \in DOMAIN AliasSeq}
Aliases == Scored \cup PythOnly

Score == [divergence : 0 .. Unit, confidence : 0 .. Unit, dispersion : 0 .. Unit,
          composite : 0 .. Unit]

ASSUME LoopAssumption ==
  /\ Len(AliasSeq) \in Nat \ {0} /\ DOMAIN AliasSeq = 1 .. Len(AliasSeq)
  /\ \A a \in Aliases : NoQuote \notin QuotesOf[a] /\ \A q \in QuotesOf[a] : q.price > 0
  /\ {Interval, MinGap, MaxCycle, MaxMisses} \subseteq Nat /\ {PublishPyth, MayStop} \subseteq BOOLEAN

ASSUME ValueAssumption ==
  /\ \A a \in Aliases : QuotesOf[a] \subseteq [price : Int, band : Nat, time : Int]
  /\ \A a \in Scored : KeysOf[a] \ {NoPrice, Poison} \subseteq [price : Int, time : Int]
  /\ NoPrice # Poison /\ NoScore \notin Score

VARIABLES
  pc, at,       \* where the loop is, and its position in AliasSeq
  left,         \* the aliases the Pyth loop has still to visit
  out,          \* what the Redis write in progress carries
  flight,       \* ticks since the Pyth write in progress took its now_ms
  prices,       \* chainlink_prices
  snap,         \* PythSnapshot._snapshots
  window,       \* ConfidenceTracker._window
  since,        \* ticks since _last_publish_ms, up to MinGap
  stop,         \* stop_event
  elapsed,      \* ticks since cycle_start
  clKey,        \* Redis: chainlink:<alias>:latest
  latest, ttl,  \* Redis: ocde:score:<alias>:latest, ticks until it expires
  stream,       \* Redis: the last entry of ocde:scores:<alias>
  pythKey,      \* Redis: pyth:<alias>:latest
  cycle,        \* history of the running cycle
  past          \* history of each asset

control == <<pc, at, left, out, flight>>
memory == <<prices, snap, window, since>>
scores == <<latest, ttl, stream>>
vars == <<control, memory, stop, elapsed, clKey, scores, pythKey, cycle, past>>

(* cycle.held     what the Chainlink key held at some time in this cycle   *)
(* cycle.due      the scored assets with a snapshot when it began          *)
(* cycle.tried    those whose score was sent                               *)
(* cycle.raised   an exception ended it                                    *)
NewCycle ==
  [held |-> [a \in Scored |-> {clKey[a]}],
   due |-> {a \in Scored : snap[a] # NoQuote},
   tried |-> {}, raised |-> FALSE]

(* past.readings  readings of the process, up to MinSamples + 1            *)
(* past.torn      a write of the asset's last signal went wrong            *)
(* past.misses    cycles begun since its latest key was written, up to     *)
(*                MaxMisses                                                *)
(* past.acked     ticks since its last acknowledged Pyth write was sent,   *)
(*                up to MinGap                                             *)
MaxReadings == MinSamples + 1

(* Mutated form: the expiry is one cycle. *)
LatestTtlOfOneCycle == AtLeast(1, Interval)

(* The expiry of the latest key: max(5, int(5 * cycle_interval_sec)), where *)
(* int drops nothing of whole seconds                                       *)
LatestTtl == AtLeast(5, 5 * Interval)

-----------------------------------------------------------------------------
Init ==
  /\ pc = "reading" /\ at = 1 /\ left = {} /\ out = NoScore /\ flight = 0
  /\ prices = [a \in Scored |-> NoPrice]
  /\ snap = [a \in Aliases |-> NoQuote]
  /\ window = [a \in Scored |-> <<>>]
  /\ since = [a \in Aliases |-> MinGap]
  /\ stop = FALSE /\ elapsed = 0
  /\ clKey = [a \in Scored |-> NoPrice]
  /\ latest = [a \in Scored |-> NoScore]
  /\ ttl = [a \in Scored |-> 0]
  /\ stream = [a \in Scored |-> NoScore]
  /\ pythKey = [a \in Aliases |-> NoQuote]
  /\ cycle = NewCycle
  /\ past = [a \in Aliases |-> [readings |-> 0, torn |-> FALSE, misses |-> MaxMisses, acked |-> MinGap]]

(* The asset the running for loop is at *)
Current == AliasSeq[at]
AtLast == at = Len(AliasSeq)

(* Mutated form: the dict of the last cycle is kept and updated. *)
KeptPrices == prices

(* read_chainlink_prices begins with an empty dict. *)
FreshPrices == [a \in Scored |-> NoPrice]

(* One read_chainlink_price of the batch returns; a price goes into the    *)
(* dict, a None does not.                                                  *)
ReadPrice ==
  /\ pc = "reading"
  /\ clKey[Current] # Poison
  /\ prices' = [prices EXCEPT ![Current] = IF clKey[Current] = NoPrice THEN @ ELSE clKey[Current]]
  /\ IF AtLast THEN pc' = "scoring" /\ at' = 1 ELSE at' = at + 1 /\ UNCHANGED pc
  /\ UNCHANGED <<left, out, flight, snap, window, since, stop, elapsed, clKey, scores, pythKey, cycle, past>>

(* Mutated form: the exception is not caught and ends the loop's task.     *)
ReadRaisesUncaught ==
  /\ pc = "reading"
  /\ pc' = "done"
  /\ cycle' = [cycle EXCEPT !.raised = TRUE]
  /\ UNCHANGED <<at, left, out, flight, memory, stop, elapsed, clKey, scores, pythKey, past>>

(* Redis fails, or the value breaks the parser: the exception reaches the  *)
(* handler of the cycle.                                                   *)
ReadRaises ==
  /\ pc = "reading"
  /\ pc' = "sleeping"
  /\ cycle' = [cycle EXCEPT !.raised = TRUE]
  /\ UNCHANGED <<at, left, out, flight, memory, stop, elapsed, clKey, scores, pythKey, past>>

(* Where the for loop goes after an asset: to the next one or, after the   *)
(* last, to the Pyth loop, whose list of aliases is taken now.             *)
Advance ==
  LET pyth == IF AtLast /\ PublishPyth THEN {a \in Aliases : snap[a] # NoQuote} ELSE {}
  IN  /\ pc' = IF ~AtLast THEN "scoring" ELSE IF pyth = {} THEN "sleeping" ELSE "pyth"
      /\ at' = IF AtLast THEN 1 ELSE at + 1
      /\ left' = pyth
      /\ out' = NoScore

(* Mutated form: break instead of continue. *)
SkipAssetBreaks ==
  /\ pc = "scoring"
  /\ snap[Current] = NoQuote
  /\ pc' = "sleeping"
  /\ UNCHANGED <<at, left, out, flight, memory, stop, elapsed, clKey, scores, pythKey, cycle, past>>

SkipAsset ==
  /\ pc = "scoring"
  /\ snap[Current] = NoQuote
  /\ Advance
  /\ UNCHANGED <<flight, memory, stop, elapsed, clKey, scores, pythKey, cycle, past>>

Bps(q) == (10000 * q.band) \div q.price

(* The three components and the composite of asset a.  Pyth's messages     *)
(* carry no publishers, so the list is always empty.                       *)
ScoreOf(a) ==
  LET div == IF prices[a] = NoPrice THEN 0 ELSE DivergenceScore(snap[a], prices[a])
      conf == Widening(window[a], Bps(snap[a])).score
      disp == DispersionScore(<<>>)
  IN  [divergence |-> div, confidence |-> conf, dispersion |-> disp,
       composite |-> Combine(div, conf, disp)]

(* From the snapshot to the SET of publish_score, without an await. *)
ScoreAsset ==
  /\ pc = "scoring"
  /\ snap[Current] # NoQuote
  /\ out' = ScoreOf(Current)
  /\ window' = [window EXCEPT ![Current] = Push(@, Bps(snap[Current]))]
  /\ pc' = "setting"
  /\ past' = [past EXCEPT ![Current].readings = AtMost(MaxReadings, @ + 1)]
  /\ UNCHANGED <<at, left, flight, prices, snap, since, stop, elapsed, clKey, scores, pythKey, cycle>>

-----------------------------------------------------------------------------
(* How a Redis write may end: done, failed, or done with the answer lost,  *)
(* which the client sees as a failure.                                     *)
Outcomes == {"ok", "failed", "lost"}
Executed(outcome) == outcome # "failed"

(* Mutated form: a score at the threshold is kept out of the stream. *)
IsSignalStrict(score) == score.composite > Threshold

(* What goes to the stream *)
IsSignal(score) == score.composite >= Threshold

WriteLatest(a, score) ==
  /\ latest' = [latest EXCEPT ![a] = score]
  /\ ttl' = [ttl EXCEPT ![a] = LatestTtl]

(* The SET of publish_score returns or raises; its except clause only      *)
(* logs, so the XADD of a signal follows in any case.                      *)
SetLatest(outcome) ==
  /\ pc = "setting"
  /\ IF Executed(outcome) THEN WriteLatest(Current, out) ELSE UNCHANGED <<latest, ttl>>
  /\ IF IsSignal(out) THEN pc' = "adding" /\ UNCHANGED <<at, left, out>> ELSE Advance
  /\ cycle' = [cycle EXCEPT !.tried = @ \cup {Current}]
  /\ past' = [past EXCEPT ![Current].torn = ~Executed(outcome) /\ (@ \/ IsSignal(out)),
                          ![Current].misses = IF Executed(outcome) THEN 0 ELSE @]
  /\ UNCHANGED <<flight, memory, stop, elapsed, clKey, stream, pythKey>>

AddSignal(outcome) ==
  /\ pc = "adding"
  /\ stream' = IF Executed(outcome) THEN [stream EXCEPT ![Current] = out] ELSE stream
  /\ Advance
  /\ past' = [past EXCEPT ![Current].torn = @ \/ ~Executed(outcome)]
  /\ UNCHANGED <<flight, memory, stop, elapsed, clKey, latest, ttl, pythKey, cycle>>

-----------------------------------------------------------------------------
(* publish_pyth_price of one asset: the throttle, then the SET.            *)
Throttled(a) == since[a] < MinGap

Visited(a) ==
  /\ left' = left \ {a}
  /\ pc' = IF left' = {} THEN "sleeping" ELSE "pyth"

(* Mutated form: the time noted before the throttle, so also when skipping. *)
SkipPythStamps(a) ==
  /\ pc = "pyth" /\ a \in left
  /\ Throttled(a)
  /\ Visited(a)
  /\ since' = [since EXCEPT ![a] = 0]
  /\ UNCHANGED <<at, out, flight, prices, snap, window, stop, elapsed, clKey, scores, pythKey, cycle, past>>

SkipPyth(a) ==
  /\ pc = "pyth" /\ a \in left
  /\ Throttled(a)
  /\ Visited(a)
  /\ UNCHANGED <<at, out, flight, memory, stop, elapsed, clKey, scores, pythKey, cycle, past>>

(* now_ms is taken and the SET of the current quote is sent. *)
SendPyth(a) ==
  /\ pc = "pyth" /\ a \in left
  /\ ~Throttled(a)
  /\ pc' = "settingPyth"
  /\ out' = [asset |-> a, quote |-> snap[a]]
  /\ flight' = 0
  /\ UNCHANGED <<at, left, memory, stop, elapsed, clKey, scores, pythKey, cycle, past>>

(* Mutated form: the time is noted although the write failed. *)
StampsAlways(outcome) == TRUE

(* _last_publish_ms is set after the SET, inside the try.  The expiry of   *)
(* pyth:<alias>:latest, a minute, is beyond the ticks told apart here: the *)
(* model's key stays.                                                      *)
Stamps(outcome) == outcome = "ok"

SetPyth(outcome) ==
  /\ pc = "settingPyth"
  /\ pythKey' = IF Executed(outcome) THEN [pythKey EXCEPT ![out.asset] = out.quote] ELSE pythKey
  /\ since' = IF Stamps(outcome) THEN [since EXCEPT ![out.asset] = AtMost(MinGap, flight)] ELSE since
  /\ Visited(out.asset)
  /\ out' = NoScore /\ flight' = 0
  /\ past' = [past EXCEPT ![out.asset].acked =
                IF outcome = "ok" THEN AtMost(MinGap, flight) ELSE @]
  /\ UNCHANGED <<at, prices, snap, window, stop, elapsed, clKey, scores, cycle>>

-----------------------------------------------------------------------------
(* The head of the while loop *)
BeginCycle ==
  /\ pc' = "reading" /\ at' = 1 /\ elapsed' = 0
  /\ prices' = FreshPrices
  /\ cycle' = NewCycle

(* Mutated form: the loop goes on for ever. *)
WakeForEver ==
  /\ pc = "sleeping"
  /\ elapsed >= Interval \/ stop
  /\ BeginCycle
  /\ UNCHANGED <<left, out, flight, snap, window, since, stop, clKey, scores, pythKey, past>>

(* The wait between cycles is over: by its timeout or by the stop signal.  *)
Wake ==
  /\ pc = "sleeping"
  /\ elapsed >= Interval \/ stop
  /\ IF stop THEN pc' = "done" /\ UNCHANGED <<at, elapsed, prices, cycle, past>>
     ELSE /\ BeginCycle
          /\ past' = [a \in Aliases |-> [past[a] EXCEPT !.misses = AtMost(MaxMisses, @ + 1)]]
  /\ UNCHANGED <<left, out, flight, snap, window, since, stop, clKey, scores, pythKey>>

SetStop ==
  /\ MayStop /\ pc # "down" /\ ~stop
  /\ stop' = TRUE
  /\ UNCHANGED <<control, memory, elapsed, clKey, scores, pythKey, cycle, past>>

(* The process dies; a write in flight may still be carried out.  After    *)
(* the stop signal Docker leaves it down, so a death then ends the run and *)
(* is left out.                                                            *)
Crash(executed) ==
  /\ pc \notin {"down", "done"} /\ ~stop
  /\ IF executed /\ pc = "setting" THEN WriteLatest(Current, out) ELSE UNCHANGED <<latest, ttl>>
  /\ stream' = IF executed /\ pc = "adding" THEN [stream EXCEPT ![Current] = out] ELSE stream
  /\ pythKey' = IF executed /\ pc = "settingPyth" THEN [pythKey EXCEPT ![out.asset] = out.quote] ELSE pythKey
  /\ pc' = "down" /\ at' = 1 /\ left' = {} /\ out' = NoScore /\ flight' = 0 /\ elapsed' = 0
  /\ prices' = FreshPrices
  /\ snap' = [a \in Aliases |-> NoQuote]
  /\ window' = [a \in Scored |-> <<>>]
  /\ since' = [a \in Aliases |-> MinGap]
  /\ past' = [a \in Aliases |->
                [readings |-> 0, misses |-> MaxMisses, acked |-> MinGap,
                 torn |-> past[a].torn \/ (pc \in {"setting", "adding"} /\ a = Current /\ IsSignal(out))]]
  /\ cycle' = NewCycle
  /\ UNCHANGED <<stop, clKey>>

(* Docker starts the process again (restart: unless-stopped). *)
Restart ==
  /\ pc = "down"
  /\ BeginCycle
  /\ UNCHANGED <<left, out, flight, snap, window, since, stop, clKey, scores, pythKey, past>>

-----------------------------------------------------------------------------
(* The environment: the websocket subscriber stores a quote, the Chainlink *)
(* service writes its key or lets it expire, and time passes.              *)
PythUpdates(a, q) ==
  /\ pc \notin {"down", "done"}
  /\ snap' = [snap EXCEPT ![a] = q]
  /\ UNCHANGED <<control, prices, window, since, stop, elapsed, clKey, scores, pythKey, cycle, past>>

ChainlinkWrites(a, v) ==
  /\ pc # "done"
  /\ clKey' = [clKey EXCEPT ![a] = v]
  /\ cycle' = [cycle EXCEPT !.held[a] = @ \cup {v}]
  /\ UNCHANGED <<control, memory, stop, elapsed, scores, pythKey, past>>

(* A sleeping loop wakes when its time has come, a working one finishes    *)
(* its cycle within MaxCycle.                                              *)
TimeMayPass ==
  CASE pc \in {"down", "done"} -> \E a \in Scored : ttl[a] > 0
    [] pc = "sleeping"         -> elapsed < Interval
    [] OTHER                   -> elapsed < MaxCycle

Tick ==
  /\ TimeMayPass
  /\ elapsed' = IF pc \in {"down", "done"} THEN elapsed ELSE elapsed + 1
  /\ flight' = IF pc = "settingPyth" THEN flight + 1 ELSE flight
  /\ since' = [a \in Aliases |-> AtMost(MinGap, since[a] + 1)]
  /\ ttl' = [a \in Scored |-> AtLeast(0, ttl[a] - 1)]
  /\ latest' = [a \in Scored |-> IF ttl'[a] = 0 THEN NoScore ELSE latest[a]]
  /\ past' = [a \in Aliases |-> [past[a] EXCEPT !.acked = AtMost(MinGap, @ + 1)]]
  /\ UNCHANGED <<pc, at, left, out, prices, snap, window, stop, clKey, stream, pythKey, cycle>>

Next ==
  \/ ReadPrice \/ ReadRaises
  \/ SkipAsset \/ ScoreAsset
  \/ \E outcome \in Outcomes : SetLatest(outcome) \/ AddSignal(outcome) \/ SetPyth(outcome)
  \/ \E a \in Aliases : SkipPyth(a) \/ SendPyth(a)
  \/ Wake
  \/ SetStop
  \/ \E executed \in BOOLEAN : Crash(executed)
  \/ Restart
  \/ \E a \in Aliases : \E q \in QuotesOf[a] : PythUpdates(a, q)
  \/ \E a \in Scored : \E v \in KeysOf[a] : ChainlinkWrites(a, v)
  \/ Tick

Spec == Init /\ [][Next]_vars

LoopStep ==
  \/ ReadPrice \/ ReadRaises \/ SkipAsset \/ ScoreAsset \/ Wake
  \/ \E outcome \in Outcomes : SetLatest(outcome) \/ AddSignal(outcome) \/ SetPyth(outcome)
  \/ \E a \in Aliases : SkipPyth(a) \/ SendPyth(a)

(* Every await returns or raises, a sleep ends, time passes and Docker     *)
(* restarts the process.  A Redis call that is tried again and again       *)
(* succeeds at some time, for each asset.                                  *)
Fairness ==
  /\ WF_vars(LoopStep) /\ WF_vars(Tick) /\ WF_vars(Restart)
  /\ \A i \in DOMAIN AliasSeq :
       SF_vars(at = i /\ ReadPrice) /\ SF_vars(at = i /\ SetLatest("ok"))
  /\ \A a \in Aliases : SF_vars(pc = "settingPyth" /\ out.asset = a /\ SetPyth("ok"))

FairSpec == Spec /\ Fairness

-----------------------------------------------------------------------------
TypeOK ==
  /\ pc \in {"reading", "scoring", "setting", "adding", "pyth", "settingPyth", "sleeping",
             "done", "down"}
  /\ at \in DOMAIN AliasSeq /\ left \subseteq Aliases
  /\ CASE pc \in {"setting", "adding"} -> out \in Score
       [] pc = "settingPyth" -> out.asset \in left /\ out.quote \in QuotesOf[out.asset]
       [] OTHER -> out = NoScore
  /\ \A a \in Aliases : {snap[a], pythKey[a]} \subseteq QuotesOf[a] \cup {NoQuote}
  /\ \A a \in Scored :
       /\ clKey[a] \in KeysOf[a] \cup {NoPrice} /\ prices[a] \in (KeysOf[a] \cup {NoPrice}) \ {Poison}
       /\ {latest[a], stream[a]} \subseteq Score \cup {NoScore}
       /\ ttl[a] \in 0 .. LatestTtl /\ (ttl[a] = 0 <=> latest[a] = NoScore)
       /\ Len(window[a]) <= WindowN
  /\ \A a \in Aliases : since[a] \in 0 .. MinGap
  /\ elapsed \in 0 .. AtLeast(Interval, MaxCycle) /\ flight \in 0 .. MaxCycle
  /\ stop \in BOOLEAN

(* A score never says more than its evidence.  Its divergence is that of a *)
(* quote of the asset against a price its Chainlink key held during this   *)
(* very cycle - nothing is carried over from an earlier one - its          *)
(* confidence part needs MinSamples readings of this process, also after a *)
(* restart, and a component without evidence does not lift the others.     *)
ScoreHasEvidence ==
  pc \in {"setting", "adding"} =>
    LET fresh == cycle.held[Current] \ {NoPrice, Poison}
        warm == past[Current].readings > MinSamples
    IN  /\ out.divergence > 0 =>
             \E v \in fresh, q \in QuotesOf[Current] : out.divergence = DivergenceScore(q, v)
        /\ out.confidence > 0 => warm
        /\ out.composite <= (IF fresh # {} THEN WeightDivergence ELSE 0)
                              + (IF warm THEN WeightConfidence ELSE 0)

(* A cycle scores all of its assets or none.  A cycle that ended without   *)
(* an exception has sent the score of every asset that had a snapshot when *)
(* it began, whatever became of the writes of the others; a cycle that an  *)
(* exception ended has sent none.                                          *)
AllOrNothing ==
  pc \in {"pyth", "sleeping"} =>
    IF cycle.raised THEN cycle.tried = {} ELSE cycle.due \subseteq cycle.tried

(* The stream and the latest key tell the same story: outside a publish,   *)
(* an asset whose last signal was written without a failure or a crash has *)
(* its latest signal as the last entry of its stream, and the stream holds *)
(* signals only.                                                           *)
SignalsOnRecord ==
  \A a \in Scored :
    /\ stream[a] # NoScore => stream[a].composite >= Threshold
    /\ /\ latest[a] # NoScore /\ ~past[a].torn
       /\ ~(pc = "adding" /\ a = Current)
       => (latest[a].composite >= Threshold => stream[a] = latest[a])

(* How many cycles in a row may begin without a write of an asset's score  *)
(* before its latest key expires under the consumers                       *)
Period == AtLeast(1, AtLeast(Interval, MaxCycle))
AbsorbedMisses == (5 * Interval - 1) \div Period - 1

(* "A TTL of 5x the cycle interval so consumers know the score is stale":  *)
(* a running loop keeps the latest key alive through AbsorbedMisses cycles *)
(* that do not write it, however the writes fall within their cycles.      *)
LatestOutlivesFailures ==
  \A a \in Scored :
    pc \notin {"down", "done"} /\ past[a].misses <= AbsorbedMisses => ttl[a] > 0

(* The Pyth throttle follows the writes that were acknowledged: an asset   *)
(* is passed over only within MinGap of such a write and written only      *)
(* outside it, so a failed write is tried again in the next cycle.         *)
PythThrottle ==
  [][\A a \in left : pc = "pyth" /\ pc' # "down" =>
       /\ pc' = "settingPyth" /\ out'.asset = a => past[a].acked >= MinGap
       /\ a \notin left' => past[a].acked < MinGap]_vars

(* The loop is a task as main expects it: no failure and no crash ends it  *)
(* before the stop signal, and after that it returns, from any await.      *)
AbstractTask == INSTANCE Task WITH returned <- pc = "done"
ImplementsTask == AbstractTask!LiveSpec

PoisonGoes == <>[](\A a \in Scored : clKey[a] # Poison)

(* No failure of Redis ends the loop: as long as no key stays unreadable,  *)
(* an asset with a snapshot is scored again and again.                     *)
ScoresKeepComing ==
  PoisonGoes =>
    \A a \in Scored : snap[a] # NoQuote ~> ttl[a] = LatestTtl \/ snap[a] = NoQuote \/ stop

(* The fallback price in Redis catches up with the snapshot, also with one *)
(* that changed while the throttle was closed, through failed writes and   *)
(* restarts.                                                               *)
FallbackCatchesUp ==
  PoisonGoes /\ PublishPyth =>
    \A a \in Aliases : \A q \in QuotesOf[a] : snap[a] = q ~> pythKey[a] = q \/ snap[a] # q \/ stop

(* read_chainlink_price: "Returns None if missing or malformed", and       *)
(* read_chainlink_prices: "Returns only those that succeed".  A malformed  *)
(* key costs no other asset its score: one whose own key can be read is    *)
(* scored again and again.                                                 *)
MalformedStaysLocal ==
  \A a \in Scored : Poison \notin KeysOf[a] =>
    (snap[a] # NoQuote ~> ttl[a] = LatestTtl \/ snap[a] = NoQuote \/ stop)
=============================================================================
