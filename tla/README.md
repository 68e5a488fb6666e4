# OCDE in TLA+

OCDE reads the prices of one asset from several oracles and publishes how much
they disagree. This directory models the program in TLA+, checks it with TLC on
small instances and proves some of its properties with TLAPS for all of them.
Paths below are relative to the repository (`src/ocde/main.py`); `PROJECT.json`
maps every definition to its lines, with the repository under `src/`.

## 1. Inventory

One process, one asyncio event loop, four tasks started by `main()`, which run
until `stop_event` is set by SIGINT or SIGTERM. Tasks interleave at their
awaits only. State is in memory, so a restart (Docker, `unless-stopped`) loses it, and in
Redis, which survives.

| part | state | operations | talks to |
|---|---|---|---|
| Pyth subscriber, `pyth_ws.py` | `backoff_sec`, the connection, `PythSnapshot` | connect, receive, close, wait, stop | Hermes; read by scoring loop and health |
| Scoring loop, `main.py:44-114` | `chainlink_prices`, the position in the cycle | one cycle per `cycle_interval_sec` | everything below, the snapshot |
| Chainlink reader, `chainlink_reader.py` | none | batch of GETs, parsing | Redis keys another service writes |
| Confidence tracker, `confidence.py` | a window per asset | `observe` | called once per asset and cycle |
| Divergence, dispersion, composite | none (pure) | the three formulas | called by the scoring loop |
| Score publisher, `redis_publisher.py` | none | SET with expiry, then XADD of signals | Redis |
| Pyth publisher, `pyth_publisher.py` | `_last_publish_ms` | throttled SET | Redis |
| HYPE loop, `main.py:117-204` with `hype_divergence.py`, `hyperevm_reader.py`, `hyperliquid_reader.py` | `VelocityHistory` | three concurrent reads, gaps, leader, velocity, SET and XADD | Redis, two HTTP APIs |
| Redis client, `redis_client.py` | one client, one lock | lazy connect, close | all |
| Start and stop, `main.py:207-245` | `stop_event`, tasks | start, gather, close | all |
| Health, `health.py` | none | `/health`, `/metrics` | snapshot, Redis |
| Settings | constants | | |

What makes each part correct:

- *Subscriber*: retries are paced as documented and never end; the snapshot of
  an alias is the last usable update of its own feed; the stop signal ends it
  from anywhere, unless a live connection stays silent.
- *Tracker*: a window of exactly the last N readings, no score before a
  baseline, a ramp without drops, silence on a frozen feed.
- *Divergence, dispersion*: monotone in the disagreement, symmetric where no
  side is privileged, silent on stale feeds and lone outliers.
- *HYPE loop*: the leader is one of the two sources that are furthest apart;
  the velocity comes from the last N cycles of this process, failed ones
  included; no failure of a source costs a signal; stream and latest key agree.
- *Start and stop*: each loop is a task that returns after the stop event and
  only then; the client is closed when nobody is left to use it; the process
  ends by itself only when told to, and then it does.
- *Loop and publishers*: no score without evidence of this very cycle and this
  very process; a cycle scores all assets or none; stream and latest key agree;
  the latest key outlives a few cycles that fail to write it; the throttle follows
  acknowledged writes; scores keep coming.

The hard behaviours: prices, the snapshot and Redis change between the awaits
of a cycle; every Redis call may fail or lose its answer; the process may
crash between the two writes of a score; connections fail, close or bring
malformed messages in any order, or stay open and silent; three reads of one cycle end
at different times, each with a price, None or an exception; the stop signal
reaches two handlers, main's and uvicorn's, which are not installed together. `PROJECT.json` lists each at
its line under `hazards`.

## 2. Modules

```
Statistics ------------------------------------------- StatisticsProofs
           +- Confidence ------+-- ConfidenceTracker -- ConfidenceTrackerProofs
           |                   |
           +- Divergence ------+-- OracleFeeds -------- OracleFeedsProofs
           +- Composite -------+
           +- Dispersion ------+-- PublisherQuotes ---- PublisherQuotesProofs
           |                   |
           |                   +-- ScoringLoop -------- ScoringLoopProofs
           |
           +- HypeDivergence ----- HypeLoop ----------- HypeLoopProofs
PythSubscriber ---------------------------------------- PythSubscriberProofs
Lifecycle --------------------------------------------- LifecycleProofs
```

**Task** is the abstract specification of a loop: `stop` is set once and for
all, `returned` comes after it and, in `LiveSpec`, does come. PythSubscriber,
ScoringLoop and HypeLoop instantiate it over their own state (`AbstractTask`)
and implement it (`ImplementsTask`); Lifecycle is written over tasks that
behave so. **StatisticsProofs** holds the lemmas the other proof modules share.

An `MC` module of the same name gives each specification its instance.

**Statistics, Confidence, Divergence, Composite, Dispersion**: the formulas.
A score, a float from 0 to 1 in the code, is an integer from 0 to `Unit`,
rounded down once. Thresholds are compared by cross-multiplication and so are
exact; medians of an even number of readings are kept doubled, a standard
deviation is compared squared. A sample is a function on any finite set of
indices, since sorting forgets the order; a list without its non-positive
prices is then its restriction. What remains of the floats is therefore neither
proved nor checked: results of the models hold up to one thousandth in a score,
and a comparison within floating-point error of its threshold may fall
the other way in the code.

**ConfidenceTracker**: `observe` and its window per asset. `signal` is the
value returned last; `total` and `frozen` count readings for the properties.

**OracleFeeds, PublisherQuotes**: the inputs of `compute_divergence` and
`compute_dispersion` as they evolve: feeds publish, age and stop; publishers
join, leave and requote. The properties are about the formulas.
`WiderGapNeverScoresLess` moves a price only to positive ones: at a price of 0
or less the code says `non_positive_price` and scores 0, however wide the gap was.

**PythSubscriber**: `run_subscriber` and `_stream_one`.

| model | code |
|---|---|
| `sub` | where the task is: `websockets.connect`, the receive loop, the wait, returned |
| `ConnectOk`, `ConnectFails` | the connect and the subscribe message |
| `Receive(m)` | one iteration of `async for raw in ws`: stop check, parse, lookup, update |
| `CleanClose`, `ErrorClose` | the iteration ends, or raises |
| `HermesMutes`, `mute` | a live Hermes that answers pings and sends nothing: neither a message, which is when `stop_event` is looked at, nor a close |
| `BackoffEnds` | `wait_for(stop_event.wait(), backoff_sec)` ends either way |
| `Usable`, `FeedOf`, `AliasOf` | `parse_feed_ids` and `id_to_alias`, dict semantics included |

A message is its kind (noise, poison, unusable, update), feed and quote.
`errors` and `heard` record the history the properties speak of.

**ScoringLoop**: `scoring_loop` with the Chainlink reader, both publishers, the
tracker and the formulas. `pc` names the await the loop is in:

| `pc` | await | leaves by |
|---|---|---|
| `reading` | GET of `AliasSeq[at]` | `ReadPrice`, `ReadRaises` |
| `scoring` | none: between the GETs and a SET | `SkipAsset`, `ScoreAsset` |
| `setting` | SET of the latest key | `SetLatest` |
| `adding` | XADD to the stream | `AddSignal` |
| `pyth` | none: choosing the next fallback price | `SkipPyth`, `SendPyth` |
| `settingPyth` | SET of the fallback price | `SetPyth` |
| `sleeping` | `wait_for(stop_event.wait(), ...)` | `Wake` |
| `done`, `down` | returned; the process is dead | `Restart` |

Each write ends ok, failed, or lost (done, the answer lost). `Crash` may carry
out the write in flight. `PythUpdates` is all the loop sees of the subscriber,
`ChainlinkWrites` all it sees of the Chainlink service. Time is kept as
distances (`elapsed`, `ttl`, `since`, `flight`), so the state space is finite
without a clock bound. `cycle` and `past` record history.

Simplifications of the scoring loop, all of them permissive or stated: the Pyth loop visits
aliases in any order; `scoring` and `pyth` are separate steps although the code
does not yield there, so the environment may act there too; the clock is never
set back; the fallback key does not expire; the stream keeps its last entry. A
tick is a second and intervals are whole: of those `int()` drops nothing in the
expiry `max(5, int(...))`; a fractional interval is not modelled. A
Chainlink price that is a nan or infinite stands as `NoPrice`: the divergence
score is 0 for either (`max(0.0, nan)` is 0.0).

**HypeDivergence**: `compute_hype_divergence` and `VelocityHistory.append`. A
reading is a price and an age (a time stamp counted back from now, `NoTime`
for 0), or `NoPrice`. Gaps are whole basis points, rounded down. `float()` of a
text may be a nan or infinite, and the readers drop only prices that are not
positive (`hyperliquid_reader.py:94`) or nothing (`chainlink_reader.py:43`), so prices,
gaps and distances are integers, `Infinite` or `NotANumber` with the order of
floats: a nan compares with nothing (`Above`), the gap of a pair with an
infinite price is a nan, and Python's `max` keeps a nan it starts with and
passes over a later one (`MaxGap`, `Furthest`). Of the velocity the sign is
kept, whether it is a nan, and whether there is one.

**HypeLoop**: `hype_divergence_loop`, `_publish_hype_divergence` and the readers.

| `pc` | await | leaves by |
|---|---|---|
| `gathering` | `asyncio.gather` of the three reads | `GatherReturns` |
| `setting` | SET of the latest key | `SetLatest` |
| `adding` | XADD to the stream | `AddEntry` |
| `sleeping` | `wait_for(stop_event.wait(), ...)` | `Wake` |
| `done`, `down` | returned; the process is dead | `Restart` |

`gather` is one await: it hands over results of reads that ended at any time
since the cycle began (`Gathered`), so a time stamp may be as old as the cycle.
`GatherReturns` does all the code does without a pause from there: exceptions
to None, the signal, the history, the start of the SET. Of a signal in Redis
only its age in cycles is kept (0 is the running cycle's), up to `MaxLag`.
`recent` records the entries of the last `WindowN` cycles of this process,
newest first, for `HistoryFaithful`.

**Lifecycle**: `main`, `redis_client.py`, the health requests, and the
container. uvicorn is external: `server` and `shouldExit` are modelled from
what main relies on, its signal handlers included, which it installs with
serve()'s first step; that a second SIGINT makes it drop its requests
(`force_exit`) is left out. A cycle's Redis commands are one step, `CycleEnds`.
`mute` is the set of servers that hold their connections and say nothing: a
Redis that accepts commands and does not answer, as the client has no timeout,
and a Hermes that is live and silent, as in PythSubscriber.
`told` records where the process was when it was told to stop. PID 1 ignores
a SIGTERM it has no handler for, hence `stop' = (proc # "booting")`.

## 3. Runs

Every property of a passing run has a mutant: a plausible bug, next to the
definition it changes ("Mutated form"), under which TLC finds the property violated.

| run | cfg | shows |
|---|---|---|
| `confidence_tracker` | ConfidenceTracker | `WindowHoldsLastN`, `ScoreNeedsBaseline`, `FrozenFeedFallsSilent`, `WiderNeverScoresLess` |
| `pyth_subscriber` | PythSubscriber | `RetryPacing`, `SnapshotMirrorsFeed`; `ImplementsTask`, `Reconnects` under fairness |
| `oracle_feeds` | OracleFeeds | `WiderGapNeverScoresLess`, `SidesAgree`, `SignalFloor`, `LaggingFeedSilent` |
| `publisher_quotes` | PublisherQuotes | `LoneOutlierIgnored`, `LoneOutlierNamed`, `RisingTopNeverScoresLess` |
| `scoring_loop` | ScoringLoop | what is published: `ScoreHasEvidence`, `AllOrNothing`, `SignalsOnRecord` |
| `scoring_loop_timed` | ScoringLoopTimed | when: `LatestOutlivesFailures`, `PythThrottle`; `ImplementsTask`, `ScoresKeepComing`, `FallbackCatchesUp` under fairness |
| `hype_loop` | HypeLoop | `LeaderInWidestPair`, `HistoryFaithful`, `StreamFollowsLatest`, `LatestOutlivesOutages`; `ImplementsTask`, `SignalsKeepComing` under fairness |
| `lifecycle` | Lifecycle | `ClosedLast`, `EndsOnlyIfHeard`; `ShutdownCompletes` under fairness; no deadlock |

Four runs expect a violation, where the code and its own documentation differ:

- `pyth_subscriber_clean_close`: after a clean close the subscriber reconnects
  at once; the docstring promises a backoff on disconnect.
- `scoring_loop_malformed`: a Chainlink key holding JSON that is not an object
  stops the scores of all assets - of two, the one whose key is fine is never
  scored; the docstrings promise None, and "only those that succeed".
- `oracle_feeds_stale`: two feeds that are equally stale still score; the
  README promises 0 for a stale feed.
- `publisher_quotes_few`: with three or four publishers a single outlier
  scores; the docstring calls the measure robust to one.

### Bounds

- *ConfidenceTracker*: one asset (assets share nothing), the real
  `MinSamples` = 5, a window of 6: full and not full, both parities of the
  median, one push beyond. Bands 0, 1, 3, 7 reach every branch of the ramp.
  `TotalCap` is beyond the last reading that changes a property.
- *PythSubscriber*: five configured pairs: a repeated alias, a shared id, a
  missing id; a foreign id; two quotes. The delays are the code's own, so all
  seven occur; `MaxErrors` = 7 is where the delay has reached its cap.
- *OracleFeeds*: prices at and around 5, 8 and 100 bps, and one of 0; ages up to
  `MaxAge` = 5 ticks of 10 s, two beyond `MaxAgeDiff`.
- *PublisherQuotes*: up to five publishers, the first count at which the upper
  quartile is not the maximum; six prices, one of them not positive.
- *ScoringLoop* is checked in three instances. What is published: two assets, no
  time (`Interval` = `MaxCycle` = 0), quotes that do and do not diverge and widen,
  a window and warm-up of 1, since the tracker has its own run; the
  threshold of 500 is reached exactly, so the border case occurs. When it
  is published: one scored and one Pyth-only asset, intervals of one tick, an
  expiry of 5 ticks, a throttle of 2, the stop signal (`MayStop`). The Pyth-only
  asset has two quotes, so that its quote changes while the throttle is closed
  and the key has to catch up; with one quote the key would be right for ever
  after its first write. Any read may raise there, but no key is poisoned (that would triple
  the states, and a poisoned read raises as a failed one does). The malformed
  key: two scored assets, of which one may be poisoned. `MaxCycle` bounds the ticks the awaits of a cycle take together: the
  client has no timeout, so this is an assumption on Redis. `MaxMisses` = 4 is
  one more than the expiry absorbs there.
- *HypeLoop*: Streams' price is stale by two ticks (`MaxStale`); RedStone's word is positive or, with its top bit set, negative
  (`WordBits` = 8 stands for 256); Hyperliquid's mid is close to RedStone's, a nan or
  infinite. Together with None and exceptions this gives zero to three
  sources, each of them giving the cycle its time, and times that run backwards.
  Streams leads the three finite prices, RedStone and Hyperliquid lead as one of two,
  and an infinite price leads beside a gap that is a nan and beside one that is
  not. A nan or infinite price of Streams, a price of Streams without a time and
  a clock that is ahead (`MaxAhead`) are left to the proofs, which cover them. A history of two: empty,
  filling, full, sliding. An expiry of 4 ticks bridges `Absorbed` = 1 failed write with an
  interval and a `MaxCycle` of 1; `MaxLag` = 2 tells apart this signal, the last
  and older ones.
- *Lifecycle*: two health requests at a time (`MaxRequests`), so that one can
  end while another waits; everything else is finite by itself.

### Fairness

- Subscriber: an attempt to connect returns (the library's `open_timeout`), a
  wait times out, and a connection delivers or closes while Hermes is not mute:
  weak fairness. The keepalive pings (`ping_interval`) close a dead connection;
  a live server answers them, so they do not end a silent one. Some of
  infinitely many attempts to connect succeed: strong fairness, an assumption on Hermes and
  the network. That the task returns after a stop (`ImplementsTask`) needs only
  the weak part and has the premise that Hermes is not mute for ever.
- Loop: awaits end, time passes, Docker restarts: weak fairness. A Redis
  call tried again and again succeeds at some time, for each asset: strong
  fairness. Progress is claimed only if poisoned keys go away in the end
  (`PoisonGoes`): while one stays, every cycle raises, which the malformed run
  shows. `ImplementsTask` needs only the weak part.
- HYPE loop: every step of the loop moves `pc`, so its weak fairness is that of
  `Advances`, a step that takes it to another place than `down`; the HTTP reads
  have timeouts of 5 s. That one of many SETs succeeds is strong fairness.
  `SignalsKeepComing` is claimed once crashes have ended.
- Lifecycle: what is ready runs, an awaited answer arrives unless Redis is
  mute, and the subscriber comes to its stop check unless Hermes is: weak
  fairness. `Die` has none: a shutdown must not count on being killed.
  `ShutdownCompletes` has the premise that neither is mute for ever, which the
  code does nothing to ensure: with either half left out of the premise the
  property fails.

`CHECK_DEADLOCK FALSE` in the loops' runs: `done` is the end of the process.

## 4. Proofs

Every safety property of a passing run, invariant or action property, is proved
for every value of the constants, every type invariant included, and so is the
safety half of each `ImplementsTask`. The only assumptions are those the modules name:
the ranges of settings (`WindowAssumption`, `MinSamplesAssumption`,
`BpsAssumption`, `LoopAssumption`, ...), and what the environment may deliver.
Of the latter, `FeedAssumption`, `PublisherAssumption`, `ValueAssumption` and
`PriceAssumption` say that prices, bands and times are integers - those of the
HYPE loop may be a nan or infinite too - that a count is finite, and that the
markers for None, nan and the like are not integers. TLC evaluates all of them.

**StatisticsProofs.** For a sample of any finite size: order statistics exist
and are unique (`RankTaken`, `RankUnique`), rise with their rank
(`OrderStatisticsRise`) and with the readings (`OrderStatisticsFollow`); half
of the readings being equal puts that reading in the median (`CommonReading`);
one odd reading among equal ones shows at the two ends only
(`OddOneAtTheEnds`); moving the highest up changes no lower rank
(`RisingTopStaysOnTop`). Most of them compare the number of readings below a
value. `SumButOne` is about sums: the fold of the community modules is a
recursive function chosen by its equation, so it is first shown to exist, on
sets of n indices for every n (`SumsExist`), and then evaluated. Both are inductions; the
library's induction theorems take a predicate, which the provers cannot
instantiate, so each is an argument about the least count for which the claim
fails (`LeastCount`). Last, the arithmetic of whole division: it rises with the
fraction (`WholePartsRise`), and what a number of periods amounts to (`WholeTimes`).

**ConfidenceTrackerProofs.** `WindowBounded`, `NoScoreBeforeBaseline`,
`TrackerTypes`. The length of a pushed window is a lemma; the window's length,
as a function of the number of readings, is then inductive with the types, and
the warm-up condition follows from the length before the reading.
`RampHasNoDrop` compares the branches of the ramp pairwise, by multiplying out.
`FrozenFeedIsSilent` adds `Tails`: the last `frozen` entries of the window are
the band that repeats. Once they are half of it, `CommonReading` gives a median
the band does not exceed.

**OracleFeedsProofs.** `FeedTypes`, `WiderGaps`, `NoPrivilegedSide`,
`SignificantOrNothing`, `StoppedFeedSilenced`, from the invariant `Feeds` (the
types, and times that are not ahead). The core of `WiderGaps` is that the gap
outgrows the mid price as one price moves away (`GapOutgrowsMid`), so neither
the overlap nor the threshold can come back, and the slope rises.

**PublisherQuotesProofs.** `QuoteTypes`, `RobustToOneOutlier`,
`OneOutlierIsNamed`, `RisingTopRaisesTheScore`, for any number of publishers. From
five on, both quartiles and the median are among the ranks 2 to n - 1, where a lone
outlier does not show. It makes up the whole deviation: with n quotes and a
distance d, n - 1 times n d^2 in the scale of the module, so 4 d^2 exceeds four variances
exactly when n > 4 (`SquaresOfOne`, `BeyondTwoDeviations`).

**PythSubscriberProofs.** `TypeCorrect`, `PacedRetries`,
`SnapshotFollowsFeeds`. `RetryPacing` is not inductive alone: the step out of a
wait doubles the delay, and that this is the next one of the list needs
`errors` to be at least 1 in a wait and in range everywhere; the invariant
adds both. `SnapshotMirrorsFeed` needs that `AliasOf` chooses the
one claimant with the last position: aliases are told apart by their
positions, a lemma about the configuration. `SubscriberIsTask` holds for a
configuration with at least one feed, without which main does not start the
subscriber.

**ScoringLoopProofs.**

- `CyclesAreAllOrNothing`. The invariant `Progress` says how far a cycle has
  come at each await: the assets before the position are served, an asset due
  at the beginning still has its snapshot (so `SkipAsset` skips none that is
  due), and an exception can only come while nothing has been sent.
- `SignalsAreOnRecord`. `AllOrNothing`'s invariant is not needed; `Recorded`
  adds what holds between the SET and the XADD, where the two keys disagree:
  the latest key holds the signal in transit, or has expired under it, unless
  the SET went wrong.
- `LatestOutlives`, under the condition `AbsorbedMisses < MaxMisses` (the bound
  of the counter must not hide a miss). The invariant weighs the expiry left
  against the cycles begun since the last write: `ttl` plus one period for each
  of them plus the time of the running cycle is at least the whole expiry.
- `ThrottleFollowsWrites`, an action property. `Clocks` says
  that the throttle's clock `since` runs with the history variable `acked`,
  through crashes and writes that take time, and bounds the time of a cycle and
  of the write in flight.
- `ScoresHaveEvidence`. `Keys` says that a price of the dict is one its key held
  in this cycle, `Places` what `at`, `left` and `out` are at each await, and
  `Evidence` that a window holds no more readings than this process made. The
  ranges of the three components come from the modules above.
- `LoopTypes`. `Stored` adds the types of what Redis holds to all of these.
- `ScoringLoopIsTask`: every step is a step of Task or a stutter.

**HypeLoopProofs.**

- `LeaderOfTheGap`. For finite prices: of two pairs of prices one around the
  other the outer is further apart, relative to its middle as well
  (`OuterPairIsWider`), so the widest gap is that of the lowest and the highest
  price (`MaxGapIsOfTheEnds`). The leader is one of the ends
  (`LeaderIsAtAnEnd`): the median lies between the others (`MedianIsBetween`), so no
  price between the ends is further from it than both. With an infinite price
  the leader is a source whose price is infinite (`InfinitePriceLeads`), and
  the gap is a nan or that of the finite prices (`GapBesideInfinite`).
  `GatheredPrices` says what prices any mix of answers gives, `Signals` carries it
  to the writes.
- `HistoryIsFaithful`. The entries are those of `recent`, in the other order,
  and their ages are as ordered as the skew of the clocks allows. `Chronicle`
  adds what is inductive: the length never passes the number of cycles counted;
  no entry's age is below `-MaxAhead` and ages only grow, so a new entry, whose
  age `CycleAgeBounded` bounds for every mix of readings, cannot precede an old one
  by more than the skew. `AppendedIsSuffix` says which entry the slice puts at
  each place, for a width of 0 too.
- `StreamBehindLatest`. `Paired` adds that between the two writes the latest
  key holds the running cycle's signal, or has expired.
- `LatestOutlives`: the argument of the scoring loop's theorem, without
  failing reads, since none of them costs a cycle.
- `HypeTypes`, from `Signals` and `Counters`.
- `HypeLoopIsTask`.

**LifecycleProofs.** `RedisClosedLast` and `OnlyAHeardSignalEnds`, from one invariant: tasks run only while the process is `running`, gather is over only
when all are, and the server leaves only when asked to exit, which
before the end of gather only uvicorn's own handler does.

Two definitions were rewritten to be reasoned about, without a change of what
they say: the ramps are IF chains, as in the code, since the provers cannot
take the next arm of a CASE from the failure of the former, and samples are
functions instead of sequences.

With TLC only: liveness under fairness, which is out of the prover's reach -
`Reconnects`, `ScoresKeepComing`, `FallbackCatchesUp`,
`SignalsKeepComing`, `ShutdownCompletes` and the liveness half of `ImplementsTask` -
and the four violations, which are counterexamples of their instances.

## 5. Not modelled, and what is left

- The fallback key of the Pyth publisher expires after 60 s, and its throttle
  compares wall-clock times: with a clock that can be set back ScoringLoop
  would need a clock instead of distances. It is the one publisher that is
  modelled in part.
- What `/health` answers. It is a function of the snapshot (any alias that ever
  had a price) and of the PING; Lifecycle keeps the request, which delays the
  shutdown, and leaves out the answer.
- The return of main when no feed is configured: nothing has been started.
- How fast the gap changes (the velocity's size), and whether an outage, which
  is recorded as a gap of 0, should count as a move: the repository says
  nothing about it.
- `settings.py` (declarations), logging, the Prometheus text, the parsing of
  decimal strings and of HTTP responses beyond what they return, and the
  trimming of Redis streams, which Redis does.

Next would be the refinement of ScoringLoop's tracker to ConfidenceTracker.
