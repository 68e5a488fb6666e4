--------------------------- MODULE HypeLoopProofs ---------------------------
(***************************************************************************)
(* Theorems about the HYPE loop, for every set of readings, width of the   *)
(* history, interval, expiry and bound on the length of a cycle.           *)
(***************************************************************************)
EXTENDS HypeLoop, StatisticsProofs, SequenceTheorems

(* The HYPE loop is the task main gathers.                                 *)
THEOREM HypeLoopIsTask == Spec => AbstractTask!Spec
<1>1. Init => AbstractTask!Init
  BY DEF Init, AbstractTask!Init
<1>2. [Next]_vars => [AbstractTask!Next]_AbstractTask!vars
  <2> SUFFICES ASSUME [Next]_vars PROVE [AbstractTask!Next]_AbstractTask!vars
    OBVIOUS
  <2> USE DEF AbstractTask!Next, AbstractTask!Signal, AbstractTask!Return, AbstractTask!vars
  <2>1. ASSUME pc # "done", pc' # "done", UNCHANGED stop
        PROVE  [AbstractTask!Next]_AbstractTask!vars
    BY <2>1
  <2>2. ASSUME UNCHANGED <<pc, stop>> PROVE [AbstractTask!Next]_AbstractTask!vars
    BY <2>2
  <2>3. ASSUME NEW results, GatherReturns(results)
        PROVE  [AbstractTask!Next]_AbstractTask!vars
    BY <2>1, <2>3 DEF GatherReturns
  <2>4. ASSUME NEW outcome \in Outcomes, SetLatest(outcome) \/ AddEntry(outcome)
        PROVE  [AbstractTask!Next]_AbstractTask!vars
    BY <2>1, <2>4 DEF SetLatest, AddEntry
  <2>5. CASE Wake
    BY <2>5 DEF Wake
  <2>6. CASE SetStop
    BY <2>6 DEF SetStop
  <2>7. ASSUME NEW executed \in BOOLEAN, Crash(executed)
        PROVE  [AbstractTask!Next]_AbstractTask!vars
    BY <2>1, <2>7 DEF Crash
  <2>8. CASE Restart
    BY <2>1, <2>8 DEF Restart
  <2>9. CASE Tick
    BY <2>2, <2>9 DEF Tick
  <2>10. CASE UNCHANGED vars
    BY <2>2, <2>10 DEF vars
  <2> QED
    BY <2>3, <2>4, <2>5, <2>6, <2>7, <2>8, <2>9, <2>10 DEF Next, LoopStep
<1> QED BY <1>1, <1>2, PTL DEF Spec, AbstractTask!Spec

-----------------------------------------------------------------------------
(* Between the SET and the XADD the latest key holds the running cycle's   *)
(* signal, unless it has expired.                                          *)
Paired ==
  /\ latest \in Nat \cup {NoSignal} /\ stream \in Nat \cup {NoSignal} /\ torn \in BOOLEAN
  /\ pc = "adding" => latest \in {0, NoSignal}
  /\ StreamFollowsLatest

LEMMA OlderType ==
  ASSUME NEW lag \in Nat \cup {NoSignal}
  PROVE  /\ Older(lag) \in Nat \cup {NoSignal}
         /\ Older(lag) = NoSignal <=> lag = NoSignal
BY LoopAssumption DEF Older, AtMost

LEMMA OlderKeepsOrder ==
  ASSUME NEW m \in Nat, NEW n \in Nat, m <= n
  PROVE  Older(m) <= Older(n)
BY LoopAssumption DEF Older, AtMost

(* The stream never runs ahead of the latest key, and agrees with it while *)
(* no write of a pair went wrong.                                          *)
THEOREM StreamBehindLatest == Spec => []StreamFollowsLatest
<1>1. Init => Paired
  BY DEF Init, Paired, StreamFollowsLatest
<1>2. Paired /\ [Next]_vars => Paired'
  <2> SUFFICES ASSUME Paired, [Next]_vars PROVE Paired'
    OBVIOUS
  <2>0. NoSignal \notin Nat
    BY LoopAssumption
  <2>1. ASSUME UNCHANGED <<latest, stream, torn>>, pc # "adding", pc' # "adding"
        PROVE  Paired'
    BY <2>1 DEF Paired, StreamFollowsLatest
  <2>2. ASSUME NEW results, GatherReturns(results) PROVE Paired'
    <3>1. pc' = "setting" /\ pc = "gathering"
          /\ latest' = Older(latest) /\ stream' = Older(stream) /\ UNCHANGED torn
      BY <2>2 DEF GatherReturns
    <3>2. /\ latest' \in Nat \cup {NoSignal} /\ stream' \in Nat \cup {NoSignal}
          /\ latest' = NoSignal <=> latest = NoSignal
          /\ stream' = NoSignal <=> stream = NoSignal
      BY <3>1, OlderType DEF Paired
    <3>3. ASSUME latest # NoSignal, stream # NoSignal PROVE latest' <= stream'
      BY <2>0, <3>1, <3>3, OlderKeepsOrder DEF Paired, StreamFollowsLatest
    <3>4. ASSUME latest = stream PROVE latest' = stream'
      BY <3>1, <3>4
    <3> QED BY <2>0, <3>1, <3>2, <3>3, <3>4 DEF Paired, StreamFollowsLatest
  <2>3. ASSUME NEW outcome \in Outcomes, SetLatest(outcome) PROVE Paired'
    <3>1. CASE outcome = "ok"
      BY <2>0, <2>3, <3>1 DEF SetLatest, Executed, Adds, Paired, StreamFollowsLatest
    <3>2. CASE outcome = "lost"
      <4>1. latest' = 0 /\ UNCHANGED stream /\ pc' = "sleeping" /\ torn' = TRUE
        BY <2>3, <3>2 DEF SetLatest, Executed, Adds
      <4> QED BY <2>0, <4>1 DEF Paired, StreamFollowsLatest
    <3>3. CASE outcome = "failed"
      BY <2>0, <2>3, <3>3 DEF SetLatest, Executed, Adds, Paired, StreamFollowsLatest
    <3> QED BY <3>1, <3>2, <3>3 DEF Outcomes
  <2>4. ASSUME NEW outcome \in Outcomes, AddEntry(outcome) PROVE Paired'
    <3>1. CASE Executed(outcome)
      BY <2>0, <2>4, <3>1 DEF AddEntry, Paired, StreamFollowsLatest
    <3>2. CASE ~Executed(outcome)
      BY <2>0, <2>4, <3>2 DEF AddEntry, Paired, StreamFollowsLatest
    <3> QED BY <3>1, <3>2
  <2>5. CASE Wake
    BY <2>1, <2>5 DEF Wake, redis, past
  <2>6. CASE SetStop
    BY <2>6 DEF SetStop, redis, past, Paired, StreamFollowsLatest
  <2>7. ASSUME NEW executed \in BOOLEAN, Crash(executed) PROVE Paired'
    <3>1. pc' = "down"
      BY <2>7 DEF Crash
    <3>2. CASE pc = "setting"
      <4>1. /\ latest' = IF executed THEN 0 ELSE latest
            /\ stream' = stream /\ torn' = (executed \/ torn)
        BY <2>7, <3>2 DEF Crash
      <4> QED BY <2>0, <3>1, <3>2, <4>1 DEF Paired, StreamFollowsLatest
    <3>3. CASE pc = "adding"
      <4>1. /\ latest' = latest
            /\ stream' = IF executed THEN 0 ELSE stream
            /\ torn' = ~executed
        BY <2>7, <3>3 DEF Crash
      <4>2. CASE executed
        BY <2>0, <3>1, <3>3, <4>1, <4>2 DEF Paired, StreamFollowsLatest
      <4>3. CASE ~executed
        <5>1. torn' = TRUE /\ stream' = stream
          BY <4>1, <4>3
        <5> QED BY <2>0, <3>1, <3>3, <4>1, <5>1 DEF Paired, StreamFollowsLatest
      <4> QED BY <4>2, <4>3
    <3>4. CASE pc \notin {"setting", "adding"}
      BY <2>1, <2>7, <3>1, <3>4 DEF Crash
    <3> QED BY <3>2, <3>3, <3>4
  <2>8. CASE Restart
    BY <2>1, <2>8 DEF Restart, redis, past
  <2>9. CASE Tick
    <3>1. UNCHANGED <<pc, stream, torn>> /\ latest' \in {latest, NoSignal}
      BY <2>9 DEF Tick
    <3> QED BY <2>0, <3>1 DEF Paired, StreamFollowsLatest
  <2>10. CASE UNCHANGED vars
    BY <2>10 DEF vars, redis, past, Paired, StreamFollowsLatest
  <2> QED
    BY <2>2, <2>3, <2>4, <2>5, <2>6, <2>7, <2>8, <2>9, <2>10 DEF Next, LoopStep
<1>3. Paired => StreamFollowsLatest
  BY DEF Paired
<1> QED BY <1>1, <1>2, <1>3, PTL DEF Spec

-----------------------------------------------------------------------------
LEMMA HypePeriodType ==
  /\ Period \in Nat \ {0} /\ Interval <= Period /\ MaxCycle <= Period
  /\ LatestTtl \in Nat \ {0} /\ Absorbed \in Int
  /\ MaxRefused \in Nat /\ MaxRefused > Absorbed
<1>1. Period \in Nat \ {0} /\ Interval <= Period /\ MaxCycle <= Period
  BY LoopAssumption DEF Period, AtLeast
<1>2. LatestTtl \in Nat \ {0} /\ Absorbed \in Int
  BY LoopAssumption, <1>1 DEF Absorbed
<1> QED BY <1>1, <1>2 DEF MaxRefused, AtLeast

(* Cycles begun since the one that wrote the latest key *)
Begun == refused + (IF pc \in {"gathering", "setting"} THEN 1 ELSE 0)

(* What the expiry has lost since then *)
Minute == refused < MaxRefused => ttl + Begun * Period + elapsed >= LatestTtl

Spanned ==
  /\ elapsed \in Nat /\ elapsed <= Period /\ ttl \in Nat
  /\ refused \in Nat /\ refused <= MaxRefused
  /\ pc = "down" => refused = MaxRefused
  /\ pc \notin {"down", "done"} => Minute

LEMMA SpannedStep == Spanned /\ [Next]_vars => Spanned'
<1> SUFFICES ASSUME Spanned, [Next]_vars PROVE Spanned'
  OBVIOUS
<1> USE HypePeriodType
<1>1. ASSUME UNCHANGED <<ttl, elapsed, refused>>, pc # "done" \/ pc' = "done",
             pc' # "down" \/ pc = "down", pc # "down" \/ pc' = "down", Begun' = Begun
      PROVE  Spanned'
  BY <1>1 DEF Spanned, Minute
<1>2. ASSUME NEW results, GatherReturns(results) PROVE Spanned'
  BY <1>1, <1>2 DEF GatherReturns, Begun
<1>3. ASSUME NEW outcome \in Outcomes, SetLatest(outcome) PROVE Spanned'
  <2>1. pc = "setting" /\ pc' \in {"adding", "sleeping"} /\ UNCHANGED elapsed
    BY <1>3 DEF SetLatest
  <2>2. CASE Executed(outcome)
    <3>1. ttl' = LatestTtl /\ refused' = 0
      BY <1>3, <2>2 DEF SetLatest
    <3>2. Begun' = 0
      BY <2>1, <3>1 DEF Begun
    <3>3. Minute'
      BY <2>1, <3>1, <3>2 DEF Minute, Spanned
    <3> QED BY <2>1, <3>1, <3>3 DEF Spanned
  <2>3. CASE ~Executed(outcome)
    <3>1. ttl' = ttl /\ refused' = AtMost(MaxRefused, refused + 1)
      BY <1>3, <2>3 DEF SetLatest
    <3>2. refused' < MaxRefused => refused' = refused + 1 /\ Begun' = Begun /\ refused < MaxRefused
      BY <2>1, <3>1 DEF Begun, AtMost, Spanned
    <3>3. refused' \in Nat /\ refused' <= MaxRefused
      BY <3>1 DEF AtMost, Spanned
    <3>4. Minute'
      BY <2>1, <3>1, <3>2 DEF Minute, Spanned
    <3> QED BY <2>1, <3>1, <3>3, <3>4 DEF Spanned
  <2> QED BY <2>2, <2>3
<1>4. ASSUME NEW outcome \in Outcomes, AddEntry(outcome) PROVE Spanned'
  BY <1>1, <1>4 DEF AddEntry, Begun
<1>5. CASE Wake
  <2>1. pc = "sleeping" /\ UNCHANGED <<ttl, refused>>
    BY <1>5 DEF Wake, redis, past
  <2>2. CASE stop
    BY <1>5, <2>1, <2>2 DEF Wake, Spanned
  <2>3. CASE ~stop
    <3>1. pc' = "gathering" /\ elapsed' = 0
      BY <1>5, <2>3 DEF Wake
    <3>2. Begun = refused /\ Begun' = refused + 1 /\ refused \in Nat
      BY <2>1, <3>1 DEF Begun, Spanned
    <3>3. Begun' * Period = Begun * Period + Period /\ Begun * Period \in Nat
      BY <3>2, OneMore
    <3>4. Minute'
      BY <2>1, <3>1, <3>2, <3>3 DEF Minute, Spanned
    <3> QED BY <2>1, <3>1, <3>4 DEF Spanned
  <2> QED BY <2>2, <2>3
<1>6. CASE SetStop
  BY <1>1, <1>6 DEF SetStop, redis, past, Begun
<1>7. ASSUME NEW executed \in BOOLEAN, Crash(executed) PROVE Spanned'
  BY <1>7 DEF Crash, Spanned
<1>8. CASE Restart
  <2>1. pc = "down" /\ pc' = "gathering" /\ UNCHANGED <<elapsed, ttl, refused>>
    BY <1>8 DEF Restart, redis, past
  <2> QED BY <2>1 DEF Spanned, Minute
<1>9. CASE Tick
  <2>1. /\ UNCHANGED <<pc, refused>> /\ Begun' = Begun
        /\ elapsed' = IF pc \in {"down", "done"} THEN elapsed ELSE elapsed + 1
        /\ ttl' = AtLeast(0, ttl - 1)
    BY <1>9 DEF Tick, Begun
  <2>2. elapsed' \in Nat /\ elapsed' <= Period
    BY <1>9, <2>1, LoopAssumption DEF Tick, TimeMayPass, Spanned
  <2>3. ttl' \in Nat /\ ttl' + 1 >= ttl
    BY <2>1 DEF Spanned, AtLeast
  <2>4. Begun \in Nat
    BY DEF Begun, Spanned
  <2>5. Begun * Period \in Nat
    BY <2>4, OneMore
  <2>6. ASSUME pc \notin {"down", "done"} PROVE Minute'
    BY <2>1, <2>3, <2>5, <2>6 DEF Minute, Spanned
  <2> QED BY <2>1, <2>2, <2>3, <2>6 DEF Spanned
<1>10. CASE UNCHANGED vars
  BY <1>1, <1>10 DEF vars, redis, past, Begun
<1> QED
  BY <1>2, <1>3, <1>4, <1>5, <1>6, <1>7, <1>8, <1>9, <1>10 DEF Next, LoopStep

(* Whatever the sources do, the minute of the latest key bridges Absorbed  *)
(* failed writes in a row.                                                 *)
THEOREM LatestOutlives == Spec => []LatestOutlivesOutages
<1>1. Init => Spanned
  BY HypePeriodType DEF Init, Spanned, Minute
<1>2. Spanned => LatestOutlivesOutages
  <2> SUFFICES ASSUME Spanned, pc \notin {"down", "done"}, refused <= Absorbed
               PROVE  ttl > 0
    BY DEF LatestOutlivesOutages
  <2> USE HypePeriodType
  <2>1. /\ Begun \in Nat /\ Begun <= refused + 1 /\ ttl \in Nat
        /\ ttl + Begun * Period + elapsed >= LatestTtl
    BY DEF Spanned, Begun, Minute
  <2>2. Begun <= ((LatestTtl - 1) \div Period) - 1
    BY <2>1 DEF Absorbed, Spanned
  <2>3. (Begun + 1) * Period <= LatestTtl - 1
    BY <2>1, <2>2, WholeTimes
  <2>4. (Begun + 1) * Period = Begun * Period + Period /\ Begun * Period \in Nat
    BY <2>1, OneMore
  <2> QED BY <2>1, <2>3, <2>4 DEF Spanned
<1> QED BY <1>1, <1>2, SpannedStep, PTL DEF Spec

-----------------------------------------------------------------------------
(* What append keeps: a suffix of the history with the new entry, of       *)
(* WindowN entries or, for a width of 0, of all of them.                   *)
KeepsSuffix(S, h, e) ==
  /\ Appended(h, e) \in Seq(S)
  /\ Len(Appended(h, e)) = IF WindowN = 0 THEN Len(h) + 1 ELSE AtMost(WindowN, Len(h) + 1)
  /\ LET k == Len(h) + 1 - Len(Appended(h, e))
     IN  k \in Nat /\ \A i \in 1 .. Len(Appended(h, e)) :
           i + k \in 1 .. Len(h) + 1 /\ Appended(h, e)[i] = Append(h, e)[i + k]

LEMMA AppendedIsSuffix ==
  ASSUME NEW S, NEW h \in Seq(S), NEW e \in S
  PROVE  KeepsSuffix(S, h, e)
<1> DEFINE longer == Append(h, e)
           kept == Appended(h, e)
           whole == Len(h) + 1
<1>1. longer \in Seq(S) /\ Len(longer) = whole /\ whole \in Nat \ {0} /\ WindowN \in Nat
  BY HypeAssumption
<1>2. kept = IF whole > WindowN /\ WindowN # 0
             THEN SubSeq(longer, whole - WindowN + 1, whole) ELSE longer
  BY <1>1 DEF Appended, LastOf
<1> HIDE DEF longer, kept, whole
<1>3. /\ kept \in Seq(S)
      /\ Len(kept) = IF WindowN = 0 THEN whole ELSE AtMost(WindowN, whole)
      /\ whole - Len(kept) \in Nat
      /\ \A i \in 1 .. Len(kept) :
           i + (whole - Len(kept)) \in 1 .. whole /\ kept[i] = longer[i + (whole - Len(kept))]
  <2>1. CASE whole > WindowN /\ WindowN # 0
    <3> DEFINE k == whole - WindowN
    <3>1. kept = SubSeq(longer, k + 1, whole) /\ k \in Nat /\ k + 1 \in 1 .. whole
      BY <1>1, <1>2, <2>1
    <3>2. kept \in Seq(S) /\ Len(kept) = WindowN
      BY <1>1, <2>1, <3>1
    <3>3. \A i \in 1 .. Len(kept) : i + k \in 1 .. whole /\ kept[i] = longer[i + k]
      BY <1>1, <2>1, <3>1, <3>2
    <3>4. AtMost(WindowN, whole) = WindowN
      BY <1>1, <2>1 DEF AtMost
    <3>5. k = whole - Len(kept)
      BY <3>2
    <3> HIDE DEF k
    <3> QED BY <2>1, <3>1, <3>2, <3>3, <3>4, <3>5
  <2>2. CASE ~(whole > WindowN /\ WindowN # 0)
    <3>1. kept = longer
      BY <1>2, <2>2
    <3>2. /\ whole - Len(kept) = 0
          /\ \A i \in 1 .. Len(kept) : i + 0 \in 1 .. whole /\ kept[i] = longer[i + 0]
      BY <1>1, <3>1
    <3>3. WindowN # 0 => AtMost(WindowN, whole) = whole
      BY <1>1, <2>2 DEF AtMost
    <3> QED BY <1>1, <3>1, <3>2, <3>3
  <2> QED BY <2>1, <2>2
<1> QED BY <1>3 DEF KeepsSuffix, longer, kept, whole

(* First picks one of the sources it is given. *)
LEMMA FirstPicks ==
  ASSUME NEW some, some \subseteq Sources, some # {}
  PROVE  First(some) \in some
<1>1. Sources = {"streams", "redstone", "hl"}
  BY DEF Sources, Order
<1>2. \E i \in DOMAIN Order : Order[i] \in some /\ \A j \in 1 .. i - 1 : Order[j] \notin some
  <2>1. DOMAIN Order = 1 .. 3 /\ some \subseteq {Order[1], Order[2], Order[3]}
    BY <1>1 DEF Order
  <2>2. CASE Order[1] \in some
    BY <2>1, <2>2
  <2>3. CASE Order[1] \notin some /\ Order[2] \in some
    <3>1. \A j \in 1 .. 2 - 1 : j = 1
      OBVIOUS
    <3> QED BY <2>1, <2>3, <3>1
  <2>4. CASE Order[1] \notin some /\ Order[2] \notin some
    <3>1. Order[3] \in some /\ \A j \in 1 .. 3 - 1 : j = 1 \/ j = 2
      BY <2>1, <2>4
    <3> QED BY <2>1, <2>4, <3>1
  <2> QED BY <2>2, <2>3, <2>4
<1> QED BY <1>2 DEF First

LEMMA StreamsComesFirst ==
  ASSUME NEW some, "streams" \in some
  PROVE  First(some) = "streams"
<1> DEFINE IsFirst(i) == Order[i] \in some /\ \A j \in 1 .. i - 1 : Order[j] \notin some
<1>1. DOMAIN Order = 1 .. 3 /\ Order[1] = "streams"
  BY DEF Order
<1>2. 1 \in DOMAIN Order /\ IsFirst(1)
  BY <1>1
<1>3. \A i \in DOMAIN Order : IsFirst(i) => i = 1
  <2> SUFFICES ASSUME NEW i \in 1 .. 3, i # 1 PROVE ~IsFirst(i)
    BY <1>1
  <2>1. 1 \in 1 .. i - 1
    OBVIOUS
  <2> QED BY <1>1, <2>1
<1> DEFINE place == CHOOSE i \in DOMAIN Order : IsFirst(i)
<1>4. First(some) = Order[place]
  BY DEF First
<1>5. place \in DOMAIN Order /\ IsFirst(place)
  BY <1>2
<1> HIDE DEF place
<1> QED BY <1>1, <1>3, <1>4, <1>5

(* The time a cycle is recorded with *)
LEMMA CycleAgeBounded ==
  ASSUME elapsed \in Nat, elapsed <= MaxCycle, NEW a \in Gathered("streams"),
         NEW b \in Gathered("redstone"), NEW c \in Gathered("hl")
  PROVE  RecordedAge(CycleAge(Answers([streams |-> a, redstone |-> b, hl |-> c])))
           \in -MaxAhead .. MaxStale + MaxCycle
<1> DEFINE readings == Answers([streams |-> a, redstone |-> b, hl |-> c])
           Times == (-MaxAhead .. MaxStale + MaxCycle) \cup {NoTime}
           stamped == {s \in Sources : readings[s] # NoPrice /\ readings[s].age # NoTime}
<1>1. {MaxAhead, MaxStale, MaxCycle} \subseteq Nat /\ NoTime \notin Int
  BY LoopAssumption, HypeAssumption
<1>2. Sources = {"streams", "redstone", "hl"} /\ \A i \in 1 .. 3 : Order[i] \in Sources
  BY DEF Sources, Order
<1>3. ASSUME NEW r, r = [price |-> r.price, age |-> r.age],
             r.age \in (-MaxAhead .. MaxStale) \cup {NoTime}, NEW ticks \in 0 .. elapsed
      PROVE  Aged(r, ticks).age \in Times
  <2>1. CASE r.age = NoTime
    BY <2>1 DEF Aged
  <2>2. CASE r.age # NoTime
    <3>1. Aged(r, ticks) = [r EXCEPT !.age = r.age + ticks]
      BY <2>2 DEF Aged
    <3>2. Aged(r, ticks).age = r.age + ticks
      BY <1>3, <3>1
    <3> QED BY <1>1, <1>3, <2>2, <3>2
  <2> QED BY <2>1, <2>2
<1>4. a \in {NoPrice, Raised} \/ a.age \in Times
  <2>1. Results("streams") = {NoPrice, Raised} \cup StreamsReadings
    BY DEF Results
  <2> QED BY <1>3, <2>1, LoopAssumption DEF Gathered
<1>5. b \in {NoPrice, Raised} \/ b.age \in Times
  <2>1. Results("redstone") = {NoPrice, Raised} \cup {RedstoneReading(w) : w \in Words}
    BY DEF Results
  <2>2. \A w \in Words : RedstoneReading(w) # NoPrice =>
          RedstoneReading(w) = [price |-> SignedWord(w), age |-> 0]
    BY DEF RedstoneReading
  <2> QED BY <1>1, <1>3, <2>1, <2>2 DEF Gathered
<1>6. c \in {NoPrice, Raised} \/ c.age \in Times
  <2>1. Results("hl") = {NoPrice, Raised} \cup {HlReading(m) : m \in Mids}
    BY DEF Results
  <2>2. \A m \in Mids : HlReading(m) # NoPrice => HlReading(m) = [price |-> m, age |-> 0]
    BY DEF HlReading
  <2> QED BY <1>1, <1>3, <2>1, <2>2 DEF Gathered
<1>7. \A s \in Sources : readings[s] = NoPrice \/ readings[s].age \in Times
  BY <1>2, <1>4, <1>5, <1>6 DEF Answers
<1> HIDE DEF readings
<1>8. CASE stamped = {}
  <2>1. CycleAge(readings) = NoTime
    BY <1>8 DEF CycleAge
  <2> QED BY <1>1, <2>1 DEF RecordedAge, readings
<1>9. CASE stamped # {}
  <2>1. CycleAge(readings) = readings[First(stamped)].age
    BY <1>9 DEF CycleAge
  <2>2. stamped \subseteq Sources
    OBVIOUS
  <2> HIDE DEF stamped
  <2>3. First(stamped) \in stamped
    BY <1>9, <2>2, FirstPicks
  <2>4. CycleAge(readings) \in Times \ {NoTime}
    BY <1>7, <2>1, <2>3 DEF stamped
  <2> QED BY <2>4 DEF RecordedAge, readings
<1> QED BY <1>8, <1>9

Entries(gaps) == [age : Int, gap : gaps]

(* What HistoryFaithful rests on: the ages of the entries only grow, and   *)
(* the history is never longer than the cycles that were counted.          *)
Chronicle ==
  /\ elapsed \in Nat
  /\ pc = "down" => elapsed = 0
  /\ pc = "gathering" => elapsed <= MaxCycle
  /\ \E gaps : history \in Seq(Entries(gaps))
  /\ \A i \in DOMAIN history : history[i].age >= -MaxAhead
  /\ appended \in Nat
  /\ Len(history) <= appended \/ appended >= 3
  /\ HistoryFaithful

LEMMA AppendsToChronicle ==
  ASSUME Chronicle, NEW results, GatherReturns(results),
         RecordedAge(CycleAge(Answers(results))) \in -MaxAhead .. MaxStale + MaxCycle
  PROVE  Chronicle'
<1> DEFINE now == RecordedAge(CycleAge(Answers(results)))
           entry == [age |-> now, gap |-> out'.gap]
<1>1. /\ pc = "gathering" /\ pc' = "setting" /\ UNCHANGED elapsed
      /\ out' = Signal(Answers(results), history)
      /\ history' = Appended(history, entry)
      /\ appended' = AtMost(MaxAppended, appended + 1)
      /\ recent' = Recorded(entry)
  BY DEF GatherReturns
<1>2. now \in -MaxAhead .. MaxStale + MaxCycle
  OBVIOUS
<1> HIDE DEF now
<1>3. {MaxAhead, MaxStale, MaxCycle, WindowN} \subseteq Nat /\ now \in Int
  BY <1>2, LoopAssumption, HypeAssumption
<1>4. MaxAppended \in Nat /\ MaxAppended >= 3 /\ MaxAppended >= WindowN + 1
  BY <1>3 DEF MaxAppended, AtLeast
<1>5. appended' \in Nat /\ (appended' = appended + 1 \/ (appended' = MaxAppended /\ appended + 1 >= MaxAppended))
  BY <1>1, <1>4 DEF AtMost, Chronicle
<1>6. PICK gaps : history \in Seq(Entries(gaps))
  BY DEF Chronicle
<1> DEFINE more == gaps \cup {out'.gap}
<1>7. history \in Seq(Entries(more)) /\ entry \in Entries(more) /\ entry.age = now
  <2>1. Entries(gaps) \subseteq Entries(more) /\ entry \in Entries(more)
    BY <1>3 DEF Entries
  <2> HIDE DEF more
  <2> QED BY <1>6, <2>1, SeqMonotonic
<1> HIDE DEF entry, more
<1>8. KeepsSuffix(Entries(more), history, entry)
  BY <1>7, AppendedIsSuffix
<1>8a. /\ Len(history') = IF WindowN = 0 THEN Len(history) + 1 ELSE AtMost(WindowN, Len(history) + 1)
       /\ history' \in Seq(Entries(more))
  BY <1>1, <1>8 DEF KeepsSuffix
<1> DEFINE k == Len(history) + 1 - Len(history')
<1>9. k \in Nat /\ \A i \in 1 .. Len(history') :
        i + k \in 1 .. Len(history) + 1 /\ history'[i] = Append(history, entry)[i + k]
  BY <1>1, <1>8 DEF KeepsSuffix
<1>9a. k + Len(history') = Len(history) + 1
  BY <1>7, <1>8a
<1>10. /\ Len(history) \in Nat /\ Len(history') \in Nat
       /\ DOMAIN history = 1 .. Len(history) /\ DOMAIN history' = 1 .. Len(history')
  BY <1>7, <1>8a
<1>11. \A n \in 1 .. Len(history) + 1 :
         Append(history, entry)[n] = IF n = Len(history) + 1 THEN entry ELSE history[n]
  BY <1>7, <1>10
<1> DEFINE at(n) == IF n = Len(history) + 1 THEN now ELSE history[n].age
<1> HIDE DEF k
<1>12. \A i \in DOMAIN history' : i + k \in 1 .. Len(history) + 1 /\ history'[i].age = at(i + k)
  BY <1>7, <1>9, <1>10, <1>11
<1>12a. ASSUME WindowN > 0, NEW i \in DOMAIN history'
        PROVE  history'[i] = recent'[Len(history') + 1 - i]
  <2> DEFINE n == Len(history') + 1 - i
  <2>0. Len(history') <= WindowN
    <3>1. Len(history') = AtMost(WindowN, Len(history) + 1)
      BY <1>3, <1>8a, <1>12a
    <3> QED BY <1>3, <1>10, <3>1 DEF AtMost
  <2>1. /\ n \in 1 .. WindowN /\ n = Len(history) + 2 - (i + k)
        /\ n = 1 <=> i + k = Len(history) + 1
    <3>1. i \in 1 .. Len(history') /\ k \in Nat /\ WindowN \in Nat
      BY <1>3, <1>9, <1>10
    <3>2. ASSUME NEW long \in Nat, NEW longer \in Nat, NEW drop \in Nat, NEW width \in Nat,
                 NEW p \in 1 .. longer, drop + longer = long + 1, longer <= width
          PROVE  /\ longer + 1 - p \in 1 .. width /\ longer + 1 - p = long + 2 - (p + drop)
                 /\ longer + 1 - p = 1 <=> p + drop = long + 1
      BY <3>2
    <3> QED BY <1>9a, <1>10, <2>0, <3>1, <3>2
  <2>2. recent'[n] = IF n = 1 THEN entry ELSE recent[n - 1]
    BY <1>1, <2>1 DEF Recorded
  <2>3. i + k \in 1 .. Len(history) + 1 /\ history'[i] = Append(history, entry)[i + k]
    BY <1>9, <1>10
  <2>4. CASE n = 1
    <3>1. i + k = Len(history) + 1
      BY <2>1, <2>4
    <3> HIDE DEF n, k
    <3> QED BY <1>11, <2>2, <2>3, <2>4, <3>1 DEF n
  <2>5. CASE n # 1
    <3>1. i + k \in 1 .. Len(history) /\ n - 1 = Len(history) + 1 - (i + k)
      BY <1>9, <1>9a, <1>10, <2>1, <2>3, <2>5
    <3> DEFINE m == i + k
    <3> HIDE DEF m, n, k
    <3>2. history[m] = recent[Len(history) + 1 - m]
      BY <1>10, <1>12a, <3>1 DEF Chronicle, HistoryFaithful, m
    <3>3. history'[i] = history[m]
      BY <1>10, <1>11, <2>3, <3>1 DEF m
    <3> QED BY <2>2, <2>5, <3>1, <3>2, <3>3 DEF m, n
  <2> QED BY <2>4, <2>5
<1>13. \A n \in 1 .. Len(history) : history[n].age \in Int /\ history[n].age >= -MaxAhead
  <2>1. \A n \in 1 .. Len(history) : history[n] \in Entries(more)
    BY <1>7, <1>10
  <2> QED BY <1>10, <2>1 DEF Entries, Chronicle
<1>14. \A m, n \in 1 .. Len(history) + 1 :
         at(n) >= -MaxAhead /\ (m <= n => at(n) <= at(m) + MaxSkew)
  <2> SUFFICES ASSUME NEW m \in 1 .. Len(history) + 1, NEW n \in 1 .. Len(history) + 1
               PROVE  at(n) >= -MaxAhead /\ (m <= n => at(n) <= at(m) + MaxSkew)
    OBVIOUS
  <2>1. MaxSkew = MaxAhead + MaxStale + MaxCycle /\ MaxSkew \in Nat
    BY <1>3 DEF MaxSkew
  <2>2. CASE n = Len(history) + 1
    <3>1. at(n) = now
      BY <2>2
    <3>2. at(m) >= -MaxAhead /\ at(m) \in Int
      <4>1. CASE m = Len(history) + 1
        BY <1>2, <1>3, <4>1
      <4>2. CASE m # Len(history) + 1
        <5>1. m \in 1 .. Len(history) /\ at(m) = history[m].age
          BY <1>10, <4>2
        <5> QED BY <1>13, <5>1
      <4> QED BY <4>1, <4>2
    <3> HIDE DEF at
    <3> QED BY <1>2, <1>3, <2>1, <3>1, <3>2
  <2>3. CASE n # Len(history) + 1
    <3>1. n \in 1 .. Len(history) /\ at(n) = history[n].age
      BY <1>10, <2>3
    <3>2. ASSUME m <= n PROVE m \in 1 .. Len(history) /\ at(m) = history[m].age
      BY <1>10, <3>1, <3>2
    <3>3. ASSUME m <= n PROVE history[n].age <= history[m].age + MaxSkew
      BY <1>10, <3>1, <3>2, <3>3 DEF Chronicle, HistoryFaithful
    <3> QED BY <1>13, <3>1, <3>2, <3>3
  <2> QED BY <2>2, <2>3
<1> HIDE DEF at
<1>15. \A i \in DOMAIN history' : history'[i].age >= -MaxAhead
  BY <1>12, <1>14
<1>16. \A i, j \in DOMAIN history' : i <= j => history'[j].age <= history'[i].age + MaxSkew
  <2> SUFFICES ASSUME NEW i \in DOMAIN history', NEW j \in DOMAIN history', i <= j
               PROVE  history'[j].age <= history'[i].age + MaxSkew
    OBVIOUS
  <2>1. i + k <= j + k
    BY <1>9, <1>10
  <2> QED BY <1>12, <1>14, <2>1
<1>17. Len(history') <= appended' \/ appended' >= 3
  BY <1>3, <1>4, <1>5, <1>8a, <1>10 DEF Chronicle, AtMost
<1>18. ASSUME WindowN > 0 PROVE Len(history') = AtMost(WindowN, appended')
  <2>1. Len(history) = AtMost(WindowN, appended) /\ appended \in Nat
    BY <1>18 DEF Chronicle, HistoryFaithful
  <2>2. Len(history') = AtMost(WindowN, Len(history) + 1)
    BY <1>8a, <1>18
  <2> QED BY <1>3, <1>4, <1>5, <2>1, <2>2 DEF AtMost
<1>19. out'.velocity # NoVelocity => appended' >= 3
  <2>1. out'.velocity = Velocity(history)
    BY <1>1 DEF Signal
  <2>2. out'.velocity # NoVelocity => Len(history) >= 2
    BY <1>10, <2>1 DEF Velocity
  <2> QED BY <1>4, <1>5, <1>10, <2>2 DEF Chronicle
<1>20. MaxSkew' = MaxSkew
  BY DEF MaxSkew
<1>21. HistoryFaithful'
  BY <1>12a, <1>16, <1>18, <1>19, <1>20 DEF HistoryFaithful
<1>22. \E g : history' \in Seq(Entries(g))
  BY <1>8a
<1>23. elapsed' \in Nat /\ pc' # "down" /\ pc' # "gathering"
  BY <1>1 DEF Chronicle
<1> QED BY <1>5, <1>15, <1>17, <1>21, <1>22, <1>23 DEF Chronicle

(* A tick ages every entry by one. *)
LEMMA EntryAges ==
  ASSUME NEW gaps, NEW r \in Entries(gaps)
  PROVE  Aged(r, 1) \in Entries(gaps) /\ Aged(r, 1).age = r.age + 1 /\ r.age \in Int
<1>1. r \in [age : Int, gap : gaps]
  BY DEF Entries
<1>2. r.age # NoTime
  BY <1>1, HypeAssumption
<1>3. Aged(r, 1) = [r EXCEPT !.age = r.age + 1]
  BY <1>2 DEF Aged
<1> QED BY <1>1, <1>3 DEF Entries

LEMMA EntriesAge ==
  ASSUME NEW gaps, history \in Seq(Entries(gaps)),
         history' = [i \in DOMAIN history |-> Aged(history[i], 1)]
  PROVE  /\ history' \in Seq(Entries(gaps)) /\ Len(history') = Len(history)
         /\ DOMAIN history' = DOMAIN history
         /\ \A i \in DOMAIN history : /\ history[i].age \in Int
                                     /\ history'[i].age = history[i].age + 1
<1>1. \A i \in DOMAIN history : /\ history[i].age \in Int
                                /\ history'[i] \in Entries(gaps)
                                /\ history'[i].age = history[i].age + 1
  <2> SUFFICES ASSUME NEW i \in DOMAIN history
               PROVE  /\ history[i].age \in Int
                      /\ history'[i] \in Entries(gaps)
                      /\ history'[i].age = history[i].age + 1
    OBVIOUS
  <2>1. history[i] \in Entries(gaps) /\ history'[i] = Aged(history[i], 1)
    OBVIOUS
  <2> QED BY <2>1, EntryAges
<1>2. /\ DOMAIN history = 1 .. Len(history) /\ Len(history) \in Nat
      /\ DOMAIN history' = 1 .. Len(history)
  OBVIOUS
<1>3. history' \in Seq(Entries(gaps)) /\ Len(history') = Len(history)
  <2>1. history' = [i \in 1 .. Len(history) |-> history'[i]]
    BY <1>2
  <2>2. \A i \in 1 .. Len(history) : history'[i] \in Entries(gaps)
    BY <1>1, <1>2
  <2> QED BY <1>2, <2>1, <2>2
<1> QED BY <1>1, <1>2, <1>3

LEMMA AgesChronicle == Chronicle /\ Tick => Chronicle'
<1> SUFFICES ASSUME Chronicle, Tick PROVE Chronicle'
  OBVIOUS
<1>1. /\ history' = [i \in DOMAIN history |-> Aged(history[i], 1)]
      /\ elapsed' = IF pc \in {"down", "done"} THEN elapsed ELSE elapsed + 1
      /\ UNCHANGED <<pc, out, appended>>
  BY DEF Tick
<1>2. PICK gaps : history \in Seq(Entries(gaps))
  BY DEF Chronicle
<1>3. \A i \in DOMAIN history : history[i].age \in Int /\ history'[i].age = history[i].age + 1
  BY <1>1, <1>2, EntriesAge
<1>4. DOMAIN history = 1 .. Len(history) /\ DOMAIN history' = 1 .. Len(history)
  BY <1>1, <1>2, EntriesAge
<1>5. history' \in Seq(Entries(gaps)) /\ Len(history') = Len(history)
  BY <1>1, <1>2, EntriesAge
<1>6. {MaxAhead, MaxStale, MaxCycle} \subseteq Nat
  BY LoopAssumption
<1>7. \A i \in DOMAIN history' : history'[i].age >= -MaxAhead
  BY <1>3, <1>4, <1>6 DEF Chronicle
<1>8. \A i, j \in DOMAIN history' : i <= j => history'[j].age <= history'[i].age + MaxSkew
  <2> SUFFICES ASSUME NEW i \in DOMAIN history, NEW j \in DOMAIN history, i <= j
               PROVE  history'[j].age <= history'[i].age + MaxSkew
    BY <1>4
  <2>1. history[j].age <= history[i].age + MaxSkew
    BY DEF Chronicle, HistoryFaithful
  <2> QED BY <1>3, <1>6, <2>1 DEF MaxSkew
<1>8a. ASSUME WindowN > 0, NEW i \in DOMAIN history
       PROVE  history'[i] = recent'[Len(history) + 1 - i]
  <2> DEFINE n == Len(history) + 1 - i
  <2>1. n \in 1 .. WindowN /\ n <= appended /\ history[i] = recent[n]
    <3>1. /\ Len(history) = AtMost(WindowN, appended) /\ history[i] = recent[n] /\ appended \in Nat
      BY <1>8a DEF Chronicle, HistoryFaithful
    <3>2. Len(history) <= WindowN /\ Len(history) <= appended
      BY <3>1, HypeAssumption DEF AtMost
    <3>3. i \in 1 .. Len(history) /\ Len(history) \in Nat
      BY <1>2, <1>4
    <3> QED BY <3>1, <3>2, <3>3, HypeAssumption
  <2>2. recent'[n] = Aged(recent[n], 1)
    BY <2>1 DEF Tick
  <2>3. history'[i] = Aged(history[i], 1)
    BY <1>1
  <2> QED BY <2>1, <2>2, <2>3
<1>9. HistoryFaithful'
  <2>1. WindowN > 0 => Len(history) = AtMost(WindowN, appended)
    BY DEF Chronicle, HistoryFaithful
  <2>2. UNCHANGED <<out, appended>>
    BY <1>1
  <2>3. out # NoSignal /\ out.velocity # NoVelocity => appended >= 3
    BY DEF Chronicle, HistoryFaithful
  <2> QED BY <1>4, <1>5, <1>8, <1>8a, <2>1, <2>2, <2>3 DEF HistoryFaithful, MaxSkew
<1>10. elapsed' \in Nat /\ (pc' = "down" => elapsed' = 0)
  BY <1>1 DEF Chronicle
<1>11. pc' = "gathering" => elapsed' <= MaxCycle
  BY <1>1, <1>6 DEF Chronicle, Tick, TimeMayPass
<1> QED BY <1>1, <1>5, <1>7, <1>9, <1>10, <1>11 DEF Chronicle

LEMMA ChronicleAlways == Spec => []Chronicle
<1>1. Init => Chronicle
  <2> SUFFICES ASSUME Init PROVE Chronicle
    OBVIOUS
  <2>1. history = <<>> /\ appended = 0 /\ elapsed = 0 /\ pc = "gathering" /\ out = NoSignal
    BY DEF Init
  <2>2. history \in Seq(Entries({})) /\ Len(history) = 0 /\ DOMAIN history = {}
    BY <2>1
  <2>3. MaxCycle \in Nat /\ WindowN \in Nat
    BY LoopAssumption, HypeAssumption
  <2>4. HistoryFaithful
    BY <2>1, <2>2, <2>3 DEF HistoryFaithful, AtMost
  <2> QED BY <2>1, <2>2, <2>3, <2>4 DEF Chronicle
<1>2. Chronicle /\ [Next]_vars => Chronicle'
  <2> SUFFICES ASSUME Chronicle, [Next]_vars PROVE Chronicle'
    OBVIOUS
  <2>1. ASSUME UNCHANGED <<history, appended, recent, elapsed>>, UNCHANGED out \/ out' = NoSignal,
               pc' = "down" => pc = "down", pc' = "gathering" => pc \in {"gathering", "down"}
        PROVE  Chronicle'
    <3>1. HistoryFaithful'
      BY <2>1 DEF Chronicle, HistoryFaithful, MaxSkew
    <3> QED BY <2>1, <3>1, LoopAssumption DEF Chronicle
  <2>2. ASSUME NEW a \in Gathered("streams"), NEW b \in Gathered("redstone"), NEW c \in Gathered("hl"),
               GatherReturns([streams |-> a, redstone |-> b, hl |-> c])
        PROVE  Chronicle'
    <3>1. elapsed \in Nat /\ elapsed <= MaxCycle
      BY <2>2 DEF GatherReturns, Chronicle
    <3> QED BY <2>2, <3>1, CycleAgeBounded, AppendsToChronicle
  <2>3. ASSUME NEW outcome \in Outcomes, SetLatest(outcome) PROVE Chronicle'
    BY <2>1, <2>3 DEF SetLatest
  <2>4. ASSUME NEW outcome \in Outcomes, AddEntry(outcome) PROVE Chronicle'
    BY <2>1, <2>4 DEF AddEntry
  <2>5. CASE Wake
    <3>1. CASE stop
      BY <2>1, <2>5, <3>1 DEF Wake, past
    <3>2. CASE ~stop
      <4>1. pc' = "gathering" /\ elapsed' = 0 /\ UNCHANGED <<history, out, appended, recent>>
        BY <2>5, <3>2 DEF Wake, past
      <4>2. HistoryFaithful'
        BY <4>1 DEF Chronicle, HistoryFaithful, MaxSkew
      <4> QED BY <4>1, <4>2, LoopAssumption DEF Chronicle
    <3> QED BY <3>1, <3>2
  <2>6. CASE SetStop
    BY <2>1, <2>6 DEF SetStop, past
  <2>7. ASSUME NEW executed \in BOOLEAN, Crash(executed) PROVE Chronicle'
    <3>1. history' = <<>> /\ out' = NoSignal /\ appended' = 0 /\ elapsed' = 0 /\ pc' = "down"
      BY <2>7 DEF Crash
    <3>2. history' \in Seq(Entries({})) /\ Len(history') = 0 /\ DOMAIN history' = {}
      BY <3>1
    <3>3. HistoryFaithful'
      BY <3>1, <3>2, HypeAssumption DEF HistoryFaithful, AtMost
    <3> QED BY <3>1, <3>2, <3>3 DEF Chronicle
  <2>8. CASE Restart
    BY <2>1, <2>8 DEF Restart, past
  <2>9. CASE Tick
    BY <2>9, AgesChronicle
  <2>10. CASE UNCHANGED vars
    BY <2>1, <2>10 DEF vars, past
  <2> QED
    BY <2>2, <2>3, <2>4, <2>5, <2>6, <2>7, <2>8, <2>9, <2>10 DEF Next, LoopStep
<1> QED BY <1>1, <1>2, PTL DEF Spec

(* The history is that of the last WindowN cycles of this process, in an   *)
(* order that Chainlink's clock can disturb by MaxSkew at most, and no     *)
(* signal carries a velocity before the third.                             *)
THEOREM HistoryIsFaithful == Spec => []HistoryFaithful
BY ChronicleAlways, PTL DEF Chronicle

-----------------------------------------------------------------------------
(* What prices a signal may be computed from: a source's price is positive *)
(* where it is present, and comparable, but it may be infinite.            *)
Quotes == [Sources -> Floats \cup {NoPrice}]

Finite(prices) == \A s \in Present(prices) : prices[s] # Infinite

LEMMA ThreeSources ==
  /\ Sources = {"streams", "redstone", "hl"}
  /\ IsFiniteSet(Sources) /\ Cardinality(Sources) = 3
<1>1. Sources = {"streams", "redstone", "hl"}
  BY DEF Sources, Order
<1>2. IsFiniteSet({}) /\ Cardinality({}) = 0
  BY FS_EmptySet
<1>3. IsFiniteSet({"hl"}) /\ Cardinality({"hl"}) = 1
  BY FS_Singleton
<1>4. IsFiniteSet({"hl"} \cup {"redstone"}) /\ Cardinality({"hl"} \cup {"redstone"}) = 2
  BY <1>3, FS_AddElement
<1> DEFINE two == {"hl"} \cup {"redstone"}
<1>5. "streams" \notin two
  OBVIOUS
<1> HIDE DEF two
<1>6. IsFiniteSet(two \cup {"streams"}) /\ Cardinality(two \cup {"streams"}) = 3
  BY <1>4, <1>5, FS_AddElement DEF two
<1>7. Sources = two \cup {"streams"}
  BY <1>1 DEF two
<1> QED BY <1>1, <1>6, <1>7

LEMMA PresentPrices ==
  ASSUME NEW prices \in Quotes
  PROVE  /\ Present(prices) \subseteq Sources
         /\ \A s \in Present(prices) : prices[s] \in (Nat \ {0}) \cup {Infinite}
         /\ Finite(prices) => \A s \in Present(prices) : prices[s] \in Nat \ {0}
<1>1. \A s \in Present(prices) : s \in Sources /\ prices[s] \in Floats /\ Above(prices[s], 0)
  BY DEF Present, Quotes
<1>2. \A m \in Floats : Above(m, 0) => m \in (Nat \ {0}) \cup {Infinite}
  BY DEF Above, Floats
<1> QED BY <1>1, <1>2 DEF Finite

(* The prices of some sources, as a sample *)
LEMMA SourcesSample ==
  ASSUME NEW some, some \subseteq Sources, NEW off \in [some -> Int]
  PROVE  Sample(off) /\ DOMAIN off = some
BY ThreeSources, FS_Subset DEF Sample

LEMMA PairBpsType ==
  ASSUME NEW m \in Nat \ {0}, NEW n \in Nat \ {0}
  PROVE  PairBps(m, n) \in Nat /\ PairBps(m, n) = PairBps(n, m) /\ PairBps(m, m) = 0
<1> DEFINE d == 20000 * Distance(m, n)
           p == m + n
<1>1. d \in Nat /\ p \in Nat \ {0} /\ d = 20000 * Distance(n, m) /\ p = n + m
  BY DEF Distance
<1>2. PairBps(m, n) = d \div p /\ PairBps(n, m) = d \div p
  BY <1>1, HypeAssumption DEF PairBps
<1>3. PairBps(m, m) = 0 \div (m + m)
  BY HypeAssumption DEF PairBps, Distance
<1> HIDE DEF d, p
<1>4. d \div p \in Nat
  BY <1>1, WholePart
<1> QED BY <1>2, <1>3, <1>4

(* Of two pairs one around the other, the outer is further apart. *)
LEMMA OuterPairIsWider ==
  ASSUME NEW u \in Nat \ {0}, NEW x \in Nat \ {0}, NEW y \in Nat \ {0}, NEW v \in Nat \ {0},
         u <= x, x <= y, y <= v
  PROVE  PairBps(x, y) <= PairBps(u, v)
<1> DEFINE inner == 20000 * (y - x)
           outer == 20000 * (v - u)
           low == x + y
           high == u + v
<1>1. PairBps(x, y) = inner \div low /\ PairBps(u, v) = outer \div high
  <2>1. Distance(x, y) = y - x /\ Distance(u, v) = v - u
    BY DEF Distance
  <2> QED BY <2>1, HypeAssumption DEF PairBps
<1>2. inner \in Nat /\ outer \in Nat /\ low \in Nat \ {0} /\ high \in Nat \ {0}
  OBVIOUS
<1>3. inner * high <= outer * low
  <2>1. y * u <= v * u /\ u * v <= x * v
    BY SMTT(30)
  <2>2. y * u <= x * v
    BY <2>1, SMTT(30)
  <2>3. (y - x) * (u + v) <= (v - u) * (x + y)
    BY <2>2, SMTT(30)
  <2> QED BY <2>3, SMTT(30)
<1> HIDE DEF inner, outer, low, high
<1> QED BY <1>1, <1>2, <1>3, WholePartsRise

(* First finds two of the sources, if there are two. *)
LEMMA TwoSources ==
  ASSUME NEW some, some \subseteq Sources, Cardinality(some) > 1
  PROVE  LET one == First(some)
             two == First(some \ {one})
         IN  /\ one \in some /\ two \in some \ {one}
             /\ Cardinality(some) = 2 => some = {one, two}
<1> DEFINE one == First(some)
           rest == some \ {one}
           two == First(rest)
<1>1. IsFiniteSet(some) /\ Cardinality(some) \in Nat
  BY ThreeSources, FS_Subset, FS_CardinalityType
<1>2. some # {}
  BY FS_EmptySet
<1>3. one \in some
  BY <1>2, FirstPicks
<1> HIDE DEF one
<1>4. IsFiniteSet(rest) /\ Cardinality(rest) = Cardinality(some) - 1
  BY <1>1, <1>3, FS_RemoveElement
<1>5. rest # {} /\ rest \subseteq Sources
  BY <1>1, <1>4, FS_EmptySet
<1>6. two \in rest
  BY <1>5, FirstPicks
<1> HIDE DEF two
<1>7. ASSUME Cardinality(some) = 2 PROVE rest = {two}
  <2> DEFINE last == rest \ {two}
  <2>1. IsFiniteSet(last) /\ Cardinality(last) = 0
    <3>1. IsFiniteSet(last) /\ Cardinality(last) = Cardinality(rest) - 1
      BY <1>4, <1>6, FS_RemoveElement
    <3> QED BY <1>4, <1>7, <3>1
  <2>2. last = {}
    BY <2>1, FS_EmptySet
  <2> QED BY <1>6, <2>2
<1>8. Cardinality(some) = 2 => some = {one, two}
  BY <1>3, <1>7
<1> QED BY <1>3, <1>6, <1>8 DEF one, two

(* The widest gap is that between the lowest and the highest price. *)
LEMMA MaxGapIsOfTheEnds ==
  ASSUME NEW prices \in Quotes, Finite(prices), NEW lo \in Present(prices), NEW hi \in Present(prices),
         \A s \in Present(prices) : prices[lo] <= prices[s] /\ prices[s] <= prices[hi]
  PROVE  MaxGap(prices) = PairBps(prices[lo], prices[hi])
<1> DEFINE some == Present(prices)
           gaps == ({PairBps(prices[s], prices[t]) : s, t \in some} \cup {0}) \ {NotANumber}
           widest == PairBps(prices[lo], prices[hi])
<1>1. \A s \in some : prices[s] \in Nat \ {0}
  BY PresentPrices
<1>2. widest \in gaps /\ widest \in Nat
  BY <1>1, PairBpsType, HypeAssumption
<1>3. ASSUME NEW s \in some, NEW t \in some
      PROVE  PairBps(prices[s], prices[t]) \in Nat /\ PairBps(prices[s], prices[t]) <= widest
  <2>1. PairBps(prices[s], prices[t]) \in Nat
        /\ PairBps(prices[s], prices[t]) = PairBps(prices[t], prices[s])
    BY <1>1, PairBpsType
  <2>2. prices[lo] <= prices[s] /\ prices[s] <= prices[hi] /\ prices[lo] <= prices[t] /\ prices[t] <= prices[hi]
    OBVIOUS
  <2>3. CASE prices[s] <= prices[t]
    BY <1>1, <2>1, <2>2, <2>3, OuterPairIsWider
  <2>4. CASE prices[t] <= prices[s]
    BY <1>1, <2>1, <2>2, <2>4, OuterPairIsWider
  <2>5. prices[s] <= prices[t] \/ prices[t] <= prices[s]
    BY <1>1
  <2> QED BY <2>1, <2>3, <2>4, <2>5
<1> HIDE DEF widest
<1>4. \A h \in gaps : h \in Nat /\ h <= widest
  BY <1>2, <1>3
<1>5. MaxGap(prices) = CHOOSE g \in gaps : \A h \in gaps : h <= g
  <2> DEFINE one == First(some)
             two == First(some \ {one})
  <2>1. ASSUME Cardinality(some) > 1 PROVE PairBps(prices[one], prices[two]) # NotANumber
    <3>1. one \in some /\ two \in some
      <4>1. some \subseteq Sources
        BY PresentPrices
      <4> HIDE DEF some
      <4> QED BY <2>1, <4>1, TwoSources
    <3> HIDE DEF one, two
    <3>2. PairBps(prices[one], prices[two]) \in Nat
      BY <1>1, <3>1, PairBpsType
    <3> QED BY <3>2, HypeAssumption
  <2> HIDE DEF one, two
  <2>2. MaxGap(prices) = IF Cardinality(some) > 1 /\ PairBps(prices[one], prices[two]) = NotANumber
                         THEN NotANumber ELSE CHOOSE g \in gaps : \A h \in gaps : h <= g
    BY DEF MaxGap, one, two
  <2> HIDE DEF gaps, some
  <2> QED BY <2>1, <2>2
<1> HIDE DEF gaps
<1> DEFINE top == CHOOSE g \in gaps : \A h \in gaps : h <= g
<1>6. top \in gaps /\ \A h \in gaps : h <= top
  BY <1>2, <1>4
<1>7. MaxGap(prices) = top
  BY <1>5
<1> HIDE DEF top
<1>8. top \in Nat /\ top <= widest /\ widest <= top
  BY <1>2, <1>4, <1>6
<1> QED BY <1>2, <1>7, <1>8 DEF widest

(* With fewer than two prices there is no gap and no leader. *)
LEMMA LoneSourceIsSilent ==
  ASSUME NEW prices \in Quotes, Cardinality(Present(prices)) < 2
  PROVE  MaxGap(prices) = 0 /\ Leader(prices) = "none"
<1> DEFINE some == Present(prices)
           gaps == ({PairBps(prices[s], prices[t]) : s, t \in some} \cup {0}) \ {NotANumber}
<1>1. /\ IsFiniteSet(some) /\ some \subseteq Sources
      /\ \A s \in some : prices[s] \in (Nat \ {0}) \cup {Infinite}
  BY ThreeSources, PresentPrices, FS_Subset
<1>2. Cardinality(some) \in Nat
  BY <1>1, FS_CardinalityType
<1>3. ASSUME NEW s \in some, NEW t \in some PROVE s = t
  <2> DEFINE pair == {s} \cup {t}
  <2>1. CASE s # t
    <3>1. IsFiniteSet({s}) /\ Cardinality({s}) = 1
      BY FS_Singleton
    <3>2. Cardinality(pair) = 2
      BY <2>1, <3>1, FS_AddElement
    <3>3. pair \subseteq some
      OBVIOUS
    <3> HIDE DEF pair, some
    <3>4. Cardinality(pair) <= Cardinality(some)
      BY <1>1, <3>3, FS_Subset
    <3> QED BY <3>2, <3>4, <1>2 DEF some
  <2> QED BY <2>1
<1>4. gaps = {0}
  <2>1. ASSUME NEW s \in some PROVE PairBps(prices[s], prices[s]) \in {0, NotANumber}
    <3>1. CASE prices[s] = Infinite
      BY <3>1 DEF PairBps
    <3>2. CASE prices[s] \in Nat \ {0}
      BY <3>2, PairBpsType
    <3> QED BY <1>1, <3>1, <3>2
  <2> QED BY <1>3, <2>1, HypeAssumption
<1>5. MaxGap(prices) = 0
  <2>1. ~(Cardinality(some) > 1)
    BY <1>2
  <2>2. MaxGap(prices) = CHOOSE g \in gaps : \A h \in gaps : h <= g
    BY <2>1 DEF MaxGap
  <2> HIDE DEF gaps
  <2> QED BY <1>4, <2>2
<1>6. Leader(prices) = "none"
  BY <1>2 DEF Leader
<1> QED BY <1>5, <1>6

(* Furthest finds a source no other is further than. *)
LEMMA FurthestIsFurthest ==
  ASSUME NEW some, some \subseteq Sources, some # {}, NEW off \in [some -> Int]
  PROVE  /\ Furthest(some, off) \in some
         /\ \A t \in some : off[t] <= off[Furthest(some, off)]
<1> DEFINE best == {s \in some : off[s] # NotANumber /\ \A t \in some : ~Above(off[t], off[s])}
<1>0. \A s, t \in some : off[s] # NotANumber /\ (~Above(off[t], off[s]) <=> off[t] <= off[s])
  BY HypeAssumption DEF Above
<1>1. \E s \in some : \A t \in some : off[t] <= off[s]
  BY SourcesSample, HighestReading
<1>2. best # {} /\ best \subseteq Sources
  BY <1>0, <1>1
<1>3. Furthest(some, off) = First(best)
  BY <1>0, FirstPicks DEF Furthest
<1> HIDE DEF best
<1>4. Furthest(some, off) \in best
  BY <1>2, <1>3, FirstPicks
<1> QED BY <1>0, <1>4 DEF best

(* The median of three prices is that of one source, with another source   *)
(* not above it and the third not below.                                   *)
LEMMA MedianIsBetween ==
  ASSUME NEW prices \in Quotes, Present(prices) = Sources
  PROVE  \E s, below, above \in Sources :
           /\ {below, s, above} = Sources /\ Median(prices) = prices[s]
           /\ ~Above(prices[below], prices[s]) /\ ~Above(prices[s], prices[above])
<1> DEFINE Between(s, below, above) ==
             /\ {below, s, above} = Sources
             /\ ~Above(prices[below], prices[s]) /\ ~Above(prices[s], prices[above])
<1>1. \A s \in Sources : prices[s] \in (Nat \ {0}) \cup {Infinite}
  BY PresentPrices
<1>2. Sources = {"streams", "redstone", "hl"}
  BY ThreeSources
<1>3. \A s, t \in Sources : ~Above(prices[s], prices[t]) \/ ~Above(prices[t], prices[s])
  BY <1>1, HypeAssumption DEF Above
<1>4. \A s, t, u \in Sources : ~Above(prices[s], prices[t]) /\ ~Above(prices[t], prices[u])
                                => ~Above(prices[s], prices[u])
  BY <1>1, HypeAssumption DEF Above
<1>5. \E s, below, above \in Sources : Between(s, below, above)
  <2>1. /\ {"redstone", "streams", "hl"} = Sources /\ {"hl", "streams", "redstone"} = Sources
        /\ {"streams", "redstone", "hl"} = Sources /\ {"hl", "redstone", "streams"} = Sources
        /\ {"streams", "hl", "redstone"} = Sources /\ {"redstone", "hl", "streams"} = Sources
    BY <1>2
  <2>2. \/ Between("streams", "redstone", "hl") \/ Between("streams", "hl", "redstone")
        \/ Between("redstone", "streams", "hl") \/ Between("redstone", "hl", "streams")
        \/ Between("hl", "redstone", "streams") \/ Between("hl", "streams", "redstone")
    BY <1>2, <1>3, <2>1
  <2> QED BY <1>2, <2>2
<1> DEFINE source == CHOOSE s \in Sources : \E below, above \in Sources : Between(s, below, above)
<1>6. Median(prices) = prices[source]
  BY DEF Median
<1>7. source \in Sources /\ \E below, above \in Sources : Between(source, below, above)
  BY <1>5
<1> HIDE DEF source
<1> QED BY <1>6, <1>7

(* Nothing is further away than a source infinitely far. *)
LEMMA FurthestIsInfinite ==
  ASSUME NEW some, some \subseteq Sources, NEW off, \A s \in some : off[s] \in Floats,
         NEW far \in some, off[far] = Infinite, off[First(some)] # NotANumber
  PROVE  Furthest(some, off) \in some /\ off[Furthest(some, off)] = Infinite
<1> DEFINE best == {s \in some : off[s] # NotANumber /\ \A t \in some : ~Above(off[t], off[s])}
<1>1. far \in best /\ best \subseteq Sources
  BY HypeAssumption DEF Above
<1>2. \A s \in best : off[s] = Infinite
  BY HypeAssumption DEF Above, Floats
<1>3. Furthest(some, off) = First(best)
  BY DEF Furthest
<1> HIDE DEF best
<1>4. Furthest(some, off) \in best
  BY <1>1, <1>3, FirstPicks
<1> QED BY <1>2, <1>4 DEF best

(* Whatever the median of three prices is, the price furthest from it is   *)
(* the lowest or the highest, since the median is not beyond them.         *)
LEMMA LeaderIsAtAnEnd ==
  ASSUME NEW prices \in Quotes, Finite(prices), Cardinality(Present(prices)) >= 2,
         NEW lo \in Present(prices), NEW hi \in Present(prices),
         \A s \in Present(prices) : prices[lo] <= prices[s] /\ prices[s] <= prices[hi]
  PROVE  /\ Leader(prices) \in Present(prices)
         /\ prices[Leader(prices)] \in {prices[lo], prices[hi]}
<1> DEFINE some == Present(prices)
<1>1. some \subseteq Sources /\ IsFiniteSet(some) /\ some # {} /\ \A s \in some : prices[s] \in Nat \ {0}
  BY ThreeSources, PresentPrices, FS_Subset
<1>2. Cardinality(some) \in Nat /\ Cardinality(some) <= 3
  BY <1>1, ThreeSources, FS_Subset, FS_CardinalityType
<1>3. CASE Cardinality(some) = 2
  <2> DEFINE off == [s \in some |-> prices[s]]
  <2>1. Leader(prices) = Furthest(some, prices)
    BY <1>3 DEF Leader
  <2>2. Furthest(some, off) = Furthest(some, prices)
    <3>1. First(some) \in some
      BY <1>1, FirstPicks
    <3> QED BY <3>1 DEF Furthest
  <2>3. off \in [some -> Int] /\ \A s \in some : off[s] = prices[s]
    BY <1>1
  <2> HIDE DEF off
  <2>4. Leader(prices) \in some /\ off[hi] <= off[Leader(prices)]
    BY <1>1, <2>1, <2>2, <2>3, FurthestIsFurthest
  <2> QED BY <1>1, <2>3, <2>4
<1>4. CASE Cardinality(some) = 3
  <2> DEFINE median == Median(prices)
             off == [s \in some |-> Off(prices[s], median)]
             l == Leader(prices)
  <2>1. some = Sources
    BY <1>1, <1>4, ThreeSources, FS_Subset
  <2>2. l = Furthest(some, off)
    BY <1>4 DEF Leader
  <2>3. \E s \in some : median = prices[s]
    BY <2>1, MedianIsBetween
  <2> HIDE DEF median
  <2>4. median \in Nat /\ prices[lo] <= median /\ median <= prices[hi]
    BY <1>1, <2>3
  <2>5. \A s \in some : off[s] = Distance(prices[s], median)
    BY <1>1, <2>4, HypeAssumption DEF Off
  <2>6. off \in [some -> Int]
    <3>1. \A s \in some : Distance(prices[s], median) \in Int
      BY <1>1, <2>4 DEF Distance
    <3> QED BY <2>5, <3>1
  <2> HIDE DEF off, l
  <2>7. l \in some /\ off[lo] <= off[l] /\ off[hi] <= off[l]
    BY <1>1, <2>2, <2>6, FurthestIsFurthest
  <2>8. prices[l] = prices[lo] \/ prices[l] = prices[hi]
    <3>1. prices[l] \in Nat /\ prices[lo] \in Nat /\ prices[hi] \in Nat
          /\ prices[lo] <= prices[l] /\ prices[l] <= prices[hi]
      BY <1>1, <2>7
    <3>2. /\ Distance(prices[lo], median) <= Distance(prices[l], median)
          /\ Distance(prices[hi], median) <= Distance(prices[l], median)
      BY <2>5, <2>7
    <3> QED BY <2>4, <3>1, <3>2 DEF Distance
  <2> QED BY <2>7, <2>8 DEF l
<1> QED BY <1>2, <1>3, <1>4

Endless(prices) == {s \in Present(prices) : prices[s] = Infinite}

(* An infinite price leads: of two sources as the higher price, of three   *)
(* as infinitely far from a finite median, or as the first candidate, at   *)
(* no comparable distance from an infinite one.                            *)
LEMMA InfinitePriceLeads ==
  ASSUME NEW prices \in Quotes, Cardinality(Present(prices)) >= 2,
         Endless(prices) # {}, prices["redstone"] # Infinite
  PROVE  Leader(prices) \in Endless(prices)
<1> DEFINE some == Present(prices)
<1>1. /\ some \subseteq Sources /\ IsFiniteSet(some)
      /\ \A s \in some : prices[s] \in (Nat \ {0}) \cup {Infinite}
  BY ThreeSources, PresentPrices, FS_Subset
<1>2. Cardinality(some) \in Nat /\ Cardinality(some) <= 3
  BY <1>1, ThreeSources, FS_Subset, FS_CardinalityType
<1>3. PICK far \in some : prices[far] = Infinite
  BY DEF Endless
<1>4. CASE Cardinality(some) = 2
  <2>1. Leader(prices) = Furthest(some, prices)
    BY <1>4 DEF Leader
  <2>2. First(some) \in some
    BY <1>1, <1>3, FirstPicks
  <2>3. \A s \in some : prices[s] \in Floats /\ prices[s] # NotANumber
    BY <1>1, HypeAssumption DEF Floats
  <2> QED BY <1>1, <1>3, <2>1, <2>2, <2>3, FurthestIsInfinite DEF Endless
<1>5. CASE Cardinality(some) = 3
  <2> DEFINE median == Median(prices)
             off == [s \in some |-> Off(prices[s], median)]
  <2>1. some = Sources /\ Sources = {"streams", "redstone", "hl"}
    BY <1>1, <1>5, ThreeSources, FS_Subset
  <2>2. Leader(prices) = Furthest(some, off)
    BY <1>5 DEF Leader
  <2>3. First(some) = "streams"
    BY <2>1, StreamsComesFirst
  <2>4. PICK s \in Sources, below \in Sources, above \in Sources :
          /\ {below, s, above} = Sources /\ median = prices[s]
          /\ ~Above(prices[below], prices[s]) /\ ~Above(prices[s], prices[above])
    BY <2>1, MedianIsBetween
  <2> HIDE DEF median
  <2>5. prices["redstone"] \in Nat \ {0}
    BY <1>1, <2>1
  <2>6. CASE prices["streams"] = Infinite /\ prices["hl"] = Infinite
    <3>1. median = Infinite
      BY <2>1, <2>4, <2>5, <2>6, HypeAssumption DEF Above
    <3>2. off["streams"] = NotANumber
      BY <2>1, <2>6, <3>1 DEF Off
    <3>3. Leader(prices) = "streams"
      BY <2>2, <2>3, <3>2 DEF Furthest
    <3> QED BY <2>1, <2>6, <3>3 DEF Endless
  <2>7. CASE ~(prices["streams"] = Infinite /\ prices["hl"] = Infinite)
    <3>1. median \in Nat
      BY <1>1, <1>3, <2>1, <2>4, <2>5, <2>7, HypeAssumption DEF Above
    <3>2. \A t \in some : /\ off[t] \in Floats \ {NotANumber}
                          /\ off[t] = Infinite <=> prices[t] = Infinite
      <4> SUFFICES ASSUME NEW t \in some
                   PROVE  /\ off[t] \in Floats \ {NotANumber}
                          /\ off[t] = Infinite <=> prices[t] = Infinite
        OBVIOUS
      <4>1. CASE prices[t] = Infinite
        BY <3>1, <4>1, HypeAssumption DEF Off, Floats
      <4>2. CASE prices[t] \in Nat \ {0}
        <5>1. off[t] = Distance(prices[t], median)
          BY <3>1, <4>2, HypeAssumption DEF Off
        <5>2. Distance(prices[t], median) \in Int
          BY <3>1, <4>2 DEF Distance
        <5> QED BY <4>2, <5>1, <5>2, HypeAssumption DEF Floats
      <4> QED BY <1>1, <4>1, <4>2
    <3> HIDE DEF off
    <3>3. off[far] = Infinite /\ off[First(some)] # NotANumber
      BY <1>3, <2>1, <2>3, <3>2
    <3>4. Leader(prices) \in some /\ off[Leader(prices)] = Infinite
      BY <1>1, <2>2, <3>2, <3>3, FurthestIsInfinite
    <3> QED BY <3>2, <3>4 DEF Endless
  <2> QED BY <2>6, <2>7
<1> QED BY <1>2, <1>4, <1>5

(* Beside an infinite price the widest gap is a nan, unless the first pair *)
(* is of two finite prices.                                                *)
LEMMA GapBesideInfinite ==
  ASSUME NEW prices \in Quotes, Cardinality(Present(prices)) >= 2,
         Endless(prices) # {}, prices["redstone"] # Infinite
  PROVE  \/ MaxGap(prices) = NotANumber
         \/ /\ Endless(prices) = {"hl"} /\ Present(prices) = Sources
            /\ MaxGap(prices) = PairBps(prices["streams"], prices["redstone"])
            /\ MaxGap(prices) \in Nat
<1> DEFINE some == Present(prices)
           one == First(some)
           two == First(some \ {one})
           numbers == ({PairBps(prices[s], prices[t]) : s, t \in some} \cup {0}) \ {NotANumber}
<1>1. /\ some \subseteq Sources /\ IsFiniteSet(some) /\ Sources = {"streams", "redstone", "hl"}
      /\ \A s \in some : prices[s] \in (Nat \ {0}) \cup {Infinite}
  BY ThreeSources, PresentPrices, FS_Subset
<1>2. Cardinality(some) \in Nat /\ Cardinality(some) <= 3 /\ Cardinality(some) > 1
  BY <1>1, ThreeSources, FS_Subset, FS_CardinalityType
<1>3. one \in some /\ two \in some \ {one} /\ (Cardinality(some) = 2 => some = {one, two})
  BY <1>1, <1>2, TwoSources
<1>4. MaxGap(prices) = IF PairBps(prices[one], prices[two]) = NotANumber THEN NotANumber
                       ELSE CHOOSE g \in numbers : \A h \in numbers : h <= g
  BY <1>2 DEF MaxGap
<1> HIDE DEF one, two
<1>5. ASSUME Infinite \in {prices[one], prices[two]} PROVE MaxGap(prices) = NotANumber
  BY <1>4, <1>5 DEF PairBps
<1>6. ASSUME Infinite \notin {prices[one], prices[two]}
      PROVE  /\ Endless(prices) = {"hl"} /\ some = Sources
             /\ MaxGap(prices) = PairBps(prices["streams"], prices["redstone"])
             /\ MaxGap(prices) \in Nat
  <2>1. Cardinality(some) = 3
    BY <1>2, <1>3, <1>6 DEF Endless
  <2>2. some = Sources
    BY <1>1, <2>1, ThreeSources, FS_Subset
  <2>3. one = "streams"
    BY <1>1, <2>2, StreamsComesFirst DEF one
  <2>4. prices["streams"] \in Nat \ {0} /\ prices["redstone"] \in Nat \ {0} /\ prices["hl"] = Infinite
        /\ Endless(prices) = {"hl"}
    BY <1>1, <1>6, <2>2, <2>3 DEF Endless
  <2> DEFINE gap == PairBps(prices["streams"], prices["redstone"])
  <2>5. two = "redstone"
    BY <1>1, <1>3, <1>6, <2>2, <2>3, <2>4
  <2>6. gap \in Nat /\ gap = PairBps(prices["redstone"], prices["streams"])
        /\ PairBps(prices["streams"], prices["streams"]) = 0
        /\ PairBps(prices["redstone"], prices["redstone"]) = 0
    BY <2>4, PairBpsType
  <2>7. \A s \in some : PairBps(prices["hl"], prices[s]) = NotANumber
                        /\ PairBps(prices[s], prices["hl"]) = NotANumber
    BY <2>4 DEF PairBps
  <2> HIDE DEF gap
  <2>8. numbers = {gap, 0}
    <3>1. gap \in numbers /\ 0 \in numbers
      BY <1>1, <2>2, <2>6, HypeAssumption DEF gap
    <3>2. \A s, t \in some : PairBps(prices[s], prices[t]) \in {gap, 0, NotANumber}
      BY <1>1, <2>2, <2>6, <2>7 DEF gap
    <3> QED BY <3>1, <3>2
  <2>9. MaxGap(prices) = CHOOSE g \in numbers : \A h \in numbers : h <= g
    <3>1. PairBps(prices[one], prices[two]) # NotANumber
      BY <2>3, <2>5, <2>6, HypeAssumption DEF gap
    <3> HIDE DEF numbers
    <3> QED BY <1>4, <3>1
  <2> HIDE DEF numbers
  <2>10. MaxGap(prices) = gap
    BY <2>6, <2>8, <2>9
  <2> QED BY <2>2, <2>4, <2>6, <2>10 DEF gap
<1> QED BY <1>5, <1>6

Gaps == Nat \cup {NotANumber}

(* What compute_hype_divergence says of its prices *)
Leads(signal) ==
  LET some == Present(signal.prices)
      endless == {s \in some : signal.prices[s] = Infinite}
  IN  IF Cardinality(some) < 2 THEN signal.leader = "none" /\ signal.gap = 0
      ELSE IF endless = {}
      THEN /\ signal.leader \in some
           /\ \E s \in some : signal.gap = PairBps(signal.prices[signal.leader], signal.prices[s])
      ELSE /\ signal.leader \in endless
           /\ \/ signal.gap = NotANumber
              \/ /\ endless = {"hl"} /\ some = Sources
                 /\ signal.gap = PairBps(signal.prices["streams"], signal.prices["redstone"])

LEMMA SignalLeads ==
  ASSUME NEW readings, NEW h, Prices(readings) \in Quotes, Prices(readings)["redstone"] # Infinite
  PROVE  /\ Leads(Signal(readings, h))
         /\ Signal(readings, h).gap \in Gaps /\ Signal(readings, h).leader \in Sources \cup {"none"}
         /\ Signal(readings, h).prices = Prices(readings)
<1> DEFINE signal == Signal(readings, h)
           prices == Prices(readings)
           some == Present(prices)
<1>1. signal.prices = prices /\ signal.gap = MaxGap(prices) /\ signal.leader = Leader(prices)
  BY DEF Signal
<1>2. some \subseteq Sources /\ IsFiniteSet(some)
  BY ThreeSources, PresentPrices, FS_Subset
<1>3. Cardinality(some) \in Nat
  BY <1>2, FS_CardinalityType
<1> HIDE DEF signal, prices
<1>4. prices \in Quotes /\ prices["redstone"] # Infinite
  BY DEF prices
<1>5. CASE Cardinality(some) < 2
  BY <1>1, <1>4, <1>5, LoneSourceIsSilent DEF Leads, Gaps, signal, prices
<1>6. ASSUME Cardinality(some) >= 2, Finite(prices)
      PROVE  Leads(signal) /\ signal.gap \in Gaps /\ signal.leader \in Sources
  <2> DEFINE off == [s \in some |-> prices[s]]
  <2>1. some # {} /\ ~(Cardinality(some) < 2)
    BY <1>3, <1>6, FS_EmptySet
  <2>2. off \in [some -> Int] /\ \A s \in some : off[s] = prices[s] /\ prices[s] \in Nat \ {0}
    BY <1>4, <1>6, PresentPrices
  <2> HIDE DEF off
  <2>3. Sample(off) /\ DOMAIN off = some
    BY <1>2, <2>2, SourcesSample
  <2>4. PICK lo \in some : \A s \in some : prices[lo] <= prices[s]
    BY <2>1, <2>2, <2>3, LowestReading
  <2>5. PICK hi \in some : \A s \in some : prices[s] <= prices[hi]
    BY <2>1, <2>2, <2>3, HighestReading
  <2>6. MaxGap(prices) = PairBps(prices[lo], prices[hi])
    BY <1>4, <1>6, <2>4, <2>5, MaxGapIsOfTheEnds
  <2>7. Leader(prices) \in some /\ prices[Leader(prices)] \in {prices[lo], prices[hi]}
    BY <1>4, <1>6, <2>4, <2>5, LeaderIsAtAnEnd
  <2>8. /\ PairBps(prices[lo], prices[hi]) \in Nat
        /\ PairBps(prices[lo], prices[hi]) = PairBps(prices[hi], prices[lo])
    BY <2>2, PairBpsType
  <2>9. \E s \in some : MaxGap(prices) = PairBps(prices[Leader(prices)], prices[s])
    BY <2>6, <2>7, <2>8
  <2>10. {s \in some : prices[s] = Infinite} = {}
    BY <1>6 DEF Finite
  <2>11. Leads(signal)
    BY <1>1, <2>1, <2>7, <2>9, <2>10 DEF Leads
  <2> QED BY <1>1, <1>2, <2>6, <2>7, <2>8, <2>11 DEF Gaps
<1>7. ASSUME Cardinality(some) >= 2, ~Finite(prices)
      PROVE  Leads(signal) /\ signal.gap \in Gaps /\ signal.leader \in Sources
  <2>1. Endless(prices) # {} /\ ~(Cardinality(some) < 2)
    BY <1>3, <1>7 DEF Finite, Endless
  <2>2. Leader(prices) \in Endless(prices)
    BY <1>4, <1>7, <2>1, InfinitePriceLeads
  <2>3. \/ MaxGap(prices) = NotANumber
        \/ /\ Endless(prices) = {"hl"} /\ some = Sources
           /\ MaxGap(prices) = PairBps(prices["streams"], prices["redstone"])
           /\ MaxGap(prices) \in Nat
    BY <1>4, <1>7, <2>1, GapBesideInfinite
  <2>4. Endless(prices) = {s \in some : prices[s] = Infinite} /\ Endless(prices) \subseteq Sources
    BY <1>2 DEF Endless
  <2>5. Leads(signal)
    BY <1>1, <2>1, <2>2, <2>3, <2>4 DEF Leads
  <2> QED BY <1>1, <2>2, <2>3, <2>4, <2>5 DEF Gaps
<1>8. CASE Cardinality(some) >= 2
  BY <1>1, <1>6, <1>7, <1>8 DEF signal, prices
<1> QED BY <1>3, <1>5, <1>8

-----------------------------------------------------------------------------
(* A word of WordBits bits is a positive price only in its lower half. *)
RedstonePrices == 1 .. 2 ^ (WordBits - 1) - 1

LEMMA RedstoneInRange ==
  ASSUME NEW w \in Words, RedstoneReading(w) # NoPrice
  PROVE  RedstoneReading(w) = [price |-> SignedWord(w), age |-> 0] /\ SignedWord(w) \in RedstonePrices
<1> DEFINE half == 2 ^ (WordBits - 1)
           full == 2 ^ WordBits
<1>1. WordBits \in Nat /\ WordBits - 1 \in Nat
  BY LoopAssumption
<1>2. half \in Int /\ full \in Int
  BY <1>1
<1>3. w \in 0 .. full - 1
  BY PriceAssumption
<1>4. SignedWord(w) = IF w >= half THEN w - full ELSE w
  BY DEF SignedWord
<1> HIDE DEF half, full
<1>5. /\ ~(SignedWord(w) <= 0)
      /\ RedstoneReading(w) = [price |-> SignedWord(w), age |-> 0]
  BY DEF RedstoneReading
<1>6. SignedWord(w) \in 1 .. half - 1
  BY <1>2, <1>3, <1>4, <1>5
<1> QED BY <1>5, <1>6 DEF RedstonePrices, half

LEMMA RedstoneIsFinite == \A p \in {NoPrice} \cup RedstonePrices : p # Infinite
BY LoopAssumption, PriceAssumption, HypeAssumption DEF RedstonePrices, Floats

(* What the prices of a cycle may be *)
LEMMA GatheredPrices ==
  ASSUME elapsed \in Nat, NEW a \in Gathered("streams"),
         NEW b \in Gathered("redstone"), NEW c \in Gathered("hl")
  PROVE  LET prices == Prices(Answers([streams |-> a, redstone |-> b, hl |-> c]))
         IN  prices \in Quotes /\ prices["redstone"] \in {NoPrice} \cup RedstonePrices
<1> DEFINE readings == Answers([streams |-> a, redstone |-> b, hl |-> c])
<1>1. Sources = {"streams", "redstone", "hl"}
  BY ThreeSources
<1>2. ASSUME NEW r, r = [price |-> r.price, age |-> r.age], NEW ticks \in 0 .. elapsed
      PROVE  Aged(r, ticks).price = r.price
  BY <1>2 DEF Aged
<1>3. a \in {NoPrice, Raised} \/ a.price \in Floats
  <2>1. Results("streams") = {NoPrice, Raised} \cup StreamsReadings
    BY DEF Results
  <2> QED BY <1>2, <2>1, LoopAssumption, PriceAssumption DEF Gathered
<1>4. b \in {NoPrice, Raised} \/ b.price \in RedstonePrices
  <2>1. Results("redstone") = {NoPrice, Raised} \cup {RedstoneReading(w) : w \in Words}
    BY DEF Results
  <2>2. ASSUME NEW w \in Words, RedstoneReading(w) # NoPrice, NEW ticks \in 0 .. elapsed
        PROVE  Aged(RedstoneReading(w), ticks).price \in RedstonePrices
    <3>1. RedstoneReading(w) = [price |-> SignedWord(w), age |-> 0] /\ SignedWord(w) \in RedstonePrices
      BY <2>2, RedstoneInRange
    <3> QED BY <1>2, <3>1
  <2> QED BY <2>1, <2>2 DEF Gathered
<1>5. c \in {NoPrice, Raised} \/ c.price \in Floats
  <2>1. Results("hl") = {NoPrice, Raised} \cup {HlReading(m) : m \in Mids}
    BY DEF Results
  <2>2. ASSUME NEW m \in Mids, HlReading(m) # NoPrice, NEW ticks \in 0 .. elapsed
        PROVE  Aged(HlReading(m), ticks).price \in Floats
    <3>1. HlReading(m) = [price |-> m, age |-> 0] /\ m \in Floats
      BY <2>2, PriceAssumption DEF HlReading
    <3> QED BY <1>2, <3>1
  <2> QED BY <2>1, <2>2 DEF Gathered
<1>6. RedstonePrices \subseteq Int
  BY LoopAssumption DEF RedstonePrices
<1>7. \A s \in Sources : readings[s] = NoPrice \/ readings[s].price \in Floats
  <2>1. b \in {NoPrice, Raised} \/ b.price \in Floats
    BY <1>4, <1>6 DEF Floats
  <2> QED BY <1>1, <1>3, <1>5, <2>1 DEF Answers
<1>8. readings["redstone"] = NoPrice \/ readings["redstone"].price \in RedstonePrices
  BY <1>1, <1>4 DEF Answers
<1> HIDE DEF readings
<1>9. Prices(readings) \in Quotes
  BY <1>7 DEF Prices, Quotes
<1>10. Prices(readings)["redstone"] \in {NoPrice} \cup RedstonePrices
  BY <1>1, <1>8 DEF Prices
<1> QED BY <1>9, <1>10 DEF readings

(* The signal in flight and the history, with every other variable in its  *)
(* place.                                                                  *)
Signals ==
  /\ pc \in {"gathering", "setting", "adding", "sleeping", "done", "down"}
  /\ pc \notin {"setting", "adding"} => out = NoSignal
  /\ pc \in {"setting", "adding"} =>
       /\ out.leader \in Sources \cup {"none"} /\ out.gap \in Gaps
       /\ out.prices["redstone"] \in {NoPrice} \cup RedstonePrices
       /\ Leads(out)
  /\ history \in Seq(Entries(Gaps))

LEMMA SignalsStep == Signals /\ Chronicle /\ [Next]_vars => Signals'
<1> SUFFICES ASSUME Signals, Chronicle, [Next]_vars PROVE Signals'
  OBVIOUS
<1>1. ASSUME pc' \in {"gathering", "sleeping", "done", "down"}, out' = NoSignal,
             history' = history \/ history' = <<>>
      PROVE  Signals'
  <2>1. <<>> \in Seq(Entries(Gaps)) /\ history \in Seq(Entries(Gaps))
    BY DEF Signals
  <2>2. history' \in Seq(Entries(Gaps))
    BY <1>1, <2>1, Zenon
  <2> QED BY <1>1, <2>2 DEF Signals
<1>2. ASSUME pc' \in {"setting", "adding"}, pc \in {"setting", "adding"}, UNCHANGED <<out, history>>
      PROVE  Signals'
  BY <1>2 DEF Signals, Leads
<1>3. ASSUME UNCHANGED <<pc, out, history>> PROVE Signals'
  BY <1>3 DEF Signals, Leads
<1>4. ASSUME NEW a \in Gathered("streams"), NEW b \in Gathered("redstone"), NEW c \in Gathered("hl"),
             GatherReturns([streams |-> a, redstone |-> b, hl |-> c])
      PROVE  Signals'
  <2> DEFINE readings == Answers([streams |-> a, redstone |-> b, hl |-> c])
             entry == [age |-> RecordedAge(CycleAge(readings)), gap |-> out'.gap]
  <2>1. /\ pc = "gathering" /\ pc' = "setting" /\ out' = Signal(readings, history)
        /\ history' = Appended(history, entry)
    BY <1>4 DEF GatherReturns
  <2>2. elapsed \in Nat /\ elapsed <= MaxCycle
    BY <2>1 DEF Chronicle
  <2>3. Prices(readings) \in Quotes /\ Prices(readings)["redstone"] \in {NoPrice} \cup RedstonePrices
    BY <2>2, GatheredPrices
  <2>4. RecordedAge(CycleAge(readings)) \in Int
    BY <2>2, CycleAgeBounded, LoopAssumption
  <2> HIDE DEF readings
  <2>5. /\ Leads(out') /\ out'.gap \in Gaps /\ out'.leader \in Sources \cup {"none"}
        /\ out'.prices["redstone"] \in {NoPrice} \cup RedstonePrices
    BY <2>1, <2>3, SignalLeads, RedstoneIsFinite
  <2>6. entry \in Entries(Gaps) /\ history \in Seq(Entries(Gaps))
    BY <2>4, <2>5 DEF Entries, Signals
  <2> HIDE DEF entry
  <2>7. history' \in Seq(Entries(Gaps))
    BY <2>1, <2>6, AppendedIsSuffix DEF KeepsSuffix
  <2> QED BY <2>1, <2>5, <2>7 DEF Signals, Leads, RedstonePrices
<1>5. ASSUME NEW outcome \in Outcomes, SetLatest(outcome) PROVE Signals'
  BY <1>1, <1>2, <1>5 DEF SetLatest
<1>6. ASSUME NEW outcome \in Outcomes, AddEntry(outcome) PROVE Signals'
  BY <1>1, <1>6 DEF AddEntry
<1>7. CASE Wake
  BY <1>1, <1>7 DEF Wake, Signals
<1>8. CASE SetStop
  BY <1>3, <1>8 DEF SetStop
<1>9. ASSUME NEW executed \in BOOLEAN, Crash(executed) PROVE Signals'
  BY <1>1, <1>9 DEF Crash
<1>10. CASE Restart
  BY <1>1, <1>10 DEF Restart, Signals
<1>11. CASE Tick
  <2>1. /\ history' = [i \in DOMAIN history |-> Aged(history[i], 1)]
        /\ UNCHANGED <<pc, out>>
    BY <1>11 DEF Tick
  <2>2. history' \in Seq(Entries(Gaps))
    BY <2>1, EntriesAge DEF Signals
  <2> QED BY <2>1, <2>2 DEF Signals, Leads
<1>12. CASE UNCHANGED vars
  BY <1>3, <1>12 DEF vars
<1> QED
  BY <1>4, <1>5, <1>6, <1>7, <1>8, <1>9, <1>10, <1>11, <1>12 DEF Next, LoopStep

LEMMA SignalsAlways == Spec => []Signals
<1>1. Init => Signals
  <2> SUFFICES ASSUME Init PROVE Signals
    OBVIOUS
  <2>1. pc = "gathering" /\ out = NoSignal /\ history = <<>>
    BY DEF Init
  <2>2. history \in Seq(Entries(Gaps))
    BY <2>1
  <2> QED BY <2>1, <2>2 DEF Signals
<1> QED BY <1>1, SignalsStep, ChronicleAlways, PTL DEF Spec

(* In every signal the leader is one of the two sources whose gap is the   *)
(* signal's, whichever sources answered, with whatever price.              *)
THEOREM LeaderOfTheGap == Spec => []LeaderInWidestPair
<1>1. Signals => LeaderInWidestPair
  BY DEF Signals, Leads, LeaderInWidestPair
<1> QED BY <1>1, SignalsAlways, PTL

(* The rest of the state: Redis' clocks and the counters *)
Counters ==
  /\ {latest, stream} \subseteq (0 .. MaxLag) \cup {NoSignal}
  /\ ttl \in 0 .. LatestTtl /\ (ttl = 0 <=> latest = NoSignal)
  /\ elapsed \in 0 .. AtLeast(Interval, MaxCycle)
  /\ appended \in 0 .. MaxAppended /\ refused \in 0 .. MaxRefused
  /\ {stop, torn} \subseteq BOOLEAN

LEMMA CountersStep == Counters /\ [Next]_vars => Counters'
<1> SUFFICES ASSUME Counters, [Next]_vars PROVE Counters'
  OBVIOUS
<1> DEFINE Lags == (0 .. MaxLag) \cup {NoSignal}
           top == AtLeast(Interval, MaxCycle)
<1>1. /\ MaxLag \in Nat \ {0} /\ LatestTtl \in Nat \ {0} /\ MaxAppended \in Nat
      /\ MaxRefused \in Nat /\ NoSignal \notin Nat /\ top \in Nat /\ Interval <= top /\ MaxCycle <= top
  BY LoopAssumption, HypeAssumption, HypePeriodType DEF MaxAppended, AtLeast
<1>2. 0 \in Lags /\ NoSignal \in Lags /\ \A lag \in Lags : Older(lag) \in Lags /\ (Older(lag) = NoSignal <=> lag = NoSignal)
  BY <1>1 DEF Older, AtMost
<1>3. /\ latest \in Lags /\ stream \in Lags /\ ttl \in 0 .. LatestTtl /\ (ttl = 0 <=> latest = NoSignal)
      /\ elapsed \in 0 .. top /\ appended \in 0 .. MaxAppended /\ refused \in 0 .. MaxRefused
      /\ stop \in BOOLEAN /\ torn \in BOOLEAN
  BY DEF Counters
<1>4. ASSUME latest' \in Lags, stream' \in Lags, ttl' \in 0 .. LatestTtl, ttl' = 0 <=> latest' = NoSignal,
             elapsed' \in 0 .. top, appended' \in 0 .. MaxAppended, refused' \in 0 .. MaxRefused,
             stop' \in BOOLEAN, torn' \in BOOLEAN
      PROVE  Counters'
  <2>1. {latest', stream'} \subseteq Lags /\ {stop', torn'} \subseteq BOOLEAN
    BY <1>4
  <2> QED BY <1>4, <2>1 DEF Counters, MaxAppended, MaxRefused, Absorbed, Period
<1> HIDE DEF Lags, top
<1>5. ASSUME UNCHANGED <<latest, stream, ttl, elapsed, appended, refused, stop, torn>>
      PROVE  Counters'
  BY <1>3, <1>4, <1>5
<1>6. ASSUME NEW results, GatherReturns(results) PROVE Counters'
  <2>1. /\ latest' = Older(latest) /\ stream' = Older(stream)
        /\ appended' = AtMost(MaxAppended, appended + 1)
        /\ UNCHANGED <<stop, elapsed, ttl, refused, torn>>
    BY <1>6 DEF GatherReturns
  <2>2. appended' \in 0 .. MaxAppended
    BY <1>1, <1>3, <2>1 DEF AtMost
  <2>3. latest' \in Lags /\ stream' \in Lags /\ (latest' = NoSignal <=> latest = NoSignal)
    BY <1>2, <1>3, <2>1
  <2> QED BY <1>3, <1>4, <2>1, <2>2, <2>3
<1>7. ASSUME NEW outcome \in Outcomes, SetLatest(outcome) PROVE Counters'
  <2>1. UNCHANGED <<stop, elapsed, stream, appended>>
    BY <1>7 DEF SetLatest
  <2>2. CASE Executed(outcome)
    <3>1. latest' = 0 /\ ttl' = LatestTtl /\ refused' = 0 /\ torn' = ~Adds(outcome)
      BY <1>7, <2>2 DEF SetLatest
    <3>2. torn' \in BOOLEAN
      BY <3>1
    <3> QED BY <1>1, <1>2, <1>3, <1>4, <2>1, <3>1, <3>2
  <2>3. CASE ~Executed(outcome)
    <3>1. refused' = AtMost(MaxRefused, refused + 1) /\ UNCHANGED <<latest, ttl, torn>>
      BY <1>7, <2>3 DEF SetLatest
    <3>2. refused' \in 0 .. MaxRefused
      BY <1>1, <1>3, <3>1 DEF AtMost
    <3> QED BY <1>3, <1>4, <2>1, <3>1, <3>2
  <2> QED BY <2>2, <2>3
<1>8. ASSUME NEW outcome \in Outcomes, AddEntry(outcome) PROVE Counters'
  <2>1. /\ stream' \in {0, stream} /\ torn' = ~Executed(outcome)
        /\ UNCHANGED <<stop, elapsed, latest, ttl, appended, refused>>
    BY <1>8 DEF AddEntry
  <2>2. torn' \in BOOLEAN
    BY <2>1
  <2> QED BY <1>2, <1>3, <1>4, <2>1, <2>2
<1>9. CASE Wake
  <2>1. /\ elapsed' \in {0, elapsed}
        /\ UNCHANGED <<stop, latest, ttl, stream, appended, refused, torn>>
    BY <1>9 DEF Wake, redis, past
  <2> QED BY <1>1, <1>3, <1>4, <2>1
<1>10. CASE SetStop
  <2>1. stop' = TRUE /\ UNCHANGED <<elapsed, latest, ttl, stream, appended, refused, torn>>
    BY <1>10 DEF SetStop, redis, past
  <2> QED BY <1>3, <1>4, <2>1
<1>11. ASSUME NEW executed \in BOOLEAN, Crash(executed) PROVE Counters'
  <2>1. /\ (latest' = 0 /\ ttl' = LatestTtl) \/ UNCHANGED <<latest, ttl>>
        /\ stream' \in {0, stream} /\ elapsed' = 0 /\ appended' = 0 /\ refused' = MaxRefused
        /\ UNCHANGED stop
    BY <1>11 DEF Crash
  <2>2. torn' \in {executed \/ torn, ~executed, torn}
    BY <1>11 DEF Crash
  <2>3. torn' \in BOOLEAN
    BY <1>3, <2>2
  <2> QED BY <1>1, <1>2, <1>3, <1>4, <2>1, <2>3
<1>12. CASE Restart
  BY <1>5, <1>12 DEF Restart, redis, past
<1>13. CASE Tick
  <2>1. /\ elapsed' = IF pc \in {"down", "done"} THEN elapsed ELSE elapsed + 1
        /\ ttl' = AtLeast(0, ttl - 1)
        /\ latest' = IF ttl' = 0 THEN NoSignal ELSE latest
        /\ UNCHANGED <<stop, stream, appended, refused, torn>>
    BY <1>13 DEF Tick
  <2>2. elapsed' \in 0 .. top
    <3>1. pc \in {"down", "done"} \/ elapsed < Interval \/ elapsed < MaxCycle
      BY <1>13 DEF Tick, TimeMayPass
    <3>2. Interval \in Nat /\ MaxCycle \in Nat
      BY LoopAssumption
    <3> QED BY <1>1, <1>3, <2>1, <3>1, <3>2
  <2>3. ttl' \in 0 .. LatestTtl /\ (ttl = 0 => ttl' = 0)
    BY <1>1, <1>3, <2>1 DEF AtLeast
  <2>4. latest' \in Lags /\ (ttl' = 0 <=> latest' = NoSignal)
    BY <1>2, <1>3, <2>1, <2>3
  <2> QED BY <1>3, <1>4, <2>1, <2>2, <2>3, <2>4
<1>14. CASE UNCHANGED vars
  BY <1>5, <1>14 DEF vars, redis, past
<1> QED
  BY <1>6, <1>7, <1>8, <1>9, <1>10, <1>11, <1>12, <1>13, <1>14 DEF Next, LoopStep

(* Type correctness: a signal is in flight from gather to the last write   *)
(* and at no other time, its RedStone price one of a signed word, and the  *)
(* latest key has a signal exactly while its expiry runs.                  *)
THEOREM HypeTypes == Spec => []TypeOK
<1>1. Init => Counters
  <2> SUFFICES ASSUME Init PROVE Counters
    OBVIOUS
  <2>1. /\ latest = NoSignal /\ stream = NoSignal /\ ttl = 0 /\ elapsed = 0 /\ appended = 0
        /\ refused = MaxRefused /\ stop = FALSE /\ torn = FALSE
    BY DEF Init
  <2>2. MaxRefused \in Nat /\ LatestTtl \in Nat /\ MaxAppended \in Nat /\ AtLeast(Interval, MaxCycle) \in Nat
    BY LoopAssumption, HypeAssumption, HypePeriodType DEF MaxAppended, AtLeast
  <2>3. {latest, stream} \subseteq (0 .. MaxLag) \cup {NoSignal} /\ {stop, torn} \subseteq BOOLEAN
    BY <2>1
  <2> QED BY <2>1, <2>2, <2>3 DEF Counters
<1>2. Signals /\ Counters => TypeOK
  <2> SUFFICES ASSUME Signals, Counters PROVE TypeOK
    OBVIOUS
  <2>1. \A i \in DOMAIN history : history[i].gap \in Gaps /\ history[i].age \in Int
    <3>1. \A i \in DOMAIN history : history[i] \in Entries(Gaps)
      BY DEF Signals
    <3> QED BY <3>1 DEF Entries
  <2> QED BY <2>1 DEF Signals, Counters, RedstonePrices, Gaps, TypeOK
<1> QED BY <1>1, <1>2, CountersStep, SignalsAlways, PTL DEF Spec
=============================================================================
