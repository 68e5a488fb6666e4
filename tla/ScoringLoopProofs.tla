------------------------- MODULE ScoringLoopProofs --------------------------
(***************************************************************************)
(* Theorems about the scoring loop, for every list of assets, set of       *)
(* quotes, window, weight, threshold and timing constant.                  *)
(***************************************************************************)
EXTENDS ScoringLoop, StatisticsProofs, SequenceTheorems

(* How far a cycle has come at each await.  While the for loop runs, the   *)
(* assets before its position are served; an asset that had a snapshot     *)
(* when the cycle began still has it, unless the process died.             *)
Served(n) == \A i \in 1 .. n : AliasSeq[i] \in cycle.due => AliasSeq[i] \in cycle.tried

Shape ==
  /\ at \in 1 .. Len(AliasSeq)
  /\ DOMAIN snap = Aliases
  /\ cycle = [held |-> cycle.held, due |-> cycle.due,
              tried |-> cycle.tried, raised |-> cycle.raised]
  /\ cycle.due \subseteq Scored

Progress ==
  /\ Shape
  /\ pc # "down" => \A a \in cycle.due : snap[a] # NoQuote
  /\ pc = "reading" => cycle.raised = FALSE /\ cycle.tried = {}
  /\ pc \in {"scoring", "setting", "adding"} => cycle.raised = FALSE /\ Served(at - 1)
  /\ pc = "adding" => Current \in cycle.tried
  /\ pc \in {"pyth", "settingPyth"} => cycle.raised = FALSE /\ cycle.due \subseteq cycle.tried
  /\ pc = "sleeping" => \/ cycle.raised = TRUE /\ cycle.tried = {}
                        \/ cycle.raised = FALSE /\ cycle.due \subseteq cycle.tried

LEMMA AliasList ==
  /\ Len(AliasSeq) \in Nat \ {0}
  /\ Scored = {AliasSeq[i] : i \in 1 .. Len(AliasSeq)}
  /\ \A a \in Aliases : \A q \in QuotesOf[a] : q # NoQuote
BY LoopAssumption DEF Scored

(* Going on after an asset that is served, or has no snapshot, keeps the   *)
(* loop's progress.                                                        *)
LEMMA AdvanceKeepsProgress ==
  ASSUME Progress, Advance, UNCHANGED snap, pc \in {"scoring", "setting", "adding"},
         cycle' = [cycle EXCEPT !.tried = cycle'.tried],
         cycle.tried \subseteq cycle'.tried,
         Current \in cycle.due => Current \in cycle'.tried
  PROVE  Progress'
<1>1. /\ Len(AliasSeq) \in Nat \ {0} /\ at \in 1 .. Len(AliasSeq)
      /\ cycle.raised = FALSE /\ Served(at - 1)
  BY AliasList DEF Progress, Shape
<1>2. /\ cycle'.due = cycle.due /\ cycle'.raised = FALSE
      /\ cycle' = [held |-> cycle'.held, due |-> cycle'.due,
                   tried |-> cycle'.tried, raised |-> cycle'.raised]
  BY <1>1 DEF Progress, Shape
<1>3. \A i \in 1 .. at : AliasSeq[i] \in cycle.due => AliasSeq[i] \in cycle'.tried
  <2> TAKE i \in 1 .. at
  <2>1. CASE i = at
    BY <2>1 DEF Current
  <2>2. CASE i # at
    <3>1. i \in 1 .. (at - 1)
      BY <1>1, <2>2
    <3> QED BY <1>1, <3>1 DEF Served
  <2> QED BY <2>1, <2>2
<1>4. \A a \in cycle'.due : snap'[a] # NoQuote
  BY <1>2 DEF Progress
<1>5. CASE ~AtLast
  <2>1. pc' = "scoring" /\ at' = at + 1 /\ at' \in 1 .. Len(AliasSeq)
    BY <1>1, <1>5 DEF Advance, AtLast
  <2>2. Served(at - 1)'
    BY <1>1, <1>2, <1>3, <2>1 DEF Served
  <2> QED BY <1>2, <1>4, <2>1, <2>2 DEF Progress, Shape
<1>6. CASE AtLast
  <2>1. pc' \in {"sleeping", "pyth"} /\ at' = 1 /\ at' \in 1 .. Len(AliasSeq)
    BY <1>1, <1>6 DEF Advance
  <2>2. cycle'.due \subseteq cycle'.tried
    BY <1>1, <1>2, <1>3, <1>6, AliasList DEF AtLast, Progress, Shape
  <2> QED BY <1>2, <1>4, <2>1, <2>2 DEF Progress, Shape
<1> QED BY <1>5, <1>6

LEMMA NewCycleProgress ==
  ASSUME Progress, BeginCycle, UNCHANGED snap
  PROVE  Progress'
<1>1. pc' = "reading" /\ at' = 1 /\ cycle' = NewCycle
  BY DEF BeginCycle
<1>2. /\ cycle'.due = {a \in Scored : snap[a] # NoQuote}
      /\ cycle'.tried = {} /\ cycle'.raised = FALSE
      /\ cycle' = [held |-> cycle'.held, due |-> cycle'.due,
                   tried |-> cycle'.tried, raised |-> cycle'.raised]
  BY <1>1 DEF NewCycle
<1> QED BY <1>1, <1>2, AliasList DEF Progress, Shape

LEMMA ProgressAlways == Spec => []Progress
<1>1. Init => Progress
  <2> SUFFICES ASSUME Init PROVE Progress
    OBVIOUS
  <2>1. pc = "reading" /\ at = 1 /\ cycle = NewCycle /\ DOMAIN snap = Aliases
    BY DEF Init
  <2>2. /\ cycle.due = {a \in Scored : snap[a] # NoQuote}
        /\ cycle.tried = {} /\ cycle.raised = FALSE
        /\ cycle = [held |-> cycle.held, due |-> cycle.due,
                    tried |-> cycle.tried, raised |-> cycle.raised]
    BY <2>1 DEF NewCycle
  <2> QED BY <2>1, <2>2, AliasList DEF Progress, Shape
<1>2. Progress /\ [Next]_vars => Progress'
  <2> SUFFICES ASSUME Progress, [Next]_vars PROVE Progress'
    OBVIOUS
  <2>1. ASSUME UNCHANGED <<at, snap, cycle>>,
               \/ pc' = pc
               \/ pc = "scoring" /\ pc' = "setting"
               \/ pc = "pyth" /\ pc' = "settingPyth"
               \/ pc \in {"pyth", "settingPyth"} /\ pc' \in {"pyth", "sleeping"}
               \/ pc = "sleeping" /\ pc' = "done"
        PROVE  Progress'
    BY <2>1 DEF Progress, Shape, Served, Current
  <2>2. CASE ReadPrice
    <3>1. /\ pc = "reading" /\ UNCHANGED <<snap, cycle>>
          /\ IF AtLast THEN pc' = "scoring" /\ at' = 1 ELSE at' = at + 1 /\ UNCHANGED pc
      BY <2>2 DEF ReadPrice
    <3>2. at' \in 1 .. Len(AliasSeq)
      BY <3>1, AliasList DEF AtLast, Progress, Shape
    <3>3. pc' = "scoring" => Served(at - 1)'
      BY <3>1 DEF Served
    <3> QED BY <3>1, <3>2, <3>3 DEF Progress, Shape
  <2>3. CASE ReadRaises
    <3>1. /\ pc' = "sleeping" /\ UNCHANGED <<at, snap>> /\ pc = "reading"
          /\ cycle' = [cycle EXCEPT !.raised = TRUE]
      BY <2>3 DEF ReadRaises, memory
    <3>2. /\ cycle'.due = cycle.due /\ cycle'.tried = cycle.tried /\ cycle'.raised = TRUE
          /\ cycle' = [held |-> cycle'.held, due |-> cycle'.due,
                       tried |-> cycle'.tried, raised |-> cycle'.raised]
      BY <3>1 DEF Progress, Shape
    <3> QED BY <3>1, <3>2 DEF Progress, Shape
  <2>4. CASE SkipAsset
    <3>1. Current \notin cycle.due
      BY <2>4 DEF SkipAsset, Progress
    <3>2. Advance /\ UNCHANGED <<snap, cycle>> /\ pc = "scoring"
      BY <2>4 DEF SkipAsset, memory
    <3>3. cycle' = [cycle EXCEPT !.tried = cycle'.tried]
      BY <3>2 DEF Progress, Shape
    <3> QED BY <3>1, <3>2, <3>3, AdvanceKeepsProgress
  <2>5. CASE ScoreAsset
    BY <2>1, <2>5 DEF ScoreAsset
  <2>6. ASSUME NEW outcome \in Outcomes, SetLatest(outcome) PROVE Progress'
    <3>1. /\ cycle' = [cycle EXCEPT !.tried = cycle.tried \cup {Current}]
          /\ UNCHANGED snap /\ pc = "setting"
      BY <2>6 DEF SetLatest, memory
    <3>2. /\ cycle'.tried = cycle.tried \cup {Current}
          /\ cycle'.due = cycle.due /\ cycle'.raised = cycle.raised
          /\ cycle' = [held |-> cycle'.held, due |-> cycle'.due,
                       tried |-> cycle'.tried, raised |-> cycle'.raised]
          /\ cycle' = [cycle EXCEPT !.tried = cycle'.tried]
      BY <3>1 DEF Progress, Shape
    <3>3. CASE IsSignal(out)
      <4>1. pc' = "adding" /\ UNCHANGED at
        BY <2>6, <3>3 DEF SetLatest
      <4>2. Served(at - 1)' /\ Current' = Current
        BY <3>1, <3>2, <4>1 DEF Progress, Served, Current
      <4> QED BY <3>1, <3>2, <4>1, <4>2 DEF Progress, Shape
    <3>4. CASE ~IsSignal(out)
      <4>1. Advance
        BY <2>6, <3>4 DEF SetLatest
      <4> QED BY <3>1, <3>2, <4>1, AdvanceKeepsProgress
    <3> QED BY <3>3, <3>4
  <2>7. ASSUME NEW outcome \in Outcomes, AddSignal(outcome) PROVE Progress'
    <3>1. Advance /\ UNCHANGED <<snap, cycle>> /\ pc = "adding"
      BY <2>7 DEF AddSignal, memory
    <3>2. cycle' = [cycle EXCEPT !.tried = cycle'.tried]
      BY <3>1 DEF Progress, Shape
    <3>3. Current \in cycle.tried
      BY <3>1 DEF Progress
    <3> QED BY <3>1, <3>2, <3>3, AdvanceKeepsProgress
  <2>8. ASSUME NEW outcome \in Outcomes, SetPyth(outcome) PROVE Progress'
    BY <2>1, <2>8 DEF SetPyth, Visited
  <2>9. ASSUME NEW a \in Aliases, SkipPyth(a) \/ SendPyth(a) PROVE Progress'
    BY <2>1, <2>9 DEF SkipPyth, SendPyth, Visited, memory
  <2>10. CASE Wake
    <3>1. CASE stop
      BY <2>1, <2>10, <3>1 DEF Wake
    <3>2. CASE ~stop
      BY <2>10, <3>2, NewCycleProgress DEF Wake
    <3> QED BY <3>1, <3>2
  <2>11. CASE SetStop \/ Tick
    BY <2>1, <2>11 DEF SetStop, Tick, control, memory
  <2>12. ASSUME NEW executed \in BOOLEAN, Crash(executed) PROVE Progress'
    <3>1. /\ pc' = "down" /\ at' = 1 /\ cycle' = NewCycle
          /\ snap' = [a \in Aliases |-> NoQuote]
      BY <2>12 DEF Crash
    <3>2. /\ cycle'.due \subseteq Scored
          /\ cycle' = [held |-> cycle'.held, due |-> cycle'.due,
                       tried |-> cycle'.tried, raised |-> cycle'.raised]
      BY <3>1 DEF NewCycle
    <3> QED BY <3>1, <3>2, AliasList DEF Progress, Shape
  <2>13. CASE Restart
    BY <2>13, NewCycleProgress DEF Restart
  <2>14. ASSUME NEW a \in Aliases, NEW q \in QuotesOf[a], PythUpdates(a, q) PROVE Progress'
    <3>1. /\ UNCHANGED <<pc, at, cycle>> /\ snap' = [snap EXCEPT ![a] = q]
      BY <2>14 DEF PythUpdates, control
    <3>2. DOMAIN snap' = Aliases /\ q # NoQuote
      BY <3>1, AliasList DEF Progress, Shape
    <3>3. \A b \in Aliases : snap[b] # NoQuote => snap'[b] # NoQuote
      BY <3>1, <3>2 DEF Progress, Shape
    <3>4. Scored \subseteq Aliases
      BY DEF Aliases
    <3> QED BY <3>1, <3>2, <3>3, <3>4 DEF Progress, Shape, Served, Current
  <2>15. ASSUME NEW a \in Scored, NEW v \in KeysOf[a], ChainlinkWrites(a, v) PROVE Progress'
    <3>1. /\ UNCHANGED <<pc, at, snap>>
          /\ cycle' = [cycle EXCEPT !.held = [cycle.held EXCEPT ![a] = cycle.held[a] \cup {v}]]
      BY <2>15 DEF ChainlinkWrites, control, memory
    <3>2. /\ UNCHANGED <<cycle.due, cycle.tried, cycle.raised>>
          /\ cycle' = [held |-> cycle'.held, due |-> cycle'.due,
                       tried |-> cycle'.tried, raised |-> cycle'.raised]
      BY <3>1 DEF Progress, Shape
    <3> QED BY <3>1, <3>2 DEF Progress, Shape, Served, Current
  <2>16. CASE UNCHANGED vars
    BY <2>1, <2>16 DEF vars, control, memory
  <2> QED
    BY <2>2, <2>3, <2>4, <2>5, <2>6, <2>7, <2>8, <2>9, <2>10, <2>11, <2>12, <2>13, <2>14,
       <2>15, <2>16 DEF Next
<1> QED BY <1>1, <1>2, PTL DEF Spec

(* A cycle scores every asset that had a snapshot when it began, or none:  *)
(* read_chainlink_prices comes before the first write, and the try blocks  *)
(* of publish_score keep one asset's failure from the others.              *)
THEOREM CyclesAreAllOrNothing == Spec => []AllOrNothing
<1>1. Progress => AllOrNothing
  BY DEF Progress, AllOrNothing
<1> QED BY <1>1, ProgressAlways, PTL

-----------------------------------------------------------------------------
(* What a signal on its way to the stream has left behind: between the SET *)
(* and the XADD the latest key holds it, or has expired, unless the SET    *)
(* went wrong.                                                             *)
PastShape ==
  /\ DOMAIN past = Aliases
  /\ \A a \in Aliases :
       /\ past[a] = [readings |-> past[a].readings, torn |-> past[a].torn,
                     misses |-> past[a].misses, acked |-> past[a].acked]
       /\ past[a].torn \in BOOLEAN

Announced ==
  pc = "adding" => /\ IsSignal(out)
                   /\ Current \in Scored /\ ~past[Current].torn => latest[Current] \in {out, NoScore}

Recorded ==
  /\ DOMAIN latest = Scored /\ DOMAIN stream = Scored
  /\ PastShape
  /\ Announced
  /\ SignalsOnRecord

LEMMA ScoredAreAliases == Scored \subseteq Aliases
BY DEF Aliases

(* A step that writes neither key and tears nothing *)
LEMMA QuietStepKeepsRecord ==
  ASSUME Recorded, UNCHANGED <<latest, stream>>, PastShape',
         \A a \in Aliases : past'[a].torn = past[a].torn,
         \/ pc # "adding" /\ pc' # "adding"
         \/ UNCHANGED <<pc, at, out>>
  PROVE  Recorded'
<1>1. Announced'
  BY ScoredAreAliases DEF Recorded, Announced, IsSignal, Current
<1>2. SignalsOnRecord'
  BY ScoredAreAliases DEF Recorded, SignalsOnRecord, Current
<1> QED BY <1>1, <1>2 DEF Recorded

LEMMA AdvanceDoesNotAdd ==
  ASSUME Advance PROVE pc' # "adding"
BY DEF Advance

LEMMA RecordedAlways == Spec => []Recorded
<1>1. Init => Recorded
  <2> SUFFICES ASSUME Init PROVE Recorded
    OBVIOUS
  <2>1. PastShape
    BY DEF Init, PastShape
  <2>2. /\ pc = "reading" /\ DOMAIN latest = Scored /\ DOMAIN stream = Scored
        /\ \A a \in Scored : latest[a] = NoScore /\ stream[a] = NoScore
    BY DEF Init
  <2> QED BY <2>1, <2>2 DEF Recorded, Announced, SignalsOnRecord
<1>2. Recorded /\ [Next]_vars => Recorded'
  <2> SUFFICES ASSUME Recorded, [Next]_vars PROVE Recorded'
    OBVIOUS
  <2> USE ScoredAreAliases
  <2>1. ASSUME UNCHANGED <<latest, stream, past>>,
               \/ pc # "adding" /\ pc' # "adding"
               \/ UNCHANGED <<pc, at, out>>
        PROVE  Recorded'
    BY <2>1, QuietStepKeepsRecord DEF Recorded, PastShape
  <2>2. CASE ReadPrice \/ ReadRaises
    BY <2>1, <2>2 DEF ReadPrice, ReadRaises, scores
  <2>3. CASE SkipAsset
    BY <2>1, <2>3, AdvanceDoesNotAdd DEF SkipAsset, scores
  <2>4. CASE ScoreAsset
    <3>1. /\ pc = "scoring" /\ pc' = "setting" /\ UNCHANGED <<latest, stream>>
          /\ past' = [past EXCEPT ![Current].readings = AtMost(MaxReadings, past[Current].readings + 1)]
      BY <2>4 DEF ScoreAsset, scores
    <3>2. PastShape' /\ \A a \in Aliases : past'[a].torn = past[a].torn
      BY <3>1 DEF Recorded, PastShape
    <3> QED BY <3>1, <3>2, QuietStepKeepsRecord
  <2>5. ASSUME NEW outcome \in Outcomes, SetLatest(outcome) PROVE Recorded'
    <3>1. /\ pc = "setting" /\ UNCHANGED stream
          /\ IF Executed(outcome) THEN latest' = [latest EXCEPT ![Current] = out]
                                  ELSE UNCHANGED latest
          /\ past' = [past EXCEPT
                        ![Current].torn = ~Executed(outcome) /\ (past[Current].torn \/ IsSignal(out)),
                        ![Current].misses = IF Executed(outcome) THEN 0 ELSE past[Current].misses]
      BY <2>5 DEF SetLatest, WriteLatest
    <3>2. Executed(outcome) \in BOOLEAN /\ IsSignal(out) \in BOOLEAN
      BY DEF Executed, IsSignal
    <3>3. /\ PastShape'
          /\ \A a \in Aliases :
               past'[a].torn = IF a = Current
                                 THEN ~Executed(outcome) /\ (past[a].torn \/ IsSignal(out))
                                 ELSE past[a].torn
      <4> DEFINE torn == ~Executed(outcome) /\ (past[Current].torn \/ IsSignal(out))
                 misses == IF Executed(outcome) THEN 0 ELSE past[Current].misses
      <4>1. past' = [past EXCEPT ![Current].torn = torn, ![Current].misses = misses]
        BY <3>1, Zenon DEF torn, misses
      <4>2. torn \in BOOLEAN
        BY <3>2
      <4> HIDE DEF torn, misses
      <4>3. PastShape' /\ \A a \in Aliases : past'[a].torn = IF a = Current THEN torn ELSE past[a].torn
        BY <4>1, <4>2 DEF Recorded, PastShape
      <4>4. torn = (~Executed(outcome) /\ (past[Current].torn \/ IsSignal(out)))
        BY Zenon DEF torn
      <4>5. ASSUME NEW a \in Aliases, a = Current
            PROVE  past'[a].torn = (~Executed(outcome) /\ (past[a].torn \/ IsSignal(out)))
        BY <4>3, <4>4, <4>5, Zenon
      <4> QED BY <4>3, <4>5, Zenon
    <3>4. /\ DOMAIN latest' = Scored
          /\ \A a \in Scored :
               latest'[a] = IF Executed(outcome) /\ a = Current THEN out ELSE latest[a]
      BY <3>1 DEF Recorded
    <3>5. CASE IsSignal(out)
      <4>1. pc' = "adding" /\ UNCHANGED <<at, out>> /\ Current' = Current
        BY <2>5, <3>5 DEF SetLatest, Current
      <4>2. Announced'
        BY <3>3, <3>4, <3>5, <4>1 DEF Announced, IsSignal
      <4>3. SignalsOnRecord'
        BY <3>1, <3>3, <3>4, <4>1 DEF SignalsOnRecord, Recorded
      <4> QED BY <3>1, <3>3, <3>4, <4>2, <4>3 DEF Recorded
    <3>6. CASE ~IsSignal(out)
      <4>1. pc' # "adding"
        BY <2>5, <3>6, AdvanceDoesNotAdd DEF SetLatest
      <4>2. SignalsOnRecord'
        BY <3>1, <3>3, <3>4, <3>6, <4>1 DEF SignalsOnRecord, Recorded, IsSignal
      <4> QED BY <3>1, <3>3, <3>4, <4>1, <4>2 DEF Recorded, Announced
    <3> QED BY <3>5, <3>6
  <2>6. ASSUME NEW outcome \in Outcomes, AddSignal(outcome) PROVE Recorded'
    <3>1. /\ pc = "adding" /\ pc' # "adding" /\ UNCHANGED latest
          /\ stream' = IF Executed(outcome) THEN [stream EXCEPT ![Current] = out] ELSE stream
          /\ past' = [past EXCEPT ![Current].torn = past[Current].torn \/ ~Executed(outcome)]
      BY <2>6, AdvanceDoesNotAdd DEF AddSignal
    <3>2. Executed(outcome) \in BOOLEAN
      BY DEF Executed
    <3>3. /\ PastShape'
          /\ \A a \in Aliases :
               past'[a].torn = IF a = Current THEN past[a].torn \/ ~Executed(outcome)
                                              ELSE past[a].torn
      <4> DEFINE torn == past[Current].torn \/ ~Executed(outcome)
      <4>1. past' = [past EXCEPT ![Current].torn = torn]
        BY <3>1, Zenon DEF torn
      <4>2. torn \in BOOLEAN
        BY <3>2
      <4> HIDE DEF torn
      <4>3. PastShape' /\ \A a \in Aliases : past'[a].torn = IF a = Current THEN torn ELSE past[a].torn
        BY <4>1, <4>2 DEF Recorded, PastShape
      <4>4. torn = (past[Current].torn \/ ~Executed(outcome))
        BY Zenon DEF torn
      <4>5. ASSUME NEW a \in Aliases, a = Current
            PROVE  past'[a].torn = (past[a].torn \/ ~Executed(outcome))
        BY <4>3, <4>4, <4>5, Zenon
      <4> QED BY <4>3, <4>5, Zenon
    <3>4. /\ DOMAIN stream' = Scored
          /\ \A a \in Scored :
               stream'[a] = IF Executed(outcome) /\ a = Current THEN out ELSE stream[a]
      BY <3>1 DEF Recorded
    <3>5. SignalsOnRecord'
      BY <3>1, <3>3, <3>4 DEF SignalsOnRecord, Recorded, Announced, IsSignal
    <3> QED BY <3>1, <3>3, <3>4, <3>5 DEF Recorded, Announced
  <2>7. ASSUME NEW outcome \in Outcomes, SetPyth(outcome) PROVE Recorded'
    <3>1. /\ pc = "settingPyth" /\ pc' # "adding" /\ UNCHANGED <<latest, stream>>
          /\ past' = [past EXCEPT ![out.asset].acked =
                        IF outcome = "ok" THEN AtMost(MinGap, flight) ELSE past[out.asset].acked]
      BY <2>7 DEF SetPyth, Visited, scores
    <3>2. PastShape' /\ \A a \in Aliases : past'[a].torn = past[a].torn
      BY <3>1 DEF Recorded, PastShape
    <3> QED BY <3>1, <3>2, QuietStepKeepsRecord
  <2>8. ASSUME NEW a \in Aliases, SkipPyth(a) \/ SendPyth(a) PROVE Recorded'
    BY <2>1, <2>8 DEF SkipPyth, SendPyth, Visited, scores
  <2>9. CASE Wake
    <3>1. CASE stop
      BY <2>1, <2>9, <3>1 DEF Wake, scores
    <3>2. CASE ~stop
      <4>1. /\ pc = "sleeping" /\ pc' = "reading" /\ UNCHANGED <<latest, stream>>
            /\ past' = [a \in Aliases |-> [past[a] EXCEPT !.misses = AtMost(MaxMisses, past[a].misses + 1)]]
        BY <2>9, <3>2 DEF Wake, BeginCycle, scores
      <4>2. PastShape' /\ \A a \in Aliases : past'[a].torn = past[a].torn
        BY <4>1 DEF Recorded, PastShape
      <4> QED BY <4>1, <4>2, QuietStepKeepsRecord
    <3> QED BY <3>1, <3>2
  <2>10. CASE SetStop
    BY <2>1, <2>10 DEF SetStop, control, scores
  <2>11. ASSUME NEW executed \in BOOLEAN, Crash(executed) PROVE Recorded'
    <3>1. /\ pc' = "down"
          /\ IF executed /\ pc = "setting" THEN latest' = [latest EXCEPT ![Current] = out]
                                           ELSE UNCHANGED latest
          /\ stream' = IF executed /\ pc = "adding" THEN [stream EXCEPT ![Current] = out] ELSE stream
      BY <2>11 DEF Crash, WriteLatest
    <3>2. IsSignal(out) \in BOOLEAN
      BY DEF IsSignal
    <3>3. /\ PastShape'
          /\ \A a \in Aliases :
               past'[a].torn = (past[a].torn \/ (pc \in {"setting", "adding"} /\ a = Current /\ IsSignal(out)))
      <4>1. past' = [a \in Aliases |->
              [readings |-> 0, misses |-> MaxMisses, acked |-> MinGap,
               torn |-> past[a].torn \/ (pc \in {"setting", "adding"} /\ a = Current /\ IsSignal(out))]]
        BY <2>11 DEF Crash
      <4> QED BY <3>2, <4>1 DEF PastShape, Recorded
    <3>4. /\ DOMAIN latest' = Scored /\ DOMAIN stream' = Scored
          /\ \A a \in Scored :
               /\ latest'[a] = IF executed /\ pc = "setting" /\ a = Current THEN out ELSE latest[a]
               /\ stream'[a] = IF executed /\ pc = "adding" /\ a = Current THEN out ELSE stream[a]
      BY <3>1 DEF Recorded
    <3>5. SignalsOnRecord'
      BY <3>1, <3>3, <3>4 DEF SignalsOnRecord, Recorded, Announced, IsSignal
    <3> QED BY <3>1, <3>3, <3>4, <3>5 DEF Recorded, Announced
  <2>12. CASE Restart
    BY <2>1, <2>12 DEF Restart, BeginCycle, scores
  <2>13. ASSUME NEW a \in Aliases, NEW q \in QuotesOf[a], PythUpdates(a, q) PROVE Recorded'
    BY <2>1, <2>13 DEF PythUpdates, control, scores
  <2>14. ASSUME NEW a \in Scored, NEW v \in KeysOf[a], ChainlinkWrites(a, v) PROVE Recorded'
    BY <2>1, <2>14 DEF ChainlinkWrites, control, scores
  <2>15. CASE Tick
    <3>1. /\ UNCHANGED <<pc, at, out, stream>>
          /\ latest' = [a \in Scored |-> IF ttl'[a] = 0 THEN NoScore ELSE latest[a]]
          /\ past' = [a \in Aliases |-> [past[a] EXCEPT !.acked = AtMost(MinGap, past[a].acked + 1)]]
      BY <2>15 DEF Tick
    <3>2. PastShape' /\ \A a \in Aliases : past'[a].torn = past[a].torn
      BY <3>1 DEF Recorded, PastShape
    <3>3. DOMAIN latest' = Scored /\ \A a \in Scored : latest'[a] \in {latest[a], NoScore}
      BY <3>1
    <3>4. Announced'
      BY <3>1, <3>2, <3>3 DEF Recorded, Announced, IsSignal, Current
    <3>5. SignalsOnRecord'
      BY <3>1, <3>2, <3>3 DEF Recorded, SignalsOnRecord, Current
    <3> QED BY <3>1, <3>2, <3>3, <3>4, <3>5 DEF Recorded
  <2>16. CASE UNCHANGED vars
    BY <2>1, <2>16 DEF vars, control, scores
  <2> QED
    BY <2>2, <2>3, <2>4, <2>5, <2>6, <2>7, <2>8, <2>9, <2>10, <2>11, <2>12, <2>13, <2>14,
       <2>15, <2>16 DEF Next
<1> QED BY <1>1, <1>2, PTL DEF Spec

(* Except while the XADD is pending, and unless one of the two writes went *)
(* wrong, the latest key and the stream agree on the last signal.          *)
THEOREM SignalsAreOnRecord == Spec => []SignalsOnRecord
<1>1. Recorded => SignalsOnRecord
  BY DEF Recorded
<1> QED BY <1>1, RecordedAlways, PTL

-----------------------------------------------------------------------------
(* The scoring loop is the task main gathers: no failure, crash or restart *)
(* makes it return before the stop event, and it returns once.             *)
THEOREM ScoringLoopIsTask == Spec => AbstractTask!Spec
<1>1. Init => AbstractTask!Init
  BY DEF Init, AbstractTask!Init
<1>2. [Next]_vars => [AbstractTask!Next]_AbstractTask!vars
  <2> SUFFICES ASSUME [Next]_vars PROVE [AbstractTask!Next]_AbstractTask!vars
    OBVIOUS
  <2> USE DEF AbstractTask!Next, AbstractTask!Signal, AbstractTask!Return, AbstractTask!vars
  <2>1. ASSUME pc # "done", pc' # "done", UNCHANGED stop
        PROVE  [AbstractTask!Next]_AbstractTask!vars
    BY <2>1
  <2>2. ASSUME UNCHANGED <<pc, stop>> PROVE [AbstractTask!Next]_AbstractTask!vars
    BY <2>2
  <2>3. CASE ReadPrice \/ ReadRaises \/ SkipAsset \/ ScoreAsset
    BY <2>1, <2>3 DEF ReadPrice, ReadRaises, SkipAsset, ScoreAsset, Advance
  <2>4. ASSUME NEW outcome \in Outcomes,
               SetLatest(outcome) \/ AddSignal(outcome) \/ SetPyth(outcome)
        PROVE  [AbstractTask!Next]_AbstractTask!vars
    BY <2>1, <2>4 DEF SetLatest, AddSignal, SetPyth, Advance, Visited
  <2>5. ASSUME NEW a \in Aliases, SkipPyth(a) \/ SendPyth(a)
        PROVE  [AbstractTask!Next]_AbstractTask!vars
    BY <2>1, <2>5 DEF SkipPyth, SendPyth, Visited
  <2>6. CASE Wake
    BY <2>6 DEF Wake, BeginCycle
  <2>7. CASE SetStop
    BY <2>7 DEF SetStop, control
  <2>8. ASSUME NEW executed \in BOOLEAN, Crash(executed)
        PROVE  [AbstractTask!Next]_AbstractTask!vars
    BY <2>1, <2>8 DEF Crash
  <2>9. CASE Restart
    BY <2>1, <2>9 DEF Restart, BeginCycle
  <2>10. ASSUME NEW a \in Aliases, NEW q \in QuotesOf[a], PythUpdates(a, q)
         PROVE  [AbstractTask!Next]_AbstractTask!vars
    BY <2>2, <2>10 DEF PythUpdates, control
  <2>11. ASSUME NEW a \in Scored, NEW v \in KeysOf[a], ChainlinkWrites(a, v)
         PROVE  [AbstractTask!Next]_AbstractTask!vars
    BY <2>2, <2>11 DEF ChainlinkWrites, control
  <2>12. CASE Tick
    BY <2>2, <2>12 DEF Tick
  <2>13. CASE UNCHANGED vars
    BY <2>2, <2>13 DEF vars, control
  <2> QED
    BY <2>3, <2>4, <2>5, <2>6, <2>7, <2>8, <2>9, <2>10, <2>11, <2>12, <2>13 DEF Next
<1> QED BY <1>1, <1>2, PTL DEF Spec, AbstractTask!Spec

-----------------------------------------------------------------------------
(* The expiry of the latest key against the cycles that do not write it,   *)
(* for every interval, every length of a cycle and every list of assets.   *)
LEMMA PeriodType == Period \in Nat \ {0} /\ Interval <= Period /\ MaxCycle <= Period
BY LoopAssumption DEF Period, AtLeast

LEMMA TtlType == LatestTtl \in Nat \ {0} /\ LatestTtl >= 5 * Interval
BY LoopAssumption DEF LatestTtl, AtLeast

(* What an asset's expiry has lost since its key was written: at most a    *)
(* period for each cycle begun since, and what has passed of this one.     *)
Covered(a) ==
  past[a].misses < MaxMisses => ttl[a] + past[a].misses * Period + elapsed >= LatestTtl

Bridged ==
  /\ elapsed \in Nat /\ elapsed <= Period
  /\ DOMAIN ttl = Scored
  /\ \A a \in Scored : ttl[a] \in Nat /\ past[a].misses \in Nat
  /\ pc = "down" => \A a \in Scored : past[a].misses = MaxMisses
  /\ pc # "done" => \A a \in Scored : Covered(a)

(* A step that neither takes time nor writes a latest key *)
LEMMA QuietStepBridges ==
  ASSUME Bridged, UNCHANGED <<ttl, elapsed>>,
         \A a \in Scored : past'[a].misses = past[a].misses,
         pc # "done" \/ pc' = "done", pc' # "down" \/ pc = "down"
  PROVE  Bridged'
BY DEF Bridged, Covered

LEMMA BridgedStep == PastShape /\ Bridged /\ [Next]_vars => Bridged'
<1> SUFFICES ASSUME PastShape, Bridged, [Next]_vars PROVE Bridged'
  OBVIOUS
<1> USE ScoredAreAliases
<1>1. ASSUME UNCHANGED <<ttl, elapsed, past>>, pc # "done" \/ pc' = "done", pc' # "down" \/ pc = "down"
      PROVE  Bridged'
  BY <1>1, QuietStepBridges
<1>2. CASE ReadPrice \/ ReadRaises
  BY <1>1, <1>2 DEF ReadPrice, ReadRaises, scores
<1>3. CASE SkipAsset
  BY <1>1, <1>3 DEF SkipAsset, Advance, scores
<1>4. CASE ScoreAsset
  <2>1. /\ UNCHANGED <<ttl, elapsed>> /\ pc = "scoring" /\ pc' = "setting"
        /\ past' = [past EXCEPT ![Current].readings = AtMost(MaxReadings, past[Current].readings + 1)]
    BY <1>4 DEF ScoreAsset, scores
  <2>2. \A a \in Scored : past'[a].misses = past[a].misses
    BY <2>1 DEF PastShape
  <2> QED BY <2>1, <2>2, QuietStepBridges
<1>5. ASSUME NEW outcome \in Outcomes, SetLatest(outcome) PROVE Bridged'
  <2>1. /\ pc = "setting" /\ pc' \notin {"done", "down"} /\ UNCHANGED elapsed
        /\ ttl' = IF Executed(outcome) THEN [ttl EXCEPT ![Current] = LatestTtl] ELSE ttl
        /\ past' = [past EXCEPT
                      ![Current].torn = ~Executed(outcome) /\ (past[Current].torn \/ IsSignal(out)),
                      ![Current].misses = IF Executed(outcome) THEN 0 ELSE past[Current].misses]
    BY <1>5 DEF SetLatest, WriteLatest, Advance
  <2>2. Executed(outcome) \in BOOLEAN
    BY DEF Executed
  <2>3. \A a \in Scored : past'[a].misses = IF Executed(outcome) /\ a = Current THEN 0
                                            ELSE past[a].misses
    <3> DEFINE torn == ~Executed(outcome) /\ (past[Current].torn \/ IsSignal(out))
    <3>1. past' = [past EXCEPT ![Current].torn = torn,
                     ![Current].misses = IF Executed(outcome) THEN 0 ELSE past[Current].misses]
      BY <2>1, Zenon DEF torn
    <3> HIDE DEF torn
    <3> QED BY <3>1, <2>2 DEF PastShape
  <2>4. \A a \in Scored : ttl'[a] = IF Executed(outcome) /\ a = Current THEN LatestTtl ELSE ttl[a]
    BY <2>1, <2>2 DEF Bridged
  <2>5. DOMAIN ttl' = Scored /\ \A a \in Scored : ttl'[a] \in Nat /\ past'[a].misses \in Nat
    <3>1. DOMAIN ttl' = Scored
      BY <2>1, <2>2 DEF Bridged
    <3>2. ASSUME NEW a \in Scored PROVE ttl'[a] \in Nat /\ past'[a].misses \in Nat
      BY <2>3, <2>4, TtlType, <3>2 DEF Bridged
    <3> QED BY <3>1, <3>2
  <2>6. ASSUME NEW a \in Scored PROVE Covered(a)'
    <3>1. CASE Executed(outcome) /\ a = Current
      <4>1. ttl'[a] = LatestTtl /\ past'[a].misses = 0 /\ elapsed' = elapsed /\ Period \in Nat
        BY <2>1, <2>3, <2>4, <3>1, PeriodType
      <4>2. past'[a].misses * Period = 0
        BY <4>1
      <4> QED BY <4>1, <4>2, TtlType DEF Covered, Bridged, Period
    <3>2. CASE ~(Executed(outcome) /\ a = Current)
      BY <2>1, <2>3, <2>4, <3>2 DEF Covered, Bridged
    <3> QED BY <3>1, <3>2
  <2> QED BY <2>1, <2>5, <2>6 DEF Bridged
<1>6. ASSUME NEW outcome \in Outcomes, AddSignal(outcome) PROVE Bridged'
  <2>1. /\ pc = "adding" /\ pc' \notin {"done", "down"} /\ UNCHANGED <<ttl, elapsed>>
        /\ past' = [past EXCEPT ![Current].torn = past[Current].torn \/ ~Executed(outcome)]
    BY <1>6 DEF AddSignal, Advance
  <2>2. \A a \in Scored : past'[a].misses = past[a].misses
    <3> DEFINE torn == past[Current].torn \/ ~Executed(outcome)
    <3>1. past' = [past EXCEPT ![Current].torn = torn]
      BY <2>1, Zenon DEF torn
    <3> HIDE DEF torn
    <3> QED BY <3>1 DEF PastShape
  <2> QED BY <2>1, <2>2, QuietStepBridges
<1>7. ASSUME NEW a \in Aliases, SkipPyth(a) \/ SendPyth(a) PROVE Bridged'
  BY <1>1, <1>7 DEF SkipPyth, SendPyth, Visited, scores
<1>8. ASSUME NEW outcome \in Outcomes, SetPyth(outcome) PROVE Bridged'
  <2>1. /\ pc = "settingPyth" /\ pc' \notin {"done", "down"} /\ UNCHANGED <<ttl, elapsed>>
        /\ past' = [past EXCEPT ![out.asset].acked =
                      IF outcome = "ok" THEN AtMost(MinGap, flight) ELSE past[out.asset].acked]
    BY <1>8 DEF SetPyth, Visited, scores
  <2>2. \A a \in Scored : past'[a].misses = past[a].misses
    BY <2>1 DEF PastShape
  <2> QED BY <2>1, <2>2, QuietStepBridges
<1>9. CASE Wake
  <2>1. CASE stop
    BY <1>9, <2>1 DEF Wake, scores, Bridged
  <2>2. CASE ~stop
    <3>1. /\ pc = "sleeping" /\ pc' = "reading" /\ elapsed' = 0 /\ UNCHANGED ttl
          /\ past' = [a \in Aliases |->
                        [past[a] EXCEPT !.misses = AtMost(MaxMisses, past[a].misses + 1)]]
      BY <1>9, <2>2 DEF Wake, BeginCycle, scores
    <3>2. \A a \in Scored : past'[a].misses = AtMost(MaxMisses, past[a].misses + 1)
      BY <3>1 DEF PastShape
    <3>3. ASSUME NEW a \in Scored PROVE past'[a].misses \in Nat /\ Covered(a)'
      <4> DEFINE m == past[a].misses
      <4>1. m \in Nat /\ ttl[a] \in Nat /\ MaxMisses \in Nat /\ Covered(a)
        BY <3>1, LoopAssumption DEF Bridged
      <4>2. m * Period \in Nat /\ (m + 1) * Period = m * Period + Period
        BY <4>1, PeriodType, OneMore
      <4>3. past'[a].misses \in Nat
        BY <3>2, <4>1 DEF AtMost
      <4>4. CASE m + 1 < MaxMisses
        <5>1. past'[a].misses = m + 1
          BY <3>2, <4>4 DEF AtMost
        <5>2. ttl[a] + m * Period + elapsed >= LatestTtl
          BY <4>1, <4>4 DEF Covered
        <5>3. ttl'[a] + past'[a].misses * Period + elapsed' >= LatestTtl
          <6>1. past'[a].misses * Period = m * Period + Period
            BY <4>2, <5>1
          <6> HIDE DEF m
          <6> QED BY <3>1, <4>1, <4>2, <5>2, <6>1, PeriodType, TtlType DEF Bridged
        <5> QED BY <4>3, <5>3 DEF Covered, Period, LatestTtl
      <4>5. CASE ~(m + 1 < MaxMisses)
        BY <3>2, <4>1, <4>3, <4>5 DEF AtMost, Covered
      <4> QED BY <4>4, <4>5, <4>3
    <3>4. /\ DOMAIN ttl' = Scored /\ elapsed' \in Nat /\ elapsed' <= Period
          /\ \A a \in Scored : ttl'[a] \in Nat
      BY <3>1, PeriodType DEF Bridged
    <3>5. pc' # "down"
      BY <3>1
    <3> QED BY <3>3, <3>4, <3>5 DEF Bridged
  <2> QED BY <2>1, <2>2
<1>10. CASE SetStop
  BY <1>1, <1>10 DEF SetStop, control, scores
<1>11. ASSUME NEW executed \in BOOLEAN, Crash(executed) PROVE Bridged'
  <2>1. /\ pc' = "down" /\ elapsed' = 0
        /\ ttl' = IF executed /\ pc = "setting" THEN [ttl EXCEPT ![Current] = LatestTtl] ELSE ttl
        /\ \A a \in Scored : past'[a].misses = MaxMisses
    BY <1>11 DEF Crash, WriteLatest
  <2>2. DOMAIN ttl' = Scored /\ \A a \in Scored : ttl'[a] \in Nat
    BY <2>1, TtlType DEF Bridged
  <2>3. MaxMisses \in Nat
    BY LoopAssumption
  <2> QED BY <2>1, <2>2, <2>3, PeriodType DEF Bridged, Covered
<1>12. CASE Restart
  <2>1. pc = "down" /\ pc' = "reading" /\ elapsed' = 0 /\ UNCHANGED <<ttl, past>>
    BY <1>12 DEF Restart, BeginCycle, scores
  <2>2. MaxMisses \in Nat
    BY LoopAssumption
  <2> QED BY <2>1, <2>2, PeriodType DEF Bridged, Covered
<1>13. ASSUME NEW a \in Aliases, NEW q \in QuotesOf[a], PythUpdates(a, q) PROVE Bridged'
  BY <1>1, <1>13 DEF PythUpdates, control, scores
<1>14. ASSUME NEW a \in Scored, NEW v \in KeysOf[a], ChainlinkWrites(a, v) PROVE Bridged'
  BY <1>1, <1>14 DEF ChainlinkWrites, control, scores
<1>15. CASE Tick
  <2>1. /\ UNCHANGED pc
        /\ elapsed' = IF pc \in {"down", "done"} THEN elapsed ELSE elapsed + 1
        /\ ttl' = [a \in Scored |-> AtLeast(0, ttl[a] - 1)]
        /\ past' = [a \in Aliases |-> [past[a] EXCEPT !.acked = AtMost(MinGap, past[a].acked + 1)]]
    BY <1>15 DEF Tick
  <2>2. \A a \in Scored : past'[a].misses = past[a].misses
    BY <2>1 DEF PastShape
  <2>3. elapsed' \in Nat /\ elapsed' <= Period
    BY <1>15, <2>1, PeriodType, LoopAssumption DEF Tick, TimeMayPass, Bridged
  <2>4. \A a \in Scored : ttl'[a] \in Nat /\ ttl'[a] + 1 >= ttl[a]
    BY <2>1 DEF Bridged, AtLeast
  <2>5. ASSUME NEW a \in Scored, pc \notin {"down", "done"} PROVE Covered(a)'
    <3>1. Covered(a) /\ past[a].misses \in Nat /\ ttl[a] \in Nat /\ elapsed' = elapsed + 1
      BY <2>1, <2>5 DEF Bridged
    <3>2. past[a].misses * Period \in Nat
      BY <3>1, PeriodType, OneMore
    <3>3. past[a].misses < MaxMisses =>
            ttl'[a] + past[a].misses * Period + elapsed' >= LatestTtl
      <4> DEFINE gone == past[a].misses * Period
      <4>1. gone \in Nat /\ (past[a].misses < MaxMisses => ttl[a] + gone + elapsed >= LatestTtl)
        BY <3>1, <3>2 DEF Covered
      <4> HIDE DEF gone
      <4>2. past[a].misses < MaxMisses => ttl'[a] + gone + elapsed' >= LatestTtl
        BY <2>4, <3>1, <4>1, TtlType DEF Bridged
      <4> QED BY <4>2 DEF gone
    <3> QED BY <2>2, <3>3 DEF Covered, Period, LatestTtl
  <2>6. ASSUME NEW a \in Scored, pc = "down" PROVE Covered(a)'
    BY <2>2, <2>6, LoopAssumption DEF Covered, Bridged
  <2> QED BY <2>1, <2>2, <2>3, <2>4, <2>5, <2>6 DEF Bridged
<1>16. CASE UNCHANGED vars
  BY <1>1, <1>16 DEF vars, control, scores
<1> QED
  BY <1>2, <1>3, <1>4, <1>5, <1>6, <1>7, <1>8, <1>9, <1>10, <1>11, <1>12, <1>13, <1>14,
     <1>15, <1>16 DEF Next

(* "A TTL of 5x the cycle interval so consumers know the score is stale":  *)
(* provided the cycles counted are enough to see it, the latest key        *)
(* outlives AbsorbedMisses cycles that do not write it.                    *)
THEOREM LatestOutlives == AbsorbedMisses < MaxMisses /\ Spec => []LatestOutlivesFailures
<1>1. Init => Bridged
  <2> SUFFICES ASSUME Init PROVE Bridged
    OBVIOUS
  <2>1. /\ elapsed = 0 /\ DOMAIN ttl = Scored /\ pc = "reading"
        /\ \A a \in Scored : ttl[a] = 0 /\ past[a].misses = MaxMisses
    BY ScoredAreAliases DEF Init
  <2>2. MaxMisses \in Nat
    BY LoopAssumption
  <2> QED BY <2>1, <2>2, PeriodType DEF Bridged, Covered
<1>2. AbsorbedMisses < MaxMisses /\ Bridged => LatestOutlivesFailures
  <2> SUFFICES ASSUME AbsorbedMisses < MaxMisses, Bridged, pc \notin {"down", "done"},
                      NEW a \in Scored, past[a].misses <= AbsorbedMisses
               PROVE  ttl[a] > 0
    BY DEF LatestOutlivesFailures
  <2> DEFINE m == past[a].misses
  <2>1. m \in Nat /\ ttl[a] \in Nat /\ Interval \in Nat /\ MaxMisses \in Nat
    BY LoopAssumption DEF Bridged
  <2>2. (m + 1) * Period <= 5 * Interval - 1 /\ AbsorbedMisses \in Int
    BY <2>1, PeriodType, WholeTimes DEF AbsorbedMisses
  <2>3. ttl[a] + m * Period + elapsed >= LatestTtl
    BY <2>1, <2>2 DEF Bridged, Covered
  <2>4. (m + 1) * Period = m * Period + Period /\ m * Period \in Nat
    BY <2>1, PeriodType, OneMore
  <2> HIDE DEF m
  <2> QED BY <2>1, <2>2, <2>3, <2>4, PeriodType, TtlType DEF Bridged
<1>3. Recorded => PastShape
  BY DEF Recorded
<1> DEFINE Counted == AbsorbedMisses < MaxMisses /\ Bridged
<1>4. AbsorbedMisses < MaxMisses /\ Init => Counted
  BY <1>1
<1>5. PastShape /\ Counted /\ [Next]_vars => Counted'
  BY BridgedStep
<1>6. Counted => LatestOutlivesFailures
  BY <1>2
<1> HIDE DEF Counted
<1> QED BY <1>3, <1>4, <1>5, <1>6, RecordedAlways, PTL DEF Spec

-----------------------------------------------------------------------------
(* The loop's clocks.  The ticks of a working cycle are bounded, those of  *)
(* the Pyth write in progress are some of them, and the throttle's clock   *)
(* is that of the last acknowledged write.                                 *)
Working == {"reading", "scoring", "setting", "adding", "pyth", "settingPyth"}

Clocks ==
  /\ elapsed \in Nat /\ flight \in Nat /\ flight <= elapsed
  /\ elapsed <= AtLeast(Interval, MaxCycle)
  /\ pc \in Working => elapsed <= MaxCycle
  /\ pc # "settingPyth" => flight = 0
  /\ DOMAIN since = Aliases
  /\ \A a \in Aliases : since[a] \in 0 .. MinGap /\ past[a].acked = since[a]

LEMMA TimesAreNatural ==
  /\ Interval \in Nat /\ MinGap \in Nat /\ MaxCycle \in Nat /\ MaxMisses \in Nat
  /\ AtLeast(Interval, MaxCycle) \in Nat /\ MaxCycle <= AtLeast(Interval, MaxCycle)
  /\ Interval <= AtLeast(Interval, MaxCycle)
BY LoopAssumption DEF AtLeast

(* A step that takes no time and acknowledges no Pyth write *)
LEMMA QuietStepKeepsClocks ==
  ASSUME Clocks, UNCHANGED <<elapsed, flight, since>>,
         \A a \in Aliases : past'[a].acked = past[a].acked,
         \/ pc' = pc
         \/ pc # "settingPyth" /\ (pc' \in Working => pc \in Working)
  PROVE  Clocks'
BY DEF Clocks

LEMMA ClocksStep == PastShape /\ Clocks /\ [Next]_vars => Clocks'
<1> SUFFICES ASSUME PastShape, Clocks, [Next]_vars PROVE Clocks'
  OBVIOUS
<1> USE TimesAreNatural
<1>1. ASSUME UNCHANGED <<elapsed, flight, since, past>>,
             \/ pc' = pc
             \/ pc # "settingPyth" /\ (pc' \in Working => pc \in Working)
      PROVE  Clocks'
  BY <1>1, QuietStepKeepsClocks
<1>2. CASE ReadPrice \/ ReadRaises
  BY <1>1, <1>2 DEF ReadPrice, ReadRaises, memory, Working
<1>3. CASE SkipAsset
  BY <1>1, <1>3 DEF SkipAsset, memory, Working
<1>4. CASE ScoreAsset
  <2>1. /\ UNCHANGED <<elapsed, flight, since>> /\ pc = "scoring"
        /\ past' = [past EXCEPT ![Current].readings = AtMost(MaxReadings, past[Current].readings + 1)]
    BY <1>4 DEF ScoreAsset
  <2>2. \A a \in Aliases : past'[a].acked = past[a].acked
    BY <2>1 DEF PastShape
  <2> QED BY <2>1, <2>2, QuietStepKeepsClocks DEF Working
<1>5. ASSUME NEW outcome \in Outcomes, SetLatest(outcome) PROVE Clocks'
  <2> DEFINE torn == ~Executed(outcome) /\ (past[Current].torn \/ IsSignal(out))
  <2>1. /\ UNCHANGED <<elapsed, flight, since>> /\ pc = "setting"
        /\ past' = [past EXCEPT ![Current].torn = torn,
                      ![Current].misses = IF Executed(outcome) THEN 0 ELSE past[Current].misses]
    BY <1>5, Zenon DEF SetLatest, memory, torn
  <2> HIDE DEF torn
  <2>2. \A a \in Aliases : past'[a].acked = past[a].acked
    BY <2>1 DEF PastShape
  <2> QED BY <2>1, <2>2, QuietStepKeepsClocks DEF Working
<1>6. ASSUME NEW outcome \in Outcomes, AddSignal(outcome) PROVE Clocks'
  <2> DEFINE torn == past[Current].torn \/ ~Executed(outcome)
  <2>1. /\ UNCHANGED <<elapsed, flight, since>> /\ pc = "adding"
        /\ past' = [past EXCEPT ![Current].torn = torn]
    BY <1>6, Zenon DEF AddSignal, memory, torn
  <2> HIDE DEF torn
  <2>2. \A a \in Aliases : past'[a].acked = past[a].acked
    BY <2>1 DEF PastShape
  <2> QED BY <2>1, <2>2, QuietStepKeepsClocks DEF Working
<1>7. ASSUME NEW a \in Aliases, SkipPyth(a) PROVE Clocks'
  BY <1>1, <1>7 DEF SkipPyth, memory, Working
<1>8. ASSUME NEW a \in Aliases, SendPyth(a) PROVE Clocks'
  BY <1>8 DEF SendPyth, memory, Clocks, Working
<1>9. ASSUME NEW outcome \in Outcomes, SetPyth(outcome) PROVE Clocks'
  <2>1. /\ pc = "settingPyth" /\ pc' \in {"sleeping", "pyth"} /\ flight' = 0 /\ UNCHANGED elapsed
        /\ since' = IF outcome = "ok" THEN [since EXCEPT ![out.asset] = AtMost(MinGap, flight)] ELSE since
        /\ past' = [past EXCEPT ![out.asset].acked =
                      IF outcome = "ok" THEN AtMost(MinGap, flight) ELSE past[out.asset].acked]
    BY <1>9 DEF SetPyth, Stamps, Visited
  <2>2. AtMost(MinGap, flight) \in 0 .. MinGap
    BY DEF AtMost, Clocks
  <2>3. \A a \in Aliases :
          /\ since'[a] = IF outcome = "ok" /\ a = out.asset THEN AtMost(MinGap, flight) ELSE since[a]
          /\ past'[a].acked = IF outcome = "ok" /\ a = out.asset THEN AtMost(MinGap, flight)
                              ELSE past[a].acked
    BY <2>1 DEF Clocks, PastShape
  <2>4. DOMAIN since' = Aliases
    BY <2>1 DEF Clocks
  <2> HIDE DEF AtMost
  <2> QED BY <2>1, <2>2, <2>3, <2>4 DEF Clocks, Working
<1>10. CASE Wake
  <2>1. CASE stop
    BY <1>1, <1>10, <2>1 DEF Wake, Working
  <2>2. CASE ~stop
    <3>1. /\ pc = "sleeping" /\ pc' = "reading" /\ elapsed' = 0 /\ UNCHANGED <<flight, since>>
          /\ past' = [a \in Aliases |->
                        [past[a] EXCEPT !.misses = AtMost(MaxMisses, past[a].misses + 1)]]
      BY <1>10, <2>2 DEF Wake, BeginCycle
    <3>2. \A a \in Aliases : past'[a].acked = past[a].acked
      BY <3>1 DEF PastShape
    <3> QED BY <3>1, <3>2 DEF Clocks
  <2> QED BY <2>1, <2>2
<1>11. CASE SetStop
  BY <1>1, <1>11 DEF SetStop, control, memory
<1>12. ASSUME NEW executed \in BOOLEAN, Crash(executed) PROVE Clocks'
  <2>1. /\ pc' = "down" /\ elapsed' = 0 /\ flight' = 0
        /\ since' = [a \in Aliases |-> MinGap]
        /\ \A a \in Aliases : past'[a].acked = MinGap
    BY <1>12 DEF Crash
  <2> QED BY <2>1 DEF Clocks, Working
<1>13. CASE Restart
  <2>1. pc = "down" /\ pc' = "reading" /\ elapsed' = 0 /\ UNCHANGED <<flight, since, past>>
    BY <1>13 DEF Restart, BeginCycle
  <2> QED BY <2>1 DEF Clocks
<1>14. ASSUME NEW a \in Aliases, NEW q \in QuotesOf[a], PythUpdates(a, q) PROVE Clocks'
  BY <1>1, <1>14 DEF PythUpdates, control
<1>15. ASSUME NEW a \in Scored, NEW v \in KeysOf[a], ChainlinkWrites(a, v) PROVE Clocks'
  BY <1>1, <1>15 DEF ChainlinkWrites, control, memory
<1>16. CASE Tick
  <2>1. /\ UNCHANGED pc
        /\ elapsed' = IF pc \in {"down", "done"} THEN elapsed ELSE elapsed + 1
        /\ flight' = IF pc = "settingPyth" THEN flight + 1 ELSE flight
        /\ since' = [a \in Aliases |-> AtMost(MinGap, since[a] + 1)]
        /\ past' = [a \in Aliases |-> [past[a] EXCEPT !.acked = AtMost(MinGap, past[a].acked + 1)]]
    BY <1>16 DEF Tick
  <2>2. \A a \in Aliases : past'[a].acked = AtMost(MinGap, past[a].acked + 1)
    BY <2>1 DEF PastShape
  <2>3. ASSUME NEW a \in Aliases PROVE since'[a] \in 0 .. MinGap /\ past'[a].acked = since'[a]
    <3>1. since[a] \in 0 .. MinGap /\ past[a].acked = since[a]
      BY DEF Clocks
    <3>2. AtMost(MinGap, since[a] + 1) \in 0 .. MinGap
      BY <3>1 DEF AtMost
    <3>3. since'[a] = AtMost(MinGap, since[a] + 1) /\ past'[a].acked = AtMost(MinGap, past[a].acked + 1)
      BY <2>1, <2>2
    <3> QED BY <3>1, <3>2, <3>3
  <2>4. /\ elapsed' \in Nat /\ elapsed' <= AtLeast(Interval, MaxCycle)
        /\ pc \in Working => elapsed' <= MaxCycle
    <3>1. CASE pc \in {"down", "done"}
      BY <2>1, <3>1 DEF Clocks, Working
    <3>2. CASE pc = "sleeping"
      <4>1. elapsed < Interval
        BY <1>16, <3>2 DEF Tick, TimeMayPass
      <4> QED BY <2>1, <3>2, <4>1 DEF Clocks, Working
    <3>3. CASE pc \notin {"down", "done", "sleeping"}
      <4>1. elapsed < MaxCycle
        BY <1>16, <3>3 DEF Tick, TimeMayPass
      <4> QED BY <2>1, <3>3, <4>1 DEF Clocks
    <3> QED BY <3>1, <3>2, <3>3
  <2>5. flight' \in Nat /\ flight' <= elapsed' /\ (pc # "settingPyth" => flight' = 0)
    BY <2>1 DEF Clocks
  <2>6. DOMAIN since' = Aliases
    BY <2>1
  <2> HIDE DEF AtLeast
  <2> QED BY <2>1, <2>3, <2>4, <2>5, <2>6 DEF Clocks
<1>17. CASE UNCHANGED vars
  BY <1>1, <1>17 DEF vars, control, memory
<1> QED
  BY <1>2, <1>3, <1>4, <1>5, <1>6, <1>7, <1>8, <1>9, <1>10, <1>11, <1>12, <1>13, <1>14,
     <1>15, <1>16, <1>17 DEF Next

LEMMA ClocksAlways == Spec => []Clocks
<1>1. Init => Clocks
  <2> SUFFICES ASSUME Init PROVE Clocks
    OBVIOUS
  <2>1. /\ elapsed = 0 /\ flight = 0 /\ since = [a \in Aliases |-> MinGap]
        /\ \A a \in Aliases : past[a].acked = MinGap
    BY DEF Init
  <2> QED BY <2>1, TimesAreNatural DEF Clocks
<1>2. Recorded => PastShape
  BY DEF Recorded
<1> QED BY <1>1, <1>2, ClocksStep, RecordedAlways, PTL DEF Spec

-----------------------------------------------------------------------------
(* Where the loop is, what it carries and what the snapshot and the Pyth   *)
(* keys hold.  A snapshot, once there, stays until the process dies, so an *)
(* asset the Pyth loop has still to visit has one.                         *)
MaybeQuote(a) == QuotesOf[a] \cup {NoQuote}

Places ==
  /\ pc \in Working \cup {"sleeping", "done", "down"}
  /\ at \in 1 .. Len(AliasSeq)
  /\ stop \in BOOLEAN
  /\ DOMAIN snap = Aliases /\ DOMAIN pythKey = Aliases
  /\ \A a \in Aliases : snap[a] \in MaybeQuote(a) /\ pythKey[a] \in MaybeQuote(a)
  /\ left \subseteq Aliases /\ \A a \in left : snap[a] # NoQuote
  /\ pc = "settingPyth" => out.asset \in left /\ out.quote \in QuotesOf[out.asset]
  /\ pc \notin {"setting", "adding", "settingPyth"} => out = NoScore

LEMMA QuietStepKeepsPlaces ==
  ASSUME Places, UNCHANGED <<at, left, out, stop, snap, pythKey>>,
         \/ pc' = pc
         \/ pc \notin {"setting", "adding", "settingPyth"}
            /\ pc' \in {"reading", "scoring", "pyth", "sleeping", "done"}
  PROVE  Places'
BY DEF Places, Working

LEMMA AdvanceKeepsPlaces ==
  ASSUME Places, Advance, pc \in {"scoring", "setting", "adding"}, UNCHANGED <<stop, snap, pythKey>>
  PROVE  Places'
<1>1. /\ out' = NoScore /\ pc' \in {"scoring", "pyth", "sleeping"}
      /\ left' \subseteq Aliases /\ \A a \in left' : snap[a] # NoQuote
  BY DEF Advance
<1>2. at' \in 1 .. Len(AliasSeq)
  BY AliasList DEF Advance, AtLast, Places
<1> QED BY <1>1, <1>2 DEF Places, Working

LEMMA PlacesStep == Places /\ [Next]_vars => Places'
<1> SUFFICES ASSUME Places, [Next]_vars PROVE Places'
  OBVIOUS
<1>1. CASE ReadPrice
  <2>1. /\ UNCHANGED <<left, out, stop, snap, pythKey>> /\ pc = "reading"
        /\ IF AtLast THEN pc' = "scoring" /\ at' = 1 ELSE at' = at + 1 /\ UNCHANGED pc
    BY <1>1 DEF ReadPrice
  <2>2. at' \in 1 .. Len(AliasSeq)
    BY <2>1, AliasList DEF AtLast, Places
  <2> QED BY <2>1, <2>2 DEF Places, Working
<1>2. CASE ReadRaises
  BY <1>2, QuietStepKeepsPlaces DEF ReadRaises, memory
<1>3. CASE SkipAsset
  BY <1>3, AdvanceKeepsPlaces DEF SkipAsset, memory
<1>4. CASE ScoreAsset
  BY <1>4 DEF ScoreAsset, Places, Working
<1>5. ASSUME NEW outcome \in Outcomes, SetLatest(outcome) PROVE Places'
  <2>1. pc = "setting" /\ UNCHANGED <<stop, snap, pythKey>>
    BY <1>5 DEF SetLatest, memory
  <2>2. CASE IsSignal(out)
    <3>1. pc' = "adding" /\ UNCHANGED <<at, left, out>>
      BY <1>5, <2>2 DEF SetLatest
    <3> QED BY <2>1, <3>1 DEF Places, Working
  <2>3. CASE ~IsSignal(out)
    BY <1>5, <2>1, <2>3, AdvanceKeepsPlaces DEF SetLatest
  <2> QED BY <2>2, <2>3
<1>6. ASSUME NEW outcome \in Outcomes, AddSignal(outcome) PROVE Places'
  BY <1>6, AdvanceKeepsPlaces DEF AddSignal, memory
<1>7. ASSUME NEW a \in Aliases, SkipPyth(a) PROVE Places'
  BY <1>7 DEF SkipPyth, Visited, memory, Places, Working
<1>8. ASSUME NEW a \in Aliases, SendPyth(a) PROVE Places'
  <2>1. /\ pc' = "settingPyth" /\ out' = [asset |-> a, quote |-> snap[a]] /\ a \in left
        /\ UNCHANGED <<at, left, stop, snap, pythKey>>
    BY <1>8 DEF SendPyth, memory
  <2>2. snap[a] \in QuotesOf[a]
    BY <2>1 DEF Places, MaybeQuote
  <2>3. out'.asset = a /\ out'.quote = snap[a]
    BY <2>1
  <2> QED BY <2>1, <2>2, <2>3 DEF Places, Working
<1>9. ASSUME NEW outcome \in Outcomes, SetPyth(outcome) PROVE Places'
  <2>1. /\ pc = "settingPyth" /\ pc' \in {"sleeping", "pyth"} /\ out' = NoScore
        /\ left' = left \ {out.asset} /\ UNCHANGED <<at, stop, snap>>
        /\ pythKey' = IF Executed(outcome) THEN [pythKey EXCEPT ![out.asset] = out.quote] ELSE pythKey
    BY <1>9 DEF SetPyth, Visited
  <2>2. DOMAIN pythKey' = Aliases /\ \A a \in Aliases : pythKey'[a] \in MaybeQuote(a)
    BY <2>1 DEF Places, MaybeQuote
  <2> QED BY <2>1, <2>2 DEF Places, Working
<1>10. CASE Wake
  <2>1. CASE stop
    BY <1>10, <2>1, QuietStepKeepsPlaces DEF Wake
  <2>2. CASE ~stop
    BY <1>10, <2>2, AliasList DEF Wake, BeginCycle, Places, Working
  <2> QED BY <2>1, <2>2
<1>11. CASE SetStop
  BY <1>11 DEF SetStop, control, memory, Places
<1>12. ASSUME NEW executed \in BOOLEAN, Crash(executed) PROVE Places'
  <2>1. /\ pc' = "down" /\ at' = 1 /\ left' = {} /\ out' = NoScore /\ UNCHANGED stop
        /\ snap' = [a \in Aliases |-> NoQuote]
        /\ pythKey' = IF executed /\ pc = "settingPyth" THEN [pythKey EXCEPT ![out.asset] = out.quote]
                      ELSE pythKey
    BY <1>12 DEF Crash
  <2>2. DOMAIN pythKey' = Aliases /\ \A a \in Aliases : pythKey'[a] \in MaybeQuote(a)
    BY <2>1 DEF Places, MaybeQuote
  <2> QED BY <2>1, <2>2, AliasList DEF Places, MaybeQuote
<1>13. CASE Restart
  BY <1>13, AliasList DEF Restart, BeginCycle, Places, Working
<1>14. ASSUME NEW a \in Aliases, NEW q \in QuotesOf[a], PythUpdates(a, q) PROVE Places'
  <2>1. UNCHANGED <<pc, at, left, out, stop, pythKey>> /\ snap' = [snap EXCEPT ![a] = q]
    BY <1>14 DEF PythUpdates, control
  <2>2. q # NoQuote
    BY AliasList
  <2>3. /\ DOMAIN snap' = Aliases
        /\ \A b \in Aliases : snap'[b] \in MaybeQuote(b) /\ (snap[b] # NoQuote => snap'[b] # NoQuote)
    BY <2>1, <2>2 DEF Places, MaybeQuote
  <2> QED BY <2>1, <2>3 DEF Places
<1>15. ASSUME NEW a \in Scored, NEW v \in KeysOf[a], ChainlinkWrites(a, v) PROVE Places'
  BY <1>15, QuietStepKeepsPlaces DEF ChainlinkWrites, control, memory
<1>16. CASE Tick
  BY <1>16, QuietStepKeepsPlaces DEF Tick
<1>17. CASE UNCHANGED vars
  BY <1>17, QuietStepKeepsPlaces DEF vars, control, memory
<1> QED
  BY <1>1, <1>2, <1>3, <1>4, <1>5, <1>6, <1>7, <1>8, <1>9, <1>10, <1>11, <1>12, <1>13, <1>14,
     <1>15, <1>16, <1>17 DEF Next

LEMMA PlacesAlways == Spec => []Places
<1>1. Init => Places
  <2> SUFFICES ASSUME Init PROVE Places
    OBVIOUS
  <2>1. /\ DOMAIN snap = Aliases /\ DOMAIN pythKey = Aliases
        /\ \A a \in Aliases : snap[a] \in MaybeQuote(a) /\ pythKey[a] \in MaybeQuote(a)
    BY DEF Init, MaybeQuote
  <2>2. pc = "reading" /\ at = 1 /\ left = {} /\ out = NoScore /\ stop = FALSE
    BY DEF Init
  <2>3. at \in 1 .. Len(AliasSeq) /\ left \subseteq Aliases /\ pc \in Working /\ pc # "settingPyth"
    BY <2>2, AliasList DEF Working
  <2> QED BY <2>1, <2>2, <2>3 DEF Places
<1> QED BY <1>1, PlacesStep, PTL DEF Spec

(* The Pyth throttle follows the acknowledged writes: publish_pyth_price   *)
(* passes an asset over only within min_interval_ms of one and writes only *)
(* outside it.                                                             *)
THEOREM ThrottleFollowsWrites == Spec => PythThrottle
<1> DEFINE Throttle ==
             \A a \in left : pc = "pyth" /\ pc' # "down" =>
               /\ pc' = "settingPyth" /\ out'.asset = a => past[a].acked >= MinGap
               /\ a \notin left' => past[a].acked < MinGap
<1>1. ASSUME Clocks, Places, Next PROVE Throttle
  <2> SUFFICES ASSUME NEW a \in left, pc = "pyth", pc' # "down"
               PROVE  /\ pc' = "settingPyth" /\ out'.asset = a => past[a].acked >= MinGap
                      /\ a \notin left' => past[a].acked < MinGap
    OBVIOUS
  <2>1. a \in Aliases /\ past[a].acked = since[a] /\ since[a] \in 0 .. MinGap /\ MinGap \in Nat
    BY <1>1, TimesAreNatural DEF Clocks, Places
  <2>2. ASSUME UNCHANGED <<pc, left>> PROVE a \in left' /\ pc' # "settingPyth"
    BY <2>2
  <2>3. ASSUME NEW b \in Aliases, SkipPyth(b)
        PROVE  pc' # "settingPyth" /\ (a \notin left' => past[a].acked < MinGap)
    BY <2>1, <2>3 DEF SkipPyth, Visited, Throttled
  <2>4. ASSUME NEW b \in Aliases, SendPyth(b)
        PROVE  a \in left' /\ (out'.asset = a => past[a].acked >= MinGap)
    BY <2>1, <2>4 DEF SendPyth, Throttled
  <2>5. CASE SetStop \/ Tick
    BY <2>2, <2>5 DEF SetStop, Tick, control
  <2>6. ASSUME NEW b \in Aliases, NEW q \in QuotesOf[b], PythUpdates(b, q)
        PROVE  UNCHANGED <<pc, left>>
    BY <2>6 DEF PythUpdates, control
  <2>7. ASSUME NEW b \in Scored, NEW v \in KeysOf[b], ChainlinkWrites(b, v)
        PROVE  UNCHANGED <<pc, left>>
    BY <2>7 DEF ChainlinkWrites, control
  <2>8. ~(\E executed \in BOOLEAN : Crash(executed))
    BY DEF Crash
  <2>9. /\ ~(ReadPrice \/ ReadRaises \/ SkipAsset \/ ScoreAsset \/ Wake \/ Restart)
        /\ \A outcome \in Outcomes : ~(SetLatest(outcome) \/ AddSignal(outcome) \/ SetPyth(outcome))
    BY DEF ReadPrice, ReadRaises, SkipAsset, ScoreAsset, Wake, Restart, SetLatest, AddSignal, SetPyth
  <2> QED BY <1>1, <2>2, <2>3, <2>4, <2>5, <2>6, <2>7, <2>8, <2>9 DEF Next
<1>2. Clocks /\ Places /\ [Next]_vars => [Throttle]_vars
  BY <1>1
<1>3. [][Throttle]_vars => PythThrottle
  BY PTL DEF PythThrottle
<1> QED BY <1>2, <1>3, ClocksAlways, PlacesAlways, PTL DEF Spec

-----------------------------------------------------------------------------
(* The components of a score *)
LEMMA DivergenceRange ==
  ASSUME NEW q \in [price : Int, band : Nat, time : Int], NEW v \in [price : Int, time : Int]
  PROVE  DivergenceScore(q, v) \in 0 .. Unit
<1> DEFINE x == 200 * Unit * Distance(q.price, v.price)
           p == q.price + v.price
<1>1. CASE q.price > 0 /\ v.price > 0
  <2>1. x \in Nat /\ p \in Nat \ {0}
    BY <1>1 DEF Distance, Unit
  <2>2. AtMost(Unit, x \div p) \in 0 .. Unit
    <3> HIDE DEF x, p
    <3> QED BY <2>1, CappedPart
  <2>3. GapScore(q, v) \in 0 .. Unit
    BY <2>2 DEF GapScore
  <2> QED BY <2>3 DEF DivergenceScore, Unit
<1>2. CASE ~(q.price > 0 /\ v.price > 0)
  <2>1. DivergenceReason(q, v) = "non_positive_price"
    BY <1>2 DEF DivergenceReason
  <2> QED BY <2>1 DEF DivergenceScore, Unit
<1> QED BY <1>1, <1>2

LEMMA RampIsScore ==
  ASSUME NEW b \in Nat, NEW t \in Nat \ {0}
  PROVE  Ramp(b, t) \in 0 .. Unit
<1>1. CASE b < t
  BY <1>1 DEF Ramp, Unit
<1>2. CASE b >= t /\ 2 * b < 5 * t
  <2> DEFINE x == 700 * (2 * b - 2 * t)
             p == 3 * t
             n == x \div p
  <2>1. x \in Nat /\ p \in Nat \ {0} /\ x <= 700 * p
    BY <1>2
  <2>2. n \in Nat /\ n <= 700
    <3> HIDE DEF x, p
    <3> QED BY <2>1, WholePart, WholePartAtMost
  <2>3. Ramp(b, t) = n
    BY <1>2 DEF Ramp
  <2> HIDE DEF n
  <2> QED BY <2>2, <2>3 DEF Unit
<1>3. CASE b >= t /\ ~(2 * b < 5 * t)
  <2> DEFINE x == 60 * (2 * b - 5 * t)
             n == x \div t
  <2>1. x \in Nat
    BY <1>3
  <2>2. n \in Nat
    <3> HIDE DEF x
    <3> QED BY <2>1, WholePart
  <2>3. Ramp(b, t) = AtMost(Unit, 700 + n)
    BY <1>3 DEF Ramp
  <2> HIDE DEF n
  <2>4. AtMost(1000, 700 + n) \in 0 .. 1000
    BY <2>2 DEF AtMost
  <2> QED BY <2>3, <2>4 DEF Unit
<1> QED BY <1>1, <1>2, <1>3

LEMMA WideningIsScore ==
  ASSUME NEW h \in Seq(Nat), NEW b \in Nat
  PROVE  /\ Widening(h, b).score \in 0 .. Unit
         /\ Widening(h, b).score > 0 => Len(h) >= MinSamples
<1>1. CASE WarmingUp(h)
  BY <1>1 DEF Widening, Unit
<1>2. CASE ~WarmingUp(h)
  <2> DEFINE t == TwiceMedian(h)
  <2>1. Len(h) >= MinSamples /\ Len(h) \in Nat
    BY <1>2, MinSamplesAssumption DEF WarmingUp
  <2>2. Sample(h) /\ SampleSize(h) # 0 /\ \A i \in DOMAIN h : h[i] \in Nat
    <3>1. h \in Seq(Int)
      BY SeqMonotonic
    <3> QED BY <2>1, <3>1, SequenceIsSample, MinSamplesAssumption
  <2>3. t \in Nat
    BY <2>2, MedianOfReadings
  <2>4. CASE t <= 0
    BY <1>2, <2>1, <2>4 DEF Widening, Unit
  <2>5. CASE ~(t <= 0)
    <3>1. Widening(h, b).score = Ramp(b, t)
      BY <1>2, <2>5 DEF Widening
    <3> HIDE DEF t
    <3> QED BY <2>1, <2>3, <2>5, <3>1, RampIsScore
  <2> QED BY <2>4, <2>5
<1> QED BY <1>1, <1>2

LEMMA NoDispersion == DispersionScore(<<>>) = 0
BY DEF DispersionScore, EnoughQuotes, MinPublishers

(* A component that is 0 does not lift the composite. *)
LEMMA CombineBounded ==
  ASSUME NEW div \in 0 .. Unit, NEW conf \in 0 .. Unit, NEW x \in BOOLEAN, NEW y \in BOOLEAN,
         div > 0 => x, conf > 0 => y
  PROVE  /\ Combine(div, conf, 0) \in 0 .. Unit
         /\ Combine(div, conf, 0) <= (IF x THEN WeightDivergence ELSE 0) + (IF y THEN WeightConfidence ELSE 0)
<1> DEFINE m == WeightDivergence * div
           n == WeightConfidence * conf
           d == IF x THEN WeightDivergence ELSE 0
           c == IF y THEN WeightConfidence ELSE 0
           sum == m + n + WeightDispersion * 0
           part == sum \div 1000
<1>1. div \in Nat /\ div <= 1000 /\ conf \in Nat /\ conf <= 1000 /\ WeightDivergence \in Nat
      /\ WeightConfidence \in Nat /\ WeightDispersion \in Nat
  BY WeightAssumption DEF Unit
<1>2. ASSUME NEW w \in Nat, NEW s \in Nat, s <= 1000 PROVE w * s \in Nat /\ w * s <= w * 1000
  BY <1>2, SMTT(30)
<1>3. m \in Nat /\ m <= 1000 * d /\ d \in Nat
  <2>1. CASE x
    BY <1>1, <1>2, <2>1
  <2>2. CASE ~x
    <3>1. div = 0
      BY <1>1, <2>2
    <3> QED BY <1>1, <2>2, <3>1
  <2> QED BY <2>1, <2>2
<1>4. n \in Nat /\ n <= 1000 * c /\ c \in Nat
  <2>1. CASE y
    BY <1>1, <1>2, <2>1
  <2>2. CASE ~y
    <3>1. conf = 0
      BY <1>1, <2>2
    <3> QED BY <1>1, <2>2, <3>1
  <2> QED BY <2>1, <2>2
<1> HIDE DEF m, n, d, c
<1>5. sum \in Nat /\ sum <= (d + c) * 1000
  BY <1>1, <1>3, <1>4
<1>6. d + c \in Nat
  BY <1>3, <1>4
<1>7. part \in Nat /\ part <= d + c
  <2> HIDE DEF sum
  <2> QED BY <1>5, <1>6, WholePart, WholePartAtMost
<1>8. Combine(div, conf, 0) = AtMost(1000, part)
  BY DEF Combine, Unit, m, n
<1> HIDE DEF part
<1>9. AtMost(1000, part) \in 0 .. 1000 /\ AtMost(1000, part) <= part /\ AtMost(1000, part) \in Nat
  BY <1>7 DEF AtMost
<1>10. AtMost(1000, part) <= d + c
  BY <1>6, <1>7, <1>9
<1> QED BY <1>8, <1>9, <1>10 DEF Unit, d, c

-----------------------------------------------------------------------------
(* What the Chainlink keys hold and held.  A price of the dict was read in *)
(* this cycle, so its key held it in this cycle.                           *)
MaybePrice(a) == KeysOf[a] \cup {NoPrice}

Keys ==
  /\ DOMAIN prices = Scored /\ DOMAIN clKey = Scored /\ DOMAIN cycle.held = Scored
  /\ \A a \in Scored :
       /\ clKey[a] \in MaybePrice(a) /\ clKey[a] \in cycle.held[a]
       /\ prices[a] \in MaybePrice(a) \ {Poison}
       /\ prices[a] # NoPrice => prices[a] \in cycle.held[a]

LEMMA QuietStepKeepsKeys ==
  ASSUME Keys, UNCHANGED <<prices, clKey, cycle.held>>
  PROVE  Keys'
BY DEF Keys

LEMMA NewCycleKeys ==
  ASSUME Keys, prices' = FreshPrices, cycle' = NewCycle, UNCHANGED clKey
  PROVE  Keys'
<1>1. /\ DOMAIN prices' = Scored /\ \A a \in Scored : prices'[a] = NoPrice
      /\ DOMAIN cycle'.held = Scored /\ \A a \in Scored : cycle'.held[a] = {clKey[a]}
  BY DEF FreshPrices, NewCycle
<1> QED BY <1>1, ValueAssumption DEF Keys, MaybePrice

LEMMA KeysStep == Shape /\ Keys /\ [Next]_vars => Keys'
<1> SUFFICES ASSUME Shape, Keys, [Next]_vars PROVE Keys'
  OBVIOUS
<1>1. ASSUME UNCHANGED <<prices, clKey, cycle>> PROVE Keys'
  BY <1>1, QuietStepKeepsKeys
<1>2. CASE ReadPrice
  <2>1. /\ clKey[Current] # Poison /\ UNCHANGED <<clKey, cycle>>
        /\ prices' = [prices EXCEPT ![Current] = IF clKey[Current] = NoPrice THEN prices[Current]
                                                  ELSE clKey[Current]]
    BY <1>2 DEF ReadPrice
  <2>2. DOMAIN prices' = Scored
    BY <2>1 DEF Keys
  <2>3. ASSUME NEW a \in Scored
        PROVE  /\ prices'[a] \in MaybePrice(a) \ {Poison}
               /\ prices'[a] # NoPrice => prices'[a] \in cycle'.held[a]
    BY <2>1 DEF Keys
  <2> QED BY <2>1, <2>2, <2>3 DEF Keys
<1>3. CASE ReadRaises
  <2>1. UNCHANGED <<prices, clKey>> /\ cycle' = [cycle EXCEPT !.raised = TRUE]
    BY <1>3 DEF ReadRaises, memory
  <2>2. cycle'.held = cycle.held
    BY <2>1 DEF Shape
  <2> QED BY <2>1, <2>2, QuietStepKeepsKeys
<1>4. CASE SkipAsset \/ ScoreAsset
  BY <1>1, <1>4 DEF SkipAsset, ScoreAsset, memory
<1>5. ASSUME NEW outcome \in Outcomes, SetLatest(outcome) PROVE Keys'
  <2>1. UNCHANGED <<prices, clKey>> /\ cycle' = [cycle EXCEPT !.tried = cycle.tried \cup {Current}]
    BY <1>5 DEF SetLatest, memory
  <2>2. cycle'.held = cycle.held
    BY <2>1 DEF Shape
  <2> QED BY <2>1, <2>2, QuietStepKeepsKeys
<1>6. ASSUME NEW outcome \in Outcomes, AddSignal(outcome) \/ SetPyth(outcome) PROVE Keys'
  BY <1>1, <1>6 DEF AddSignal, SetPyth, memory
<1>7. ASSUME NEW a \in Aliases, SkipPyth(a) \/ SendPyth(a) PROVE Keys'
  BY <1>1, <1>7 DEF SkipPyth, SendPyth, memory
<1>8. CASE Wake
  <2>1. CASE stop
    BY <1>1, <1>8, <2>1 DEF Wake
  <2>2. CASE ~stop
    BY <1>8, <2>2, NewCycleKeys DEF Wake, BeginCycle
  <2> QED BY <2>1, <2>2
<1>9. CASE SetStop \/ Tick
  BY <1>1, <1>9 DEF SetStop, Tick, memory
<1>10. ASSUME NEW executed \in BOOLEAN, Crash(executed) PROVE Keys'
  BY <1>10, NewCycleKeys DEF Crash
<1>11. CASE Restart
  BY <1>11, NewCycleKeys DEF Restart, BeginCycle
<1>12. ASSUME NEW a \in Aliases, NEW q \in QuotesOf[a], PythUpdates(a, q) PROVE Keys'
  BY <1>1, <1>12 DEF PythUpdates
<1>13. ASSUME NEW a \in Scored, NEW v \in KeysOf[a], ChainlinkWrites(a, v) PROVE Keys'
  <2>1. /\ UNCHANGED prices /\ clKey' = [clKey EXCEPT ![a] = v]
        /\ cycle' = [cycle EXCEPT !.held = [cycle.held EXCEPT ![a] = cycle.held[a] \cup {v}]]
    BY <1>13 DEF ChainlinkWrites, memory
  <2>2. cycle'.held = [cycle.held EXCEPT ![a] = cycle.held[a] \cup {v}]
    BY <2>1 DEF Shape
  <2>3. /\ DOMAIN cycle'.held = Scored /\ DOMAIN clKey' = Scored
        /\ \A b \in Scored : /\ clKey'[b] = IF b = a THEN v ELSE clKey[b]
                             /\ cycle'.held[b] = IF b = a THEN cycle.held[b] \cup {v} ELSE cycle.held[b]
    BY <2>1, <2>2 DEF Keys
  <2> QED BY <2>1, <2>3 DEF Keys, MaybePrice
<1>14. CASE UNCHANGED vars
  BY <1>1, <1>14 DEF vars, memory
<1> QED
  BY <1>2, <1>3, <1>4, <1>5, <1>6, <1>7, <1>8, <1>9, <1>10, <1>11, <1>12, <1>13, <1>14 DEF Next

LEMMA KeysAlways == Spec => []Keys
<1>1. Init => Keys
  <2> SUFFICES ASSUME Init PROVE Keys
    OBVIOUS
  <2>1. /\ prices = [a \in Scored |-> NoPrice] /\ clKey = [a \in Scored |-> NoPrice] /\ cycle = NewCycle
    BY DEF Init
  <2>2. DOMAIN cycle.held = Scored /\ \A a \in Scored : cycle.held[a] = {NoPrice}
    BY <2>1 DEF NewCycle
  <2> QED BY <2>1, <2>2, ValueAssumption DEF Keys, MaybePrice
<1>2. Progress => Shape
  BY DEF Progress
<1> QED BY <1>1, <1>2, KeysStep, ProgressAlways, PTL DEF Spec

-----------------------------------------------------------------------------
(* The evidence behind a score: the window has no more readings than the   *)
(* process made, as far as these are counted.                              *)
Evidence ==
  /\ DOMAIN window = Scored
  /\ \A a \in Scored :
       /\ window[a] \in Seq(Nat) /\ Len(window[a]) <= WindowN
       /\ past[a].readings \in Nat
       /\ Len(window[a]) <= past[a].readings \/ past[a].readings >= MaxReadings
  /\ pc \in {"setting", "adding"} => out \in Score
  /\ ScoreHasEvidence

LEMMA QuietStepKeepsEvidence ==
  ASSUME Places, Evidence, UNCHANGED window,
         \A a \in Scored : past'[a].readings = past[a].readings,
         \/ pc' \notin {"setting", "adding"}
         \/ /\ pc \in {"setting", "adding"} /\ UNCHANGED <<at, out>>
            /\ cycle.held[Current] \subseteq cycle'.held[Current]
  PROVE  Evidence'
<1>1. Current \in Scored
  BY AliasList DEF Places, Current
<1>2. CASE pc' \notin {"setting", "adding"}
  BY <1>2 DEF Evidence, ScoreHasEvidence
<1>3. CASE pc \in {"setting", "adding"} /\ UNCHANGED <<at, out>>
             /\ cycle.held[Current] \subseteq cycle'.held[Current]
  <2>1. Current' = Current /\ past'[Current].readings = past[Current].readings
    BY <1>1, <1>3 DEF Current
  <2>2. ScoreHasEvidence
    BY DEF Evidence
  <2>3. ScoreHasEvidence'
    <3> DEFINE fresh == cycle.held[Current] \ {NoPrice, Poison}
               warm == past[Current].readings > MinSamples
    <3>1. /\ out.divergence > 0 =>
               \E v \in fresh, q \in QuotesOf[Current] : out.divergence = DivergenceScore(q, v)
          /\ out.confidence > 0 => warm
          /\ out.composite <= (IF fresh # {} THEN WeightDivergence ELSE 0)
                                + (IF warm THEN WeightConfidence ELSE 0)
      BY <1>3, <2>2 DEF ScoreHasEvidence
    <3>2. fresh \subseteq fresh' /\ warm' = warm /\ out' = out
      BY <1>3, <2>1
    <3> HIDE DEF fresh, warm
    <3>3. /\ out'.divergence > 0 =>
               \E v \in fresh', q \in QuotesOf[Current] : out'.divergence = DivergenceScore(q, v)
          /\ out'.confidence > 0 => warm'
      BY <3>1, <3>2
    <3>4. out'.composite <= (IF fresh' # {} THEN WeightDivergence ELSE 0)
                              + (IF warm' THEN WeightConfidence ELSE 0)
      <4>1. out.composite \in Int
        BY <1>3 DEF Evidence, Score
      <4> QED BY <3>1, <3>2, <4>1, WeightAssumption
    <3> QED BY <2>1, <3>3, <3>4 DEF ScoreHasEvidence, fresh, warm
  <2> QED BY <1>3, <2>3 DEF Evidence
<1> QED BY <1>2, <1>3

LEMMA BpsIsNatural ==
  ASSUME NEW a \in Aliases, NEW q \in QuotesOf[a]
  PROVE  q \in [price : Int, band : Nat, time : Int] /\ Bps(q) \in Nat
<1> DEFINE x == 10000 * q.band
<1>1. q \in [price : Int, band : Nat, time : Int] /\ q.price > 0
  BY ValueAssumption, LoopAssumption
<1>2. x \in Nat /\ q.price \in Nat \ {0}
  BY <1>1
<1>3. Bps(q) = x \div q.price
  BY DEF Bps
<1> HIDE DEF x
<1> QED BY <1>1, <1>2, <1>3, WholePart

LEMMA PushKeepsWindow ==
  ASSUME NEW h \in Seq(Nat), NEW b \in Nat, Len(h) <= WindowN
  PROVE  Push(h, b) \in Seq(Nat) /\ Len(Push(h, b)) <= WindowN /\ Len(Push(h, b)) <= Len(h) + 1
<1> DEFINE longer == Append(h, b)
<1>1. longer \in Seq(Nat) /\ Len(longer) = Len(h) + 1 /\ Len(h) \in Nat /\ longer # <<>>
  OBVIOUS
<1>2. Tail(longer) \in Seq(Nat) /\ Len(Tail(longer)) = Len(h)
  BY <1>1
<1>3. Push(h, b) = IF Len(longer) > WindowN THEN Tail(longer) ELSE longer
  BY DEF Push
<1> HIDE DEF longer
<1> QED BY <1>1, <1>2, <1>3, WindowAssumption

(* compute_divergence, ConfidenceTracker.observe and compute_composite of  *)
(* one asset                                                               *)
LEMMA ScoringKeepsEvidence ==
  ASSUME PastShape, Places, Keys, Evidence, ScoreAsset
  PROVE  Evidence'
<1> DEFINE a == Current
           b == Bps(snap[a])
           div == IF prices[a] = NoPrice THEN 0 ELSE DivergenceScore(snap[a], prices[a])
           conf == Widening(window[a], b).score
           readings == AtMost(MaxReadings, past[a].readings + 1)
           fresh == cycle.held[a] \ {NoPrice, Poison}
           warm == readings > MinSamples
<1>1. /\ pc = "scoring" /\ pc' = "setting" /\ snap[a] # NoQuote /\ out' = ScoreOf(a)
      /\ window' = [window EXCEPT ![a] = Push(window[a], b)]
      /\ past' = [past EXCEPT ![a].readings = readings]
      /\ UNCHANGED <<at, cycle>>
  BY DEF ScoreAsset
<1>2. a \in Scored /\ a \in Aliases /\ Current' = Current
  BY <1>1, AliasList, ScoredAreAliases DEF Places, Current
<1>3. snap[a] \in QuotesOf[a]
  BY <1>1, <1>2 DEF Places, MaybeQuote
<1>4. snap[a] \in [price : Int, band : Nat, time : Int] /\ b \in Nat
  BY <1>2, <1>3, BpsIsNatural
<1>5. /\ window[a] \in Seq(Nat) /\ Len(window[a]) <= WindowN /\ Len(window[a]) \in Nat
      /\ past[a].readings \in Nat
      /\ Len(window[a]) <= past[a].readings \/ past[a].readings >= MaxReadings
  BY <1>2 DEF Evidence
<1>6. MaxReadings \in Nat /\ MaxReadings = MinSamples + 1 /\ MinSamples \in Nat
  BY MinSamplesAssumption DEF MaxReadings
<1>7. div \in 0 .. Unit /\ (div > 0 => prices[a] \in fresh /\ div = DivergenceScore(snap[a], prices[a]))
  <2>1. CASE prices[a] = NoPrice
    BY <2>1 DEF Unit
  <2>2. CASE prices[a] # NoPrice
    <3>1. prices[a] \in fresh /\ prices[a] \in [price : Int, time : Int]
      BY <1>2, <2>2, ValueAssumption DEF Keys, MaybePrice
    <3>2. div = DivergenceScore(snap[a], prices[a])
      BY <2>2
    <3> QED BY <1>4, <3>1, <3>2, DivergenceRange
  <2> QED BY <2>1, <2>2
<1>8. conf \in 0 .. Unit /\ (conf > 0 => Len(window[a]) >= MinSamples)
  <2> HIDE DEF a, b
  <2> QED BY <1>4, <1>5, WideningIsScore
<1>9. out' = [divergence |-> div, confidence |-> conf, dispersion |-> 0,
              composite |-> Combine(div, conf, 0)]
  BY <1>1, NoDispersion DEF ScoreOf
<1> HIDE DEF div, conf
<1>10. readings \in Nat /\ (conf > 0 => warm)
       /\ (Len(window[a]) + 1 <= readings \/ readings >= MaxReadings)
  <2> HIDE DEF a
  <2> QED BY <1>5, <1>6, <1>8 DEF AtMost
<1> HIDE DEF readings, fresh
<1>11. /\ Combine(div, conf, 0) \in 0 .. Unit
       /\ Combine(div, conf, 0) <= (IF fresh # {} THEN WeightDivergence ELSE 0)
                                     + (IF warm THEN WeightConfidence ELSE 0)
  <2>1. div > 0 => fresh # {}
    BY <1>7
  <2>2. (fresh # {}) \in BOOLEAN /\ warm \in BOOLEAN
    BY <1>6, <1>10
  <2> HIDE DEF warm
  <2> QED BY <1>7, <1>8, <1>10, <2>1, <2>2, CombineBounded
<1>12. \A c \in Scored : past'[c].readings = IF c = a THEN readings ELSE past[c].readings
  BY <1>1, <1>2, ScoredAreAliases DEF PastShape
<1>13. out' \in Score
  BY <1>7, <1>8, <1>9, <1>11 DEF Score, Unit
<1>14. ScoreHasEvidence'
  <2>1. out'.divergence > 0 => \E v \in fresh, q \in QuotesOf[a] : out'.divergence = DivergenceScore(q, v)
    BY <1>3, <1>7, <1>9
  <2>2. out'.confidence > 0 => warm
    BY <1>9, <1>10
  <2>3. out'.composite <= (IF fresh # {} THEN WeightDivergence ELSE 0)
                            + (IF warm THEN WeightConfidence ELSE 0)
    BY <1>9, <1>11
  <2>4. past'[Current'].readings = readings /\ cycle' = cycle /\ Current' = a
    BY <1>1, <1>2, <1>12
  <2> QED BY <2>1, <2>2, <2>3, <2>4 DEF ScoreHasEvidence, fresh
<1>15. /\ DOMAIN window' = Scored
       /\ \A c \in Scored : window'[c] = IF c = a THEN Push(window[a], b) ELSE window[c]
  BY <1>1 DEF Evidence
<1>16. ASSUME NEW c \in Scored
       PROVE  /\ window'[c] \in Seq(Nat) /\ Len(window'[c]) <= WindowN
              /\ past'[c].readings \in Nat
              /\ Len(window'[c]) <= past'[c].readings \/ past'[c].readings >= MaxReadings
  <2>1. CASE c = a
    <3> DEFINE pushed == Push(window[a], b)
    <3>1. pushed \in Seq(Nat) /\ Len(pushed) <= WindowN /\ Len(pushed) <= Len(window[a]) + 1
          /\ Len(pushed) \in Nat
      <4> HIDE DEF a, b
      <4> QED BY <1>4, <1>5, PushKeepsWindow
    <3>2. window'[c] = pushed /\ past'[c].readings = readings
      BY <1>12, <1>15, <2>1
    <3> HIDE DEF a, b, pushed
    <3> QED BY <1>5, <1>6, <1>10, <3>1, <3>2
  <2>2. CASE c # a
    BY <1>12, <1>15, <2>2 DEF Evidence
  <2> QED BY <2>1, <2>2
<1> QED BY <1>13, <1>14, <1>15, <1>16 DEF Evidence

LEMMA EvidenceStep ==
  PastShape /\ Shape /\ Places /\ Keys /\ Evidence /\ [Next]_vars => Evidence'
<1> SUFFICES ASSUME PastShape, Shape, Places, Keys, Evidence, [Next]_vars PROVE Evidence'
  OBVIOUS
<1> USE ScoredAreAliases
<1>1. ASSUME UNCHANGED <<window, past>>, pc' \notin {"setting", "adding"} PROVE Evidence'
  BY <1>1, QuietStepKeepsEvidence
<1>2. ASSUME UNCHANGED <<window, past, pc, at, out, cycle>> PROVE Evidence'
  BY <1>2, QuietStepKeepsEvidence
<1>3. CASE ReadPrice \/ ReadRaises
  BY <1>1, <1>3 DEF ReadPrice, ReadRaises, memory
<1>4. CASE SkipAsset
  BY <1>1, <1>4 DEF SkipAsset, Advance, memory
<1>5. CASE ScoreAsset
  BY <1>5, ScoringKeepsEvidence
<1>6. ASSUME NEW outcome \in Outcomes, SetLatest(outcome) PROVE Evidence'
  <2> DEFINE torn == ~Executed(outcome) /\ (past[Current].torn \/ IsSignal(out))
  <2>1. /\ UNCHANGED window /\ pc = "setting"
        /\ IF IsSignal(out) THEN pc' = "adding" /\ UNCHANGED <<at, left, out>> ELSE Advance
        /\ cycle' = [cycle EXCEPT !.tried = cycle.tried \cup {Current}]
    BY <1>6 DEF SetLatest, memory
  <2>2. past' = [past EXCEPT ![Current].torn = torn,
                   ![Current].misses = IF Executed(outcome) THEN 0 ELSE past[Current].misses]
    BY <1>6, Zenon DEF SetLatest, torn
  <2> HIDE DEF torn
  <2>3. \A a \in Scored : past'[a].readings = past[a].readings
    BY <2>2 DEF PastShape
  <2>4. cycle'.held = cycle.held
    BY <2>1 DEF Shape
  <2>5. CASE IsSignal(out)
    BY <2>1, <2>3, <2>4, <2>5, QuietStepKeepsEvidence
  <2>6. CASE ~IsSignal(out)
    <3>1. pc' \notin {"setting", "adding"}
      BY <2>1, <2>6 DEF Advance
    <3> QED BY <2>1, <2>3, <3>1, QuietStepKeepsEvidence
  <2> QED BY <2>5, <2>6
<1>7. ASSUME NEW outcome \in Outcomes, AddSignal(outcome) PROVE Evidence'
  <2> DEFINE torn == past[Current].torn \/ ~Executed(outcome)
  <2>1. UNCHANGED window /\ pc' \notin {"setting", "adding"}
    BY <1>7 DEF AddSignal, Advance, memory
  <2>2. past' = [past EXCEPT ![Current].torn = torn]
    BY <1>7, Zenon DEF AddSignal, torn
  <2> HIDE DEF torn
  <2>3. \A a \in Scored : past'[a].readings = past[a].readings
    BY <2>2 DEF PastShape
  <2> QED BY <2>1, <2>3, QuietStepKeepsEvidence
<1>8. ASSUME NEW a \in Aliases, SkipPyth(a) \/ SendPyth(a) PROVE Evidence'
  BY <1>1, <1>8 DEF SkipPyth, SendPyth, Visited, memory
<1>9. ASSUME NEW outcome \in Outcomes, SetPyth(outcome) PROVE Evidence'
  <2>1. /\ UNCHANGED window /\ pc' \notin {"setting", "adding"}
        /\ past' = [past EXCEPT ![out.asset].acked =
                      IF outcome = "ok" THEN AtMost(MinGap, flight) ELSE past[out.asset].acked]
    BY <1>9 DEF SetPyth, Visited
  <2>2. \A a \in Scored : past'[a].readings = past[a].readings
    BY <2>1 DEF PastShape
  <2> QED BY <2>1, <2>2, QuietStepKeepsEvidence
<1>10. CASE Wake
  <2>1. CASE stop
    BY <1>1, <1>10, <2>1 DEF Wake
  <2>2. CASE ~stop
    <3>1. /\ pc' = "reading" /\ UNCHANGED window
          /\ past' = [a \in Aliases |->
                        [past[a] EXCEPT !.misses = AtMost(MaxMisses, past[a].misses + 1)]]
      BY <1>10, <2>2 DEF Wake, BeginCycle
    <3>2. \A a \in Scored : past'[a].readings = past[a].readings
      BY <3>1 DEF PastShape
    <3> QED BY <3>1, <3>2, QuietStepKeepsEvidence
  <2> QED BY <2>1, <2>2
<1>11. CASE SetStop
  BY <1>2, <1>11 DEF SetStop, control, memory
<1>12. ASSUME NEW executed \in BOOLEAN, Crash(executed) PROVE Evidence'
  <2>1. /\ pc' = "down" /\ window' = [a \in Scored |-> <<>>]
        /\ \A a \in Scored : past'[a].readings = 0
    BY <1>12 DEF Crash
  <2> QED BY <2>1, WindowAssumption DEF Evidence, ScoreHasEvidence
<1>13. CASE Restart
  BY <1>1, <1>13 DEF Restart, BeginCycle
<1>14. ASSUME NEW a \in Aliases, NEW q \in QuotesOf[a], PythUpdates(a, q) PROVE Evidence'
  BY <1>2, <1>14 DEF PythUpdates, control
<1>15. ASSUME NEW a \in Scored, NEW v \in KeysOf[a], ChainlinkWrites(a, v) PROVE Evidence'
  <2>1. /\ UNCHANGED <<window, past, pc, at, out>>
        /\ cycle' = [cycle EXCEPT !.held = [cycle.held EXCEPT ![a] = cycle.held[a] \cup {v}]]
    BY <1>15 DEF ChainlinkWrites, control, memory
  <2>2. cycle'.held = [cycle.held EXCEPT ![a] = cycle.held[a] \cup {v}]
    BY <2>1 DEF Shape
  <2>3. Current \in Scored
    BY AliasList DEF Places, Current
  <2>4. cycle.held[Current] \subseteq cycle'.held[Current]
    BY <2>2, <2>3 DEF Keys
  <2>5. \A c \in Scored : past'[c].readings = past[c].readings
    BY <2>1
  <2>6. pc' = pc
    BY <2>1
  <2> QED BY <2>1, <2>4, <2>5, <2>6, QuietStepKeepsEvidence
<1>16. CASE Tick
  <2>1. /\ UNCHANGED <<window, pc, at, out, cycle>>
        /\ past' = [a \in Aliases |-> [past[a] EXCEPT !.acked = AtMost(MinGap, past[a].acked + 1)]]
    BY <1>16 DEF Tick
  <2>2. \A a \in Scored : past'[a].readings = past[a].readings
    BY <2>1 DEF PastShape
  <2> QED BY <2>1, <2>2, QuietStepKeepsEvidence
<1>17. CASE UNCHANGED vars
  BY <1>2, <1>17 DEF vars, control, memory
<1> QED
  BY <1>3, <1>4, <1>5, <1>6, <1>7, <1>8, <1>9, <1>10, <1>11, <1>12, <1>13, <1>14, <1>15, <1>16,
     <1>17 DEF Next

LEMMA EvidenceAlways == Spec => []Evidence
<1>1. Init => Evidence
  <2> SUFFICES ASSUME Init PROVE Evidence
    OBVIOUS
  <2>1. /\ pc = "reading" /\ window = [a \in Scored |-> <<>>]
        /\ \A a \in Scored : past[a].readings = 0
    BY ScoredAreAliases DEF Init
  <2> QED BY <2>1, WindowAssumption DEF Evidence, ScoreHasEvidence
<1>2. (Recorded => PastShape) /\ (Progress => Shape)
  BY DEF Recorded, Progress
<1> QED
  BY <1>1, <1>2, EvidenceStep, RecordedAlways, ProgressAlways, PlacesAlways, KeysAlways, PTL DEF Spec

(* A score never says more than its evidence: its divergence is that of a  *)
(* quote and of a price the key held in this cycle, its confidence has     *)
(* MinSamples readings behind it, and no component lifts another one.      *)
THEOREM ScoresHaveEvidence == Spec => []ScoreHasEvidence
<1>1. Evidence => ScoreHasEvidence
  BY DEF Evidence
<1> QED BY <1>1, EvidenceAlways, PTL

-----------------------------------------------------------------------------
(* The score keys: the latest key is there exactly as long as its expiry   *)
(* has not come.                                                           *)
Stored ==
  /\ DOMAIN ttl = Scored /\ DOMAIN latest = Scored /\ DOMAIN stream = Scored
  /\ \A a \in Scored :
       /\ latest[a] \in Score \cup {NoScore} /\ stream[a] \in Score \cup {NoScore}
       /\ ttl[a] \in 0 .. LatestTtl /\ (ttl[a] = 0 <=> latest[a] = NoScore)

LEMMA WrittenScoreIsStored ==
  ASSUME Stored, out \in Score, NEW a, WriteLatest(a, out), UNCHANGED stream
  PROVE  Stored'
<1>1. /\ DOMAIN ttl' = Scored /\ DOMAIN latest' = Scored
      /\ \A b \in Scored : /\ latest'[b] = IF b = a THEN out ELSE latest[b]
                           /\ ttl'[b] = IF b = a THEN LatestTtl ELSE ttl[b]
  BY DEF WriteLatest, Stored
<1>2. LatestTtl \in 0 .. LatestTtl /\ LatestTtl # 0 /\ out # NoScore
  BY TtlType, ValueAssumption
<1> QED BY <1>1, <1>2 DEF Stored

LEMMA AddedSignalIsStored ==
  ASSUME Stored, out \in Score, NEW a, UNCHANGED <<latest, ttl>>,
         stream' = [stream EXCEPT ![a] = out]
  PROVE  Stored'
<1>1. DOMAIN stream' = Scored /\ \A b \in Scored : stream'[b] = IF b = a THEN out ELSE stream[b]
  BY DEF Stored
<1> QED BY <1>1 DEF Stored

LEMMA StoredStep == Evidence /\ Stored /\ [Next]_vars => Stored'
<1> SUFFICES ASSUME Evidence, Stored, [Next]_vars PROVE Stored'
  OBVIOUS
<1>1. ASSUME UNCHANGED <<latest, ttl, stream>> PROVE Stored'
  BY <1>1 DEF Stored
<1>2. CASE ReadPrice \/ ReadRaises \/ SkipAsset \/ ScoreAsset \/ Wake \/ Restart \/ SetStop
  BY <1>1, <1>2 DEF ReadPrice, ReadRaises, SkipAsset, ScoreAsset, Wake, Restart, SetStop, scores
<1>3. ASSUME NEW outcome \in Outcomes, SetLatest(outcome) PROVE Stored'
  <2>1. /\ UNCHANGED stream /\ out \in Score
        /\ IF Executed(outcome) THEN WriteLatest(Current, out) ELSE UNCHANGED <<latest, ttl>>
    BY <1>3 DEF SetLatest, Evidence
  <2> QED BY <1>1, <2>1, WrittenScoreIsStored
<1>4. ASSUME NEW outcome \in Outcomes, AddSignal(outcome) PROVE Stored'
  <2>1. /\ UNCHANGED <<latest, ttl>> /\ out \in Score
        /\ stream' = IF Executed(outcome) THEN [stream EXCEPT ![Current] = out] ELSE stream
    BY <1>4 DEF AddSignal, Evidence
  <2> QED BY <1>1, <2>1, AddedSignalIsStored
<1>5. ASSUME NEW outcome \in Outcomes, SetPyth(outcome) PROVE Stored'
  BY <1>1, <1>5 DEF SetPyth, scores
<1>6. ASSUME NEW a \in Aliases, SkipPyth(a) \/ SendPyth(a) PROVE Stored'
  BY <1>1, <1>6 DEF SkipPyth, SendPyth, scores
<1>7. ASSUME NEW executed \in BOOLEAN, Crash(executed) PROVE Stored'
  <2>1. /\ IF executed /\ pc = "setting" THEN WriteLatest(Current, out) ELSE UNCHANGED <<latest, ttl>>
        /\ stream' = IF executed /\ pc = "adding" THEN [stream EXCEPT ![Current] = out] ELSE stream
    BY <1>7 DEF Crash
  <2>2. pc \in {"setting", "adding"} => out \in Score
    BY DEF Evidence
  <2>3. CASE executed /\ pc = "setting"
    BY <2>1, <2>2, <2>3, WrittenScoreIsStored
  <2>4. CASE executed /\ pc = "adding"
    BY <2>1, <2>2, <2>4, AddedSignalIsStored
  <2>5. CASE ~(executed /\ pc = "setting") /\ ~(executed /\ pc = "adding")
    BY <1>1, <2>1, <2>5
  <2> QED BY <2>3, <2>4, <2>5
<1>8. ASSUME NEW a \in Aliases, NEW q \in QuotesOf[a], PythUpdates(a, q) PROVE Stored'
  BY <1>1, <1>8 DEF PythUpdates, scores
<1>9. ASSUME NEW a \in Scored, NEW v \in KeysOf[a], ChainlinkWrites(a, v) PROVE Stored'
  BY <1>1, <1>9 DEF ChainlinkWrites, scores
<1>10. CASE Tick
  <2>1. /\ UNCHANGED stream
        /\ ttl' = [a \in Scored |-> AtLeast(0, ttl[a] - 1)]
        /\ latest' = [a \in Scored |-> IF ttl'[a] = 0 THEN NoScore ELSE latest[a]]
    BY <1>10 DEF Tick
  <2>2. ASSUME NEW a \in Scored
        PROVE  /\ latest'[a] \in Score \cup {NoScore}
               /\ ttl'[a] \in 0 .. LatestTtl /\ (ttl'[a] = 0 <=> latest'[a] = NoScore)
    <3>1. /\ ttl[a] \in 0 .. LatestTtl /\ (ttl[a] = 0 <=> latest[a] = NoScore)
          /\ latest[a] \in Score \cup {NoScore}
      BY DEF Stored
    <3>2. /\ ttl'[a] = AtLeast(0, ttl[a] - 1)
          /\ latest'[a] = IF ttl'[a] = 0 THEN NoScore ELSE latest[a]
      BY <2>1
    <3>3. ttl'[a] \in 0 .. LatestTtl /\ (ttl'[a] # 0 => ttl[a] # 0)
      BY <3>1, <3>2, TtlType DEF AtLeast
    <3> QED BY <3>1, <3>2, <3>3
  <2> QED BY <2>1, <2>2 DEF Stored
<1>11. CASE UNCHANGED vars
  BY <1>1, <1>11 DEF vars, scores
<1> QED
  BY <1>2, <1>3, <1>4, <1>5, <1>6, <1>7, <1>8, <1>9, <1>10, <1>11 DEF Next

LEMMA StoredAlways == Spec => []Stored
<1>1. Init => Stored
  <2> SUFFICES ASSUME Init PROVE Stored
    OBVIOUS
  <2>1. /\ latest = [a \in Scored |-> NoScore] /\ stream = [a \in Scored |-> NoScore]
        /\ ttl = [a \in Scored |-> 0]
    BY DEF Init
  <2> QED BY <2>1, TtlType DEF Stored
<1> QED BY <1>1, StoredStep, EvidenceAlways, PTL DEF Spec

(* Every variable keeps its type: among others, what the loop carries is a *)
(* score exactly while one is being written, no dict holds a value that    *)
(* breaks the parser, and a key lives exactly as long as its expiry.       *)
THEOREM LoopTypes == Spec => []TypeOK
<1>1. Clocks /\ Places /\ Keys /\ Evidence /\ Stored => TypeOK
  <2> SUFFICES ASSUME Clocks, Places, Keys, Evidence, Stored PROVE TypeOK
    OBVIOUS
  <2>1. /\ pc \in {"reading", "scoring", "setting", "adding", "pyth", "settingPyth", "sleeping",
                   "done", "down"}
        /\ at \in DOMAIN AliasSeq /\ left \subseteq Aliases /\ stop \in BOOLEAN
    BY LoopAssumption DEF Places, Working
  <2>2. (CASE pc \in {"setting", "adding"} -> out \in Score
           [] pc = "settingPyth" -> out.asset \in left /\ out.quote \in QuotesOf[out.asset]
           [] OTHER -> out = NoScore)
    <3>1. pc \in {"setting", "adding"} => out \in Score
      BY DEF Evidence
    <3>2. pc = "settingPyth" => out.asset \in left /\ out.quote \in QuotesOf[out.asset]
      BY DEF Places
    <3>3. pc \notin {"setting", "adding", "settingPyth"} => out = NoScore
      BY DEF Places
    <3> QED BY <3>1, <3>2, <3>3
  <2>3. \A a \in Aliases : {snap[a], pythKey[a]} \subseteq QuotesOf[a] \cup {NoQuote}
    BY DEF Places, MaybeQuote
  <2>4. \A a \in Scored :
          /\ clKey[a] \in KeysOf[a] \cup {NoPrice}
          /\ prices[a] \in (KeysOf[a] \cup {NoPrice}) \ {Poison}
          /\ {latest[a], stream[a]} \subseteq Score \cup {NoScore}
          /\ ttl[a] \in 0 .. LatestTtl /\ (ttl[a] = 0 <=> latest[a] = NoScore)
          /\ Len(window[a]) <= WindowN
    BY DEF Keys, MaybePrice, Stored, Evidence
  <2>5. \A a \in Aliases : since[a] \in 0 .. MinGap
    BY DEF Clocks
  <2>6. elapsed \in 0 .. AtLeast(Interval, MaxCycle) /\ flight \in 0 .. MaxCycle
    BY TimesAreNatural DEF Clocks, Working
  <2> QED BY <2>1, <2>2, <2>3, <2>4, <2>5, <2>6 DEF TypeOK
<1> QED BY <1>1, ClocksAlways, PlacesAlways, KeysAlways, EvidenceAlways, StoredAlways, PTL
=============================================================================
