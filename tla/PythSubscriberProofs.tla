------------------------ MODULE PythSubscriberProofs ------------------------
(***************************************************************************)
(* Theorems about the websocket subscriber, for every list of feeds, set   *)
(* of feed ids and set of quotes: type correctness, the pacing of the      *)
(* retries, and the snapshot's agreement with the feeds it mirrors.        *)
(***************************************************************************)
EXTENDS PythSubscriber, WellFoundedInduction, TLAPS

-----------------------------------------------------------------------------
(* Type correctness: AfterError, Resume and Doubled stay within the states *)
(* and delays of run_subscriber.                                           *)
THEOREM TypeCorrect == Spec => []TypeOK
<1>1. Init => TypeOK
  <2> SUFFICES ASSUME Init PROVE TypeOK
    OBVIOUS
  <2>1. snapshot \in [Configured -> Quotes \cup {NoQuote}]
    BY DEF Init
  <2>2. heard \in [FeedIds -> Quotes \cup {NoQuote}]
    BY DEF Init
  <2>3. sub \in {"connecting", "done"} /\ backoff = 1 /\ errors = 0
    BY DEF Init, InitialBackoff
  <2>4. {stop, mute} \subseteq BOOLEAN
    BY DEF Init
  <2> QED BY <2>1, <2>2, <2>3, <2>4 DEF TypeOK, MaxErrors
<1>2. TypeOK /\ [Next]_vars => TypeOK'
  <2> SUFFICES ASSUME TypeOK, [Next]_vars PROVE TypeOK'
    OBVIOUS
  <2> USE DEF TypeOK, MaxErrors
  <2>1. ASSUME Raise PROVE TypeOK'
    BY <2>1 DEF Raise, AfterError
  <2>2. ASSUME LeaveCleanly PROVE TypeOK'
    BY <2>2 DEF LeaveCleanly, Resume, AfterCleanExit, InitialBackoff
  <2>3. CASE ConnectOk
    BY <2>3 DEF ConnectOk
  <2>4. CASE ConnectFails \/ ErrorClose
    BY <2>1, <2>4 DEF ConnectFails, ErrorClose, Raise
  <2>5. CASE CleanClose
    BY <2>2, <2>5 DEF CleanClose
  <2>6. ASSUME NEW m \in Messages, Receive(m) PROVE TypeOK'
    <3>1. CASE stop
      BY <2>2, <2>6, <3>1 DEF Receive
    <3>2. CASE ~stop /\ m.kind = "poison"
      BY <2>1, <2>6, <3>2 DEF Receive, Raise
    <3>3. CASE ~stop /\ m.kind # "poison"
      BY <2>6, <3>3 DEF Receive, Messages
    <3> QED BY <3>1, <3>2, <3>3
  <2>7. CASE BackoffEnds
    BY <2>7 DEF BackoffEnds, Doubled, MaxBackoff, Resume
  <2>8. CASE SetStop
    BY <2>8 DEF SetStop
  <2>9. CASE HermesMutes
    <3>1. mute' \in BOOLEAN /\ UNCHANGED <<sub, backoff, snapshot, stop, errors, heard>>
      BY <2>9 DEF HermesMutes
    <3> QED BY <3>1
  <2>10. CASE UNCHANGED vars
    BY <2>10 DEF vars
  <2> QED BY <2>3, <2>4, <2>5, <2>6, <2>7, <2>8, <2>9, <2>10 DEF Next
<1> QED BY <1>1, <1>2, PTL DEF Spec

-----------------------------------------------------------------------------
(* The delay of a wait is fixed by the number of exceptions before it; for *)
(* that to be inductive a wait must have had an exception.                 *)
Pacing == RetryPacing /\ (sub = "backoff" => errors > 0)

LEMMA DelayValues ==
  /\ Delay(1) = 1 /\ Delay(2) = 2 /\ Delay(3) = 4 /\ Delay(4) = 8
  /\ Delay(5) = 16 /\ Delay(6) = 32 /\ Delay(7) = 60 /\ Delay(8) = 60
BY DEF Delay, MaxErrors

(* One more exception is one step further along the delays. *)
LEMMA DelayStep ==
  ASSUME NEW k \in 1 .. MaxErrors
  PROVE  Delay(k + 1) = Doubled(Delay(k))
<1>1. k \in {1, 2, 3, 4, 5, 6, 7}
  BY DEF MaxErrors
<1> QED BY <1>1, DelayValues DEF Doubled, MaxBackoff

(* run_subscriber waits 1s, 2s, 4s, ..., 60s after consecutive exceptions, *)
(* through any mix of failures, poison messages and clean closes.          *)
THEOREM PacedRetries == Spec => []RetryPacing
<1>1. Init => Pacing
  BY DelayValues DEF Init, Pacing, RetryPacing, InitialBackoff
<1>2. TypeOK /\ Pacing /\ [Next]_vars => Pacing'
  <2> SUFFICES ASSUME TypeOK, Pacing, [Next]_vars PROVE Pacing'
    OBVIOUS
  <2>0. errors \in 0 .. 7
    BY DEF TypeOK, MaxErrors
  <2>1. ASSUME Raise, sub # "backoff" PROVE Pacing'
    <3>1. backoff = Delay(errors + 1)
      BY <2>1 DEF Pacing, RetryPacing
    <3>2. CASE errors < 7
      BY <2>0, <2>1, <3>1, <3>2 DEF Raise, AfterError, Pacing, RetryPacing, MaxErrors
    <3>3. CASE errors = 7
      BY <2>1, <3>1, <3>3, DelayValues DEF Raise, AfterError, Pacing, RetryPacing, MaxErrors
    <3> QED BY <2>0, <3>2, <3>3
  <2>2. ASSUME LeaveCleanly PROVE Pacing'
    BY <2>2, DelayValues
    DEF LeaveCleanly, Resume, AfterCleanExit, InitialBackoff, Pacing, RetryPacing
  <2>3. ASSUME UNCHANGED <<backoff, errors>>, (sub = "backoff") <=> (sub' = "backoff")
        PROVE  Pacing'
    BY <2>3 DEF Pacing, RetryPacing
  <2>4. CASE ConnectOk
    BY <2>3, <2>4 DEF ConnectOk
  <2>5. CASE ConnectFails \/ ErrorClose
    BY <2>1, <2>5 DEF ConnectFails, ErrorClose
  <2>6. CASE CleanClose
    BY <2>2, <2>6 DEF CleanClose
  <2>7. ASSUME NEW m \in Messages, Receive(m) PROVE Pacing'
    BY <2>1, <2>2, <2>3, <2>7 DEF Receive
  <2>8. CASE BackoffEnds
    <3>1. errors \in 1 .. MaxErrors /\ backoff = Delay(errors)
      BY <2>0, <2>8 DEF BackoffEnds, Pacing, RetryPacing, MaxErrors
    <3>2. backoff' = Delay(errors + 1)
      BY <2>8, <3>1, DelayStep DEF BackoffEnds
    <3>3. sub' # "backoff" /\ errors' = errors
      BY <2>8 DEF BackoffEnds, Resume
    <3> QED BY <3>2, <3>3 DEF Pacing, RetryPacing
  <2>9. CASE SetStop
    BY <2>3, <2>9 DEF SetStop
  <2>10. CASE HermesMutes
    BY <2>3, <2>10 DEF HermesMutes
  <2>11. CASE UNCHANGED vars
    BY <2>3, <2>11 DEF vars
  <2> QED BY <2>4, <2>5, <2>6, <2>7, <2>8, <2>9, <2>10, <2>11 DEF Next
<1>3. Pacing => RetryPacing
  BY DEF Pacing
<1> QED BY <1>1, <1>2, <1>3, TypeCorrect, PTL DEF Spec

-----------------------------------------------------------------------------
(* The CHOOSEs of the feed table: each picks from a set that has what it   *)
(* asks for.                                                               *)
LEMMA LeastElement ==
  ASSUME NEW S \in SUBSET Nat, S # {}
  PROVE  \E i \in S : \A j \in S : i <= j
<1>1. PICK i \in S : \A j \in S : ~(<<j, i>> \in OpToRel(<, Nat))
  BY WFMin, NatLessThanWellFounded, Zenon
<1>2. \A j \in S : ~(j < i)
  BY <1>1 DEF OpToRel
<1> QED BY <1>2

LEMMA GreatestElement ==
  ASSUME NEW n \in Nat, NEW S \in SUBSET (1 .. n), S # {}
  PROVE  \E i \in S : \A j \in S : j <= i
<1> DEFINE T == {n - i : i \in S}
<1>1. T \in SUBSET Nat /\ T # {}
  <2>1. \A i \in S : i \in Int /\ i <= n
    OBVIOUS
  <2>2. \A i \in S : n - i \in Nat
    BY <2>1
  <2>3. PICK i \in S : TRUE
    OBVIOUS
  <2>4. n - i \in T
    OBVIOUS
  <2> QED BY <2>2, <2>4
<1>2. PICK t \in T : \A u \in T : t <= u
  <2> HIDE DEF T
  <2> QED BY <1>1, LeastElement
<1>3. PICK i \in S : t = n - i
  BY <1>2
<1>4. ASSUME NEW j \in S PROVE j <= i
  <2>1. n - j \in T
    OBVIOUS
  <2>2. n - i <= n - j
    BY <1>2, <1>3, <2>1
  <2> QED BY <2>2
<1> QED BY <1>4

(* A configured alias has a position of its own and a configured feed id.  *)
LEMMA FeedTable ==
  ASSUME NEW a \in Configured
  PROVE  /\ Position(a) \in 1 .. Len(Feeds) /\ Feeds[Position(a)].alias = a
         /\ FeedOf(a) \in FeedIds
         /\ a \in Claimants(FeedOf(a))
<1>1. Entries(a) \in SUBSET (1 .. Len(Feeds)) /\ Entries(a) # {}
  BY FeedsAssumption DEF Configured, Entries, Usable
<1>2. Len(Feeds) \in Nat
  BY FeedsAssumption
<1>3. Position(a) \in Entries(a)
  <2>1. Entries(a) \in SUBSET Nat
    BY <1>1, <1>2
  <2>2. \E i \in Entries(a) : \A j \in Entries(a) : i <= j
    BY <1>1, <2>1, LeastElement
  <2> QED BY <2>2 DEF Position
<1>4. \E i \in Entries(a) : \A j \in Entries(a) : i >= j
  <2>1. PICK i \in Entries(a) : \A j \in Entries(a) : j <= i
    BY <1>1, <1>2, GreatestElement
  <2> QED BY <1>1, <1>2, <2>1
<1>5. PICK last \in Entries(a) : FeedOf(a) = Feeds[last].id
  BY <1>4 DEF FeedOf
<1>6. FeedOf(a) \in FeedIds
  BY <1>5, FeedsAssumption DEF Entries, Usable
<1> QED BY <1>1, <1>3, <1>6 DEF Entries, Claimants

(* id_to_alias gives a feed id to the last of the aliases that claim it.   *)
LEMMA LastClaimant ==
  ASSUME NEW f, Claimants(f) # {}
  PROVE  /\ AliasOf(f) \in Claimants(f)
         /\ \A b \in Claimants(f) : Position(b) <= Position(AliasOf(f))
<1> DEFINE S == {Position(a) : a \in Claimants(f)}
<1>1. S \in SUBSET (1 .. Len(Feeds)) /\ S # {}
  BY FeedTable DEF Claimants
<1>2. PICK i \in S : \A j \in S : j <= i
  <2> HIDE DEF S
  <2> QED BY <1>1, FeedsAssumption, GreatestElement
<1>3. PICK a \in Claimants(f) : i = Position(a)
  BY <1>2
<1>4. \A b \in Claimants(f) : Position(b) <= Position(a)
  BY <1>2, <1>3
<1> QED BY <1>4 DEF AliasOf

(* An alias is the one its feed id stands for exactly when no alias that   *)
(* claims the same feed comes after it.                                    *)
Wins(a) == \A b \in Claimants(FeedOf(a)) : Position(b) <= Position(a)

LEMMA WinnerIsAlias ==
  ASSUME NEW a \in Configured
  PROVE  Wins(a) <=> a = AliasOf(FeedOf(a))
<1>1. a \in Claimants(FeedOf(a))
  BY FeedTable
<1> DEFINE w == AliasOf(FeedOf(a))
<1>2. w \in Claimants(FeedOf(a)) /\ \A b \in Claimants(FeedOf(a)) : Position(b) <= Position(w)
  BY <1>1, LastClaimant
<1>3. w \in Configured
  BY <1>2 DEF Claimants
<1>4. ASSUME Wins(a) PROVE a = w
  <2>1. Position(w) <= Position(a) /\ Position(a) <= Position(w)
    BY <1>1, <1>2, <1>4 DEF Wins
  <2>2. Position(w) = Position(a)
    <3>1. Position(w) \in Int /\ Position(a) \in Int
      BY <1>3, FeedTable, FeedsAssumption
    <3> QED BY <2>1, <3>1
  <2> QED BY <2>2, <1>3, FeedTable
<1>5. ASSUME a = w PROVE Wins(a)
  BY <1>2, <1>5 DEF Wins
<1> QED BY <1>4, <1>5

(* The snapshot of every alias is the last usable update of its own feed,  *)
(* and an alias whose feed id a later alias claims never gets one.         *)
THEOREM SnapshotFollowsFeeds == Spec => []SnapshotMirrorsFeed
<1> DEFINE Mirror(a) == IF Wins(a) THEN heard[FeedOf(a)] ELSE NoQuote
<1>0. SnapshotMirrorsFeed <=> \A a \in Configured : snapshot[a] = Mirror(a)
  BY DEF SnapshotMirrorsFeed, Wins
<1>1. Init => SnapshotMirrorsFeed
  <2> SUFFICES ASSUME Init, NEW a \in Configured PROVE snapshot[a] = Mirror(a)
    BY <1>0
  <2> QED BY FeedTable DEF Init
<1>2. TypeOK /\ SnapshotMirrorsFeed /\ [Next]_vars => SnapshotMirrorsFeed'
  <2> SUFFICES ASSUME TypeOK, SnapshotMirrorsFeed, [Next]_vars PROVE SnapshotMirrorsFeed'
    OBVIOUS
  <2>1. CASE UNCHANGED <<snapshot, heard>>
    BY <2>1 DEF SnapshotMirrorsFeed
  <2>2. ASSUME NEW m \in Messages,
               snapshot' = [snapshot EXCEPT ![AliasOf(m.feed)] = m.quote],
               heard' = [heard EXCEPT ![m.feed] = m.quote],
               Claimants(m.feed) # {}
        PROVE  SnapshotMirrorsFeed'
    <3> DEFINE w == AliasOf(m.feed)
    <3>1. w \in Configured /\ FeedOf(w) = m.feed
      BY <2>2, LastClaimant DEF Claimants
    <3>2. ASSUME NEW a \in Configured
          PROVE  snapshot'[a] = IF Wins(a) THEN heard'[FeedOf(a)] ELSE NoQuote
      <4>1. snapshot[a] = Mirror(a)
        BY <1>0
      <4>2. CASE a = w
        <5>1. Wins(a)
          BY <3>1, <4>2, WinnerIsAlias
        <5>2. snapshot'[a] = m.quote
          BY <2>2, <3>1, <4>2 DEF TypeOK
        <5>3. heard'[FeedOf(a)] = m.quote
          BY <2>2, <3>1, <4>2 DEF TypeOK, Messages
        <5> QED BY <5>1, <5>2, <5>3
      <4>3. CASE a # w
        <5>1. snapshot'[a] = snapshot[a]
          BY <2>2, <4>3 DEF TypeOK
        <5>2. Wins(a) => FeedOf(a) # m.feed
          BY <4>3, WinnerIsAlias
        <5>3. FeedOf(a) # m.feed => heard'[FeedOf(a)] = heard[FeedOf(a)]
          BY <2>2, FeedTable DEF TypeOK
        <5> QED BY <4>1, <5>1, <5>2, <5>3
      <4> QED BY <4>2, <4>3
    <3> QED BY <3>2 DEF SnapshotMirrorsFeed, Wins
  <2>3. ASSUME NEW m \in Messages, Receive(m) PROVE SnapshotMirrorsFeed'
    BY <2>1, <2>2, <2>3 DEF Receive, LeaveCleanly, Raise, Skipped
  <2>4. CASE ConnectOk \/ ConnectFails \/ CleanClose \/ ErrorClose \/ BackoffEnds \/ SetStop
             \/ HermesMutes
    BY <2>1, <2>4 DEF ConnectOk, ConnectFails, CleanClose, ErrorClose, BackoffEnds, SetStop,
                      HermesMutes, Raise, LeaveCleanly
  <2>5. CASE UNCHANGED vars
    BY <2>1, <2>5 DEF vars
  <2> QED BY <2>3, <2>4, <2>5 DEF Next
<1> QED BY <1>1, <1>2, TypeCorrect, PTL DEF Spec

-----------------------------------------------------------------------------
(* run_subscriber with at least one feed - main does not call it without - *)
(* is the task main gathers: it never returns before the stop event, and   *)
(* once it has returned it does nothing more.                              *)
THEOREM SubscriberIsTask == Configured # {} /\ Spec => AbstractTask!Spec
<1>1. Configured # {} /\ Init => AbstractTask!Init
  BY DEF Init, AbstractTask!Init
<1>2. [Next]_vars => [AbstractTask!Next]_AbstractTask!vars
  <2> SUFFICES ASSUME [Next]_vars PROVE [AbstractTask!Next]_AbstractTask!vars
    OBVIOUS
  <2> USE DEF AbstractTask!Next, AbstractTask!Signal, AbstractTask!Return, AbstractTask!vars
  <2>1. ASSUME sub # "done", sub' = Resume(stop), UNCHANGED stop
        PROVE  [AbstractTask!Next]_AbstractTask!vars
    BY <2>1 DEF Resume
  <2>2. ASSUME sub # "done", sub' # "done", UNCHANGED stop
        PROVE  [AbstractTask!Next]_AbstractTask!vars
    BY <2>2
  <2>3. CASE ConnectOk \/ ConnectFails \/ ErrorClose
    BY <2>2, <2>3 DEF ConnectOk, ConnectFails, ErrorClose, Raise, AfterError
  <2>4. CASE CleanClose
    BY <2>1, <2>4 DEF CleanClose, LeaveCleanly
  <2>5. ASSUME NEW m \in Messages, Receive(m) PROVE [AbstractTask!Next]_AbstractTask!vars
    <3>1. CASE stop
      BY <2>1, <2>5, <3>1 DEF Receive, LeaveCleanly
    <3>2. CASE ~stop
      BY <2>2, <2>5, <3>2 DEF Receive, Raise, AfterError
    <3> QED BY <3>1, <3>2
  <2>6. CASE BackoffEnds
    BY <2>1, <2>6 DEF BackoffEnds
  <2>7. CASE SetStop
    BY <2>7 DEF SetStop
  <2>8. CASE HermesMutes
    BY <2>8 DEF HermesMutes
  <2>9. CASE UNCHANGED vars
    BY <2>9 DEF vars
  <2> QED BY <2>3, <2>4, <2>5, <2>6, <2>7, <2>8, <2>9 DEF Next
<1> QED BY <1>1, <1>2, PTL DEF Spec, AbstractTask!Spec
=============================================================================
