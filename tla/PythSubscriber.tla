--------------------------- MODULE PythSubscriber ---------------------------
(***************************************************************************)
(* The Pyth Hermes websocket subscriber (pyth_ws.py): it connects,         *)
(* subscribes to the configured feeds, mirrors every usable update in an   *)
(* in-memory snapshot and, when the connection fails, waits and tries      *)
(* again.  The Hermes server, the network and the signal handler that sets *)
(* stop_event are the environment.                                         *)
(*                                                                         *)
(* A price update is reduced to what the subscriber tells apart: its feed  *)
(* id, whether it can be used, and an opaque quote (price, band, publish   *)
(* time).  errors and heard are history variables of the properties.       *)
(***************************************************************************)
EXTENDS Integers, Sequences

CONSTANTS
  Feeds,        \* pyth_feed_ids_csv: a sequence of [alias, id] pairs
  FeedIds,      \* the feed ids messages may carry, configured or not
  Quotes,       \* what an update may say of a price
  NoId,         \* the id of a pair whose id is missing or empty
  NoQuote       \* an alias without a snapshot

ASSUME QuoteAssumption == NoQuote \notin Quotes
ASSUME FeedsAssumption ==
  /\ Len(Feeds) \in Nat /\ DOMAIN Feeds = 1 .. Len(Feeds)
  /\ NoId \notin FeedIds
  /\ \A i \in DOMAIN Feeds : Feeds[i].id \in FeedIds \cup {NoId}

VARIABLES
  sub,          \* where run_subscriber is
  backoff,      \* backoff_sec
  snapshot,     \* PythSnapshot._snapshots
  stop,         \* stop_event
  mute,         \* Hermes answers the pings and sends nothing else
  errors,       \* exceptions since the last clean exit, up to MaxErrors
  heard         \* per feed id, the last usable quote received before the stop

vars == <<sub, backoff, snapshot, stop, mute, errors, heard>>

-----------------------------------------------------------------------------
(* parse_feed_ids: a dict, so a repeated alias keeps its first position    *)
(* and its last id.                                                        *)
Usable == {i \in DOMAIN Feeds : Feeds[i].id # NoId}
Configured == {Feeds[i].alias : i \in Usable}
Entries(a) == {i \in Usable : Feeds[i].alias = a}
Position(a) == CHOOSE i \in Entries(a) : \A j \in Entries(a) : i <= j
FeedOf(a) == Feeds[CHOOSE i \in Entries(a) : \A j \in Entries(a) : i >= j].id

Claimants(f) == {a \in Configured : FeedOf(a) = f}

(* Mutated form: the first alias of a feed id wins. *)
FirstAliasOf(f) ==
  CHOOSE a \in Claimants(f) : \A b \in Claimants(f) : Position(a) <= Position(b)

(* id_to_alias: of several aliases with one feed id the last one wins. *)
AliasOf(f) ==
  CHOOSE a \in Claimants(f) : \A b \in Claimants(f) : Position(b) <= Position(a)

(* What the server may send.  "noise": undecodable, of another type or     *)
(* without an id.  "poison": decodes to something the handler does not     *)
(* expect (not an object, an id that is not a string, an exponent that is  *)
(* not a number) and raises out of the receive loop.  "unusable":          *)
(* _parse_price_update returns None.  "update": it returns a price.        *)
Messages ==
  [kind : {"noise", "poison", "unusable", "update"}, feed : FeedIds, quote : Quotes]

-----------------------------------------------------------------------------
InitialBackoff == 1
MaxBackoff == 60
MaxErrors == 7

(* Mutated form: the delay grows without its cap. *)
DoubleUncapped(b) == 2 * b

(* min(60.0, backoff_sec * 2.0) *)
Doubled(b) == IF 2 * b < MaxBackoff THEN 2 * b ELSE MaxBackoff

(* Mutated form: a clean exit leaves the delay as it is. *)
KeepAfterCleanExit(b) == b

(* backoff_sec after a clean exit *)
AfterCleanExit(b) == InitialBackoff

(* Mutated form: the loop runs without looking at stop_event. *)
ResumeAlways(stopping) == "connecting"

(* The head of the while loop *)
Resume(stopping) == IF stopping THEN "done" ELSE "connecting"

(* Mutated form: an exception ends the subscriber. *)
DieAfterError(b) == "done"

(* Where an exception leaves the loop: waiting before the next attempt *)
AfterError(b) == "backoff"

TypeOK ==
  /\ sub \in {"connecting", "streaming", "backoff", "done"}
  /\ backoff \in {1, 2, 4, 8, 16, 32, 60}
  /\ snapshot \in [Configured -> Quotes \cup {NoQuote}]
  /\ {stop, mute} \subseteq BOOLEAN
  /\ errors \in 0 .. MaxErrors
  /\ heard \in [FeedIds -> Quotes \cup {NoQuote}]

(* Without a single feed run_subscriber logs and returns. *)
Init ==
  /\ sub = IF Configured = {} THEN "done" ELSE "connecting"
  /\ backoff = InitialBackoff
  /\ snapshot = [a \in Configured |-> NoQuote]
  /\ stop = FALSE /\ mute = FALSE
  /\ errors = 0
  /\ heard = [f \in FeedIds |-> NoQuote]

Raise ==
  /\ sub' = AfterError(backoff)
  /\ errors' = IF errors < MaxErrors THEN errors + 1 ELSE MaxErrors
  /\ UNCHANGED <<backoff, snapshot, stop, mute, heard>>

LeaveCleanly ==
  /\ sub' = Resume(stop)
  /\ backoff' = AfterCleanExit(backoff)
  /\ errors' = 0
  /\ UNCHANGED <<snapshot, stop, mute, heard>>

ConnectOk ==
  /\ sub = "connecting"
  /\ sub' = "streaming"
  /\ UNCHANGED <<backoff, snapshot, stop, mute, errors, heard>>

ConnectFails ==
  /\ sub = "connecting"
  /\ Raise

(* The continue statements of the receive loop *)
Skipped(m) == m.kind \in {"noise", "unusable"} \/ Claimants(m.feed) = {}

(* One iteration of "async for raw in ws": the stop check comes first. *)
Receive(m) ==
  /\ sub = "streaming" /\ ~mute
  /\ IF stop THEN LeaveCleanly
     ELSE IF m.kind = "poison" THEN Raise
     ELSE /\ IF Skipped(m) THEN UNCHANGED <<snapshot, heard>>
             ELSE /\ snapshot' = [snapshot EXCEPT ![AliasOf(m.feed)] = m.quote]
                  /\ heard' = [heard EXCEPT ![m.feed] = m.quote]
          /\ UNCHANGED <<sub, backoff, stop, mute, errors>>

(* The server closes with an OK code: the iteration just ends. *)
CleanClose ==
  /\ sub = "streaming"
  /\ LeaveCleanly

(* The connection breaks or its keepalive times out. *)
ErrorClose ==
  /\ sub = "streaming"
  /\ Raise

(* The wait ends: by its timeout, or at once because of stop_event. *)
BackoffEnds ==
  /\ sub = "backoff"
  /\ backoff' = Doubled(backoff)
  /\ sub' = Resume(stop)
  /\ UNCHANGED <<snapshot, stop, mute, errors, heard>>

SetStop ==
  /\ stop' = TRUE
  /\ UNCHANGED <<sub, backoff, snapshot, mute, errors, heard>>

(* A live server falls silent - no update, no close - or speaks again.     *)
HermesMutes ==
  /\ mute' = ~mute
  /\ UNCHANGED <<sub, backoff, snapshot, stop, errors, heard>>

Next ==
  \/ ConnectOk \/ ConnectFails
  \/ \E m \in Messages : Receive(m)
  \/ CleanClose \/ ErrorClose
  \/ BackoffEnds
  \/ SetStop
  \/ HermesMutes

Spec == Init /\ [][Next]_vars

StreamMoves == CleanClose \/ ErrorClose \/ \E m \in Messages : Receive(m)

(* An attempt to connect returns (open_timeout), a wait times out, and a   *)
(* connection delivers a message or closes, unless Hermes is mute: the     *)
(* keepalive pings close a dead connection, not a silent one.  Among       *)
(* repeated attempts some succeed.                                         *)
Fairness ==
  /\ WF_vars(ConnectOk \/ ConnectFails) /\ SF_vars(ConnectOk)
  /\ WF_vars(BackoffEnds)
  /\ WF_vars(~mute /\ StreamMoves)

FairSpec == Spec /\ Fairness

-----------------------------------------------------------------------------
(* The delays run_subscriber's comment promises: 1s, 2s, 4s, ..., 60s cap. *)
Delay(k) == <<1, 2, 4, 8, 16, 32, 60>>[IF k < MaxErrors THEN k ELSE MaxErrors]

(* After the k-th exception in a row the subscriber waits Delay(k) before  *)
(* it tries again, and the delay the next exception will use is always one *)
(* step ahead - through any mix of failed attempts, broken connections,    *)
(* poison messages and clean closes.                                       *)
RetryPacing ==
  backoff = Delay(IF sub = "backoff" THEN errors ELSE errors + 1)

(* The snapshot is the last usable update of the alias's own feed,         *)
(* whatever reconnects, malformed messages and foreign feeds came between, *)
(* and no later than the stop.  An alias whose feed id a later alias       *)
(* claims as well never gets a snapshot.                                   *)
SnapshotMirrorsFeed ==
  \A a \in Configured :
    snapshot[a] =
      IF \A b \in Claimants(FeedOf(a)) : Position(b) <= Position(a)
      THEN heard[FeedOf(a)] ELSE NoQuote

(* The subscriber is a task as main expects it: it never returns before    *)
(* the stop signal, and after it does, wherever it is: in an attempt, in a *)
(* stream or in a wait - unless Hermes is mute for ever.  stop_event is    *)
(* looked at when a message arrives, so a live connection that brings none *)
(* holds the task until it closes.                                         *)
AbstractTask == INSTANCE Task WITH returned <- sub = "done"
ImplementsTask == AbstractTask!Spec /\ (<>[]~mute => AbstractTask!Returns)

(* A subscriber that is not connected connects again, unless stopped: no   *)
(* exception ends the loop.                                                *)
Reconnects == sub # "streaming" ~> sub = "streaming" \/ stop

(* run_subscriber's comment: "Reconnects with exponential backoff on       *)
(* disconnect (1s, 2s, 4s, ..., 60s cap)".  A connection that ends without *)
(* a stop is followed by a wait.                                           *)
DisconnectBacksOff ==
  [][sub = "streaming" /\ sub' # "streaming" /\ ~stop => sub' = "backoff"]_vars
=============================================================================
