---------------------------- MODULE OracleFeeds -----------------------------
(***************************************************************************)
(* The two feeds of one asset as compute_divergence meets them: each       *)
(* publishes a price now and then, grows older in between, and may stop    *)
(* for good.  The websocket snapshot keeps Pyth's last price for ever, and *)
(* Chainlink's key is kept by its own service.                             *)
(***************************************************************************)
EXTENDS Divergence

CONSTANTS
  Prices,       \* the prices the feeds publish
  Bands,        \* the confidence bands of Pyth
  MaxAge        \* bound: older prices are not told apart

ASSUME FeedAssumption == Prices \subseteq Int /\ Bands \subseteq Nat /\ MaxAge \in Nat

VARIABLES
  pyth,         \* Pyth's price, with time the negated age
  chainlink     \* Chainlink's

vars == <<pyth, chainlink>>

Init ==
  /\ pyth \in [price : Prices, band : Bands, time : {0}]
  /\ chainlink \in [price : Prices, time : {0}]

PythPublishes ==
  /\ pyth' \in [price : Prices, band : Bands, time : {0}]
  /\ UNCHANGED chainlink

ChainlinkPublishes ==
  /\ chainlink' \in [price : Prices, time : {0}]
  /\ UNCHANGED pyth

Older(p) == [p EXCEPT !.time = AtLeast(-MaxAge, @ - 1)]

Tick == pyth' = Older(pyth) /\ chainlink' = Older(chainlink)

Next == PythPublishes \/ ChainlinkPublishes \/ Tick

Spec == Init /\ [][Next]_vars

-----------------------------------------------------------------------------
Score == DivergenceScore(pyth, chainlink)

TypeOK ==
  /\ pyth \in [price : Prices, band : Bands, time : -MaxAge .. 0]
  /\ chainlink \in [price : Prices, time : -MaxAge .. 0]
  /\ Score \in 0 .. Unit

(* With Pyth's price fixed, a Chainlink price further away on the same     *)
(* side, as long as it is positive, never scores less: the band, the       *)
(* threshold and the ramp of compute_divergence leave no gap.              *)
WiderGapNeverScoresLess ==
  \A p \in Prices :
    \/ pyth.price < chainlink.price /\ chainlink.price <= p
    \/ pyth.price > chainlink.price /\ chainlink.price >= p /\ p > 0
    => Score <= DivergenceScore(pyth, [chainlink EXCEPT !.price = p])

(* Without a band neither oracle is privileged: exchanging the two prices  *)
(* does not change the score.                                              *)
SidesAgree ==
  pyth.band = 0 =>
    Score = DivergenceScore([pyth EXCEPT !.price = chainlink.price],
                            [chainlink EXCEPT !.price = pyth.price])

(* "5bps -> 0.05": a divergence that scores at all scores at least what    *)
(* the significance threshold stands for.                                  *)
SignalFloor == Score > 0 => Score >= (SignificanceBps * Unit) \div 100

(* A feed that stopped while the other one goes on is silenced once it is  *)
(* MaxAgeDiff behind, whichever of the two it is.                          *)
LaggingFeedSilent ==
  /\ pyth.time = 0 /\ chainlink.time < -MaxAgeDiff => Score = 0
  /\ chainlink.time = 0 /\ pyth.time < -MaxAgeDiff => Score = 0

(* README: "Each component returns score=0.0 with a typed reason when not  *)
(* actionable (stale feed, ...)".  compute_divergence only compares the    *)
(* two ages with each other.                                               *)
StaleFeedScoresZero ==
  pyth.time < -MaxAgeDiff \/ chainlink.time < -MaxAgeDiff => Score = 0
=============================================================================
