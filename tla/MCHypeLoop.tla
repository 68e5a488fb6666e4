----------------------------- MODULE MCHypeLoop -----------------------------
(* Streams' price is stale; RedStone's is higher or negative; Hyperliquid's *)
(* lies close to RedStone's, or is no number.  Streams is furthest off when *)
(* there are three prices, and the others lead when there are two.          *)
EXTENDS HypeLoop

MCStreamsReadings == {[price |-> 95, age |-> 2]}
MCMids == {100, NotANumber, Infinite}
=============================================================================
