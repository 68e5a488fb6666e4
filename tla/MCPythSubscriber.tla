------------------------- MODULE MCPythSubscriber ---------------------------
(* Three aliases: one feed of its own, two that share a feed id (the first  *)
(* of them is configured twice, with its id corrected), a pair without an   *)
(* id, and a foreign feed id the server also sends.                         *)
EXTENDS PythSubscriber
CONSTANTS btc, eth, weth, fBtc, fEth, fForeign
Pair(a, f) == [alias |-> a, id |-> f]
MCFeeds == <<Pair(eth, fBtc), Pair(btc, fBtc), Pair(weth, NoId), Pair(weth, fEth),
             Pair(eth, fEth)>>
MCFeedIds == {fBtc, fEth, fForeign}
=============================================================================
