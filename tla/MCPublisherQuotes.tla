------------------------- MODULE MCPublisherQuotes --------------------------
(* Up to five publishers; quotes that differ by less than the threshold, in *)
(* the middle and the upper band of the ramp and beyond it, and one that is *)
(* not positive.                                                            *)
EXTENDS PublisherQuotes
MCPrices == {0, 10000, 10001, 10015, 10030, 10080}
=============================================================================
