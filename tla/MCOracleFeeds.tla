---------------------------- MODULE MCOracleFeeds ---------------------------
(* Prices from 0 to 101 basis points apart, with steps around the 5 bps     *)
(* threshold, the band of 8 and the top of the ramp, and one that is not    *)
(* positive.  A tick is 10 seconds.                                         *)
EXTENDS OracleFeeds
MCPrices == {0, 9900, 9990, 9995, 9996, 10000, 10004, 10006, 10050, 10100, 10101}
=============================================================================
