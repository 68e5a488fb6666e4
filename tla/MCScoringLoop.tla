---------------------------- MODULE MCScoringLoop ---------------------------
(* btc has two quotes, one of them 1% away from Chainlink's price with a    *)
(* band six times as wide; eth has one quote and no Chainlink price; usdc   *)
(* has a Pyth feed only.                                                    *)
EXTENDS ScoringLoop
CONSTANTS btc, eth, usdc

Quote(p, b, t) == [price |-> p, band |-> b, time |-> t]
Calm == Quote(10000, 1, 1)
Wild == Quote(9900, 6, 1)
Listed == [price |-> 10000, time |-> 1]

(* What is published: two assets, no time passes *)
TwoAssets == <<btc, eth>>
TwoQuotes == [a \in {btc, eth} |-> IF a = btc THEN {Calm, Wild} ELSE {Calm}]
TwoKeys == [a \in {btc, eth} |-> IF a = btc THEN {NoPrice, Listed} ELSE {NoPrice}]

(* When it is published: one scored asset, and one with a Pyth feed only,   *)
(* whose quote changes.  No read is poisoned, but each may raise.           *)
OneAsset == <<btc>>
TimedQuotes == [a \in {btc, usdc} |-> IF a = usdc THEN {Calm, Wild} ELSE {Calm}]
TimedKeys == [a \in {btc} |-> {NoPrice}]

(* Who suffers from a malformed key: btc's may be one, eth's never          *)
PoisonedKeys == [a \in {btc, eth} |-> IF a = btc THEN {NoPrice, Poison} ELSE {NoPrice}]
CalmQuotes == [a \in {btc, eth} |-> {Calm}]
=============================================================================
