--------------------------- MODULE MCMarketFeed ---------------------------
EXTENDS MarketFeed, TLC
CONSTANTS k1, k2, m1, m2, m3

Pages == k1 :> 1 @@ k2 :> 2 @@ m1 :> 1 @@ m2 :> 2 @@ m3 :> 3
\* The second Kalshi market is found by its series alone when its page fails.
Kinds == k1 :> "a" @@ k2 :> "b"
=============================================================================
