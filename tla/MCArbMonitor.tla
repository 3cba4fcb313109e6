---------------------------- MODULE MCArbMonitor ----------------------------
EXTENDS ArbMonitor
CONSTANTS g1, u1, u2

\* The book feed without the lists, and the lists without the book feed.
TwoOptions == {[ws |-> TRUE, screens |-> FALSE, cached |-> FALSE], [ws |-> FALSE, screens |-> TRUE, cached |-> TRUE]}
USTurns == <<u1, u2>>
Lvl(p, n, v) == [price |-> p, size |-> n, venue |-> v]
PairLadders == {<<<<Lvl(40, 2, "kalshi"), Lvl(45, 1, "kalshi")>>, <<Lvl(50, 3, "pm")>>>>,
                <<<<Lvl(48, 2, "kalshi")>>, <<Lvl(51, 2, "pm")>>>>}
LegLadders == {<<Lvl(43, 5, "kalshi"), Lvl(45, 5, "pm")>>, <<Lvl(60, 5, "kalshi")>>}
Ev(x, y, a, b, r) == [exclusive |-> x, exhaustive |-> y, asks |-> a, bids |-> b, rungs |-> r]
Events == {Ev(TRUE, TRUE, <<30, 30>>, <<20, 20>>, <<0, 0>>), Ev(TRUE, FALSE, <<30, 30>>, <<55, 55>>, <<0, 0>>),
           Ev(FALSE, FALSE, <<30, 60>>, <<20, 55>>, <<5, 10>>)}
=============================================================================
