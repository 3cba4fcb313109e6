---------------------------- MODULE EventScreens ----------------------------
(***************************************************************************)
(* The single-venue structures of the arbitrage monitor: buying YES or NO  *)
(* on every market of an event, and buying YES on a lower and NO on a      *)
(* higher rung of a ladder of thresholds; and the walk that prices a       *)
(* basket of ask ladders bought together.                                  *)
(*                                                                         *)
(* An event is                                                             *)
(*   [exclusive, exhaustive, asks, bids, rungs]                            *)
(* with the best ask and bid of each of its markets in cents (an ask of 0  *)
(* is none) and the threshold of each, or 0.  A ladder is a sequence of    *)
(* [price (cents), size, venue].                                           *)
(***************************************************************************)
EXTENDS VenueFees, Sequences, FiniteSets, SequencesExt

CONSTANTS
    MinGross,   \* min_gross, in cents
    PmFeeBps    \* --pm-fee-bps

Total(s) == FoldLeft(LAMBDA acc, x : acc + x, 0, s)
Markets(e) == DOMAIN e.asks

\* A bug the YES screen could have: the event need not cover every outcome.
DutchYes_Any(e) ==
    /\ e.exclusive /\ Len(e.asks) >= 2
    /\ Total([i \in Markets(e) |-> IF e.asks[i] <= 0 THEN 900 ELSE e.asks[i]]) < 100 - MinGross

\* kalshi_event_screens, pm_event_screens
DutchYes(e) ==
    /\ e.exclusive /\ Len(e.asks) >= 2 /\ e.exhaustive
    /\ Total([i \in Markets(e) |-> IF e.asks[i] <= 0 THEN 900 ELSE e.asks[i]]) < 100 - MinGross
DutchNo(e) ==
    /\ e.exclusive /\ Len(e.bids) >= 2
    /\ Total(e.bids) > 100 + MinGross

\* kalshi_ladder_screens: the two rungs whose prices are out of order the most.
RungPairs(e) ==
    {r \in Markets(e) \X Markets(e) :
        /\ ~e.exclusive /\ 0 < e.rungs[r[1]] /\ e.rungs[r[1]] < e.rungs[r[2]]
        /\ e.asks[r[1]] > 0 /\ e.bids[r[2]] > 0 /\ e.bids[r[2]] - e.asks[r[1]] > MinGross}
IsLadder(e, r) == r \in RungPairs(e) /\ \A q \in RungPairs(e) : e.bids[q[2]] - e.asks[q[1]] <= e.bids[r[2]] - e.asks[r[1]]

\* A candidate is the event, its kind, the markets whose YES and NO it buys, and
\* what the walk takes the basket to pay, in dollars.
Candidates(e) ==
    LET every == Markets(e)   none == {}
    IN {[kind |-> "dutch_yes", yes |-> every, no |-> none, payout |-> 1] : x \in {y \in {0} : DutchYes(e)}}
       \cup {[kind |-> "dutch_no", yes |-> none, no |-> every, payout |-> Len(e.asks) - 1] : x \in {y \in {0} : DutchNo(e)}}
       \cup {[kind |-> "ladder", yes |-> {r[1]}, no |-> {r[2]}, payout |-> 1] : r \in {q \in RungPairs(e) : IsLadder(e, q)}}

(***************************************************************************)
(* walk_basket, one turn of its loop per element of the fold: at every     *)
(* turn the best level of each ladder is bought in the smallest size, as   *)
(* long as that pays after fees.                                           *)
(***************************************************************************)
Start(ladders) == [left |-> ladders, n |-> 0, cost |-> [i \in DOMAIN ladders |-> 0], fees |-> 0, going |-> TRUE]

DropEmpty(ladder) == IF ladder # <<>> /\ Head(ladder).size <= 0 THEN Tail(ladder) ELSE ladder

Turn(s, payout) ==
    LET legs == DOMAIN s.left
        top == [i \in legs |-> Head(s.left[i])]
        step == Min({top[i].size : i \in legs})
        price == Total([i \in legs |-> top[i].price]) * Cent
        fees == Total([i \in legs |-> IF top[i].venue = "kalshi" THEN KalshiTakerFee(top[i].price * Cent, step)
                                      ELSE PmTakerFee(top[i].price * Cent, step, PmFeeBps)])
    IN IF \E i \in legs : s.left[i] = <<>> THEN [s EXCEPT !.going = FALSE]
       ELSE IF step <= 0 THEN [s EXCEPT !.left = [i \in legs |-> DropEmpty(s.left[i])]]
       ELSE IF (payout * Dollar - price) * step - fees <= 0 THEN [s EXCEPT !.going = FALSE]
       ELSE [s EXCEPT !.n = @ + step, !.cost = [i \in legs |-> @[i] + top[i].price * Cent * step], !.fees = @ + fees,
                      !.left = [i \in legs |-> DropEmpty([s.left[i] EXCEPT ![1].size = @ - step])]]

WalkBasket(ladders, payout) ==
    LET turns == Total([i \in DOMAIN ladders |-> 2 * Len(ladders[i])])
    IN FoldLeft(LAMBDA s, x : IF s.going THEN Turn(s, payout) ELSE s, Start(ladders), [x \in 1..turns |-> x])

Net(s, payout) == payout * Dollar * s.n - Total(s.cost) - s.fees

\* walk_complementary: the same walk over two legs, but the result is charged one
\* fee per leg at the leg's average price.
NetComplementary(s, venues) ==
    LET avg(i) == s.cost[i] \div s.n
        fee(i) == IF venues[i] = "kalshi" THEN KalshiTakerFee(avg(i), s.n) ELSE PmTakerFee(avg(i), s.n, PmFeeBps)
    IN IF s.n = 0 THEN 0 ELSE Dollar * s.n - Total(s.cost) - fee(1) - fee(2)

-----------------------------------------------------------------------------
\* How an event can end: the markets that resolve YES.
Outcomes(e) ==
    {w \in SUBSET Markets(e) :
        /\ e.exclusive => Cardinality(w) <= 1
        /\ e.exhaustive => w # {}
        /\ \A i, j \in Markets(e) : 0 < e.rungs[i] /\ e.rungs[i] < e.rungs[j] /\ j \in w => i \in w}

Pays(c, w) == Cardinality(c.yes \cap w) + Cardinality(c.no \ w)
=============================================================================
