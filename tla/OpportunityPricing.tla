------------------------- MODULE OpportunityPricing -------------------------
(***************************************************************************)
(* How the market analyzer prices one strategy of one matched pair: two    *)
(* books are normalised, sorted and walked level by level, every step is   *)
(* charged slippage (synthetic books only) and the venues' fees, and the   *)
(* total is held against the margin thresholds.  A priced same-outcome     *)
(* opportunity is then simulated by walking the books once more.           *)
(*                                                                         *)
(* Book prices are cents; money and slipped prices are hundred-thousandths *)
(* of a dollar, the grain of Polymarket's fees.  Binary floating point     *)
(* becomes integer arithmetic, rounded down where a slippage ratio does    *)
(* not divide.  One action is one turn of a loop of the code.              *)
(***************************************************************************)
EXTENDS VenueFees, SequencesExt

CONSTANTS
    RawBooks,      \* the books a venue may send: sequences of levels, some malformed
    FreshBooks,    \* what the second fetch, for the simulation, may answer
    MaxTrades,     \* max_trades_per_opportunity of the completeness level
    MinVolume,     \* Config.MIN_TRADEABLE_VOLUME
    Rates          \* the fee rates (in basis points) the live endpoint may answer, 0 for none

Malformed == [price |-> 0, size |-> -1]
BookLevel == [price : Int, size : Nat]

\* Venues send prices and sizes, no size below zero, and levels that cannot be read.
ASSUME PricingAssumption ==
    /\ MinVolume \in Nat
    /\ \A book \in RawBooks \cup FreshBooks : book \in Seq(BookLevel \cup {Malformed})

VARIABLES
    stage,      \* "walk", "priced", "none" (no opportunity) or "simulated"
    kind,       \* "complementary" or "same": which of the two walks
    buyVenue,   \* the venue of bookA; bookB is the other venue's
    synthetic,  \* one of the books was made up from last prices
    bookA, bookB,   \* the two books, normalised and sorted, with the sizes that are left
    depth,      \* the sizes the books started with
    ia, ib,     \* the loop's two indices
    trades,     \* profitable_trades
    took,       \* volume per level of each book, of all turns
    sim         \* the simulated fill

books == <<bookA, bookB, depth>>
inputs == <<kind, buyVenue, synthetic>>
pricingVars == <<stage, inputs, books, ia, ib, trades, took, sim>>

Other(v) == IF v = "kalshi" THEN "polymarket" ELSE "kalshi"

\* _estimate_trade_fee: the venue's formula, else the fallback rate (Kalshi 0, Polymarket 1%).
EstimateTradeFee(venue, p, n) ==
    LET modelled == PmTakerFee(p, n, 500)
    IN IF p * n <= 0 THEN 0
       ELSE IF venue = "kalshi" THEN KalshiTakerFee(p, n)
       ELSE IF modelled > 0 THEN modelled ELSE (p * n) \div 100

(***************************************************************************)
(* _normalize_orderbook_levels                                             *)
(***************************************************************************)
Normalize(raw) == Only(raw, {i \in DOMAIN raw : raw[i] # Malformed})

\* The multipliers of the quick check, in percent: only Polymarket's fallback rate is not 0.
BuyMultiplier(v) == IF v = "polymarket" THEN 101 ELSE 100
SellMultiplier(v) == IF v = "polymarket" THEN 99 ELSE 100

\* Whether two levels may trade at a profit before the exact fees.
Crosses(p, q) ==
    IF kind = "complementary" THEN p + q < 100
    ELSE q * SellMultiplier(Other(buyVenue)) > p * BuyMultiplier(buyVenue)

\* Slippage of a turn, in hundredths of a percent of the price: 0.1% plus up to 1%.
Slippage(n, most) == IF synthetic THEN 10 + (100 * n) \div Max({most, 1}) ELSE 0
SlippedUp(p, s) == p * Cent + (p * s) \div 10
SlippedDown(p, s) == p * Cent - (p * s) \div 10

\* The profit of one turn, as each walk computes it.
Trade(n) ==
    LET s == Slippage(n, Max({bookA[ia].size, bookB[ib].size}))
        pa == SlippedUp(bookA[ia].price, s)
        pb == IF kind = "complementary" THEN SlippedUp(bookB[ib].price, s) ELSE SlippedDown(bookB[ib].price, s)
        fa == EstimateTradeFee(buyVenue, pa, n)
        fb == EstimateTradeFee(Other(buyVenue), pb, n)
        gross == IF kind = "complementary" THEN (Dollar - pa - pb) * n ELSE (pb - pa) * n
    IN [volume |-> n, net |-> gross - fa - fb,
        cost |-> IF kind = "complementary" THEN (pa + pb) * n ELSE pa * n + fa]

Volume(ts) == SumFunction([i \in DOMAIN ts |-> ts[i].volume])
Net(ts) == SumFunction([i \in DOMAIN ts |-> ts[i].net])
Cost(ts) == SumFunction([i \in DOMAIN ts |-> ts[i].cost])

NoFill == [buy |-> <<>>, sell |-> <<>>, net |-> 0, skipped |-> "none"]

(***************************************************************************)
(* A strategy is evaluated on two books.  An empty book, or in the         *)
(* same-outcome walk a best pair that does not cross, ends it at once.     *)
(***************************************************************************)
PricingInit ==
    /\ kind \in {"complementary", "same"}
    /\ buyVenue \in {"kalshi", "polymarket"}
    /\ synthetic \in BOOLEAN
    /\ \E ra \in RawBooks, rb \in RawBooks :
          /\ bookA = Ascending(Normalize(ra))
          /\ bookB = IF kind = "complementary" THEN Ascending(Normalize(rb)) ELSE Descending(Normalize(rb))
    /\ depth = <<SizesOf(bookA), SizesOf(bookB)>>
    /\ took = <<[i \in DOMAIN bookA |-> 0], [i \in DOMAIN bookB |-> 0]>>
    /\ ia = 1 /\ ib = 1 /\ trades = <<>> /\ sim = NoFill
    /\ stage = "walk"

\* The condition of the while loop, and the break when the best pair left does not cross.
Going == ia <= Len(bookA) /\ ib <= Len(bookB) /\ Len(trades) < MaxTrades /\ Crosses(bookA[ia].price, bookB[ib].price)
Tradeable == Min({bookA[ia].size, bookB[ib].size})

\* Too little on one side: the smaller level is passed over.
SkipsSmall ==
    /\ stage = "walk" /\ Going /\ Tradeable < MinVolume
    /\ IF bookA[ia].size <= bookB[ib].size
       THEN ia' = ia + 1 /\ ib' = ib
       ELSE ib' = ib + 1 /\ ia' = ia
    /\ UNCHANGED <<stage, inputs, books, trades, took, sim>>

\* The bookkeeping of one turn; writesBack says whether the smaller sizes are
\* written back to the books.
Takes(n, writesBack) ==
    LET left(book, i) == [book EXCEPT ![i].size = @ - n]
    IN /\ trades' = IF Trade(n).net > 0 THEN Append(trades, Trade(n)) ELSE trades
       /\ took' = IF Trade(n).net > 0
                  THEN <<[took[1] EXCEPT ![ia] = @ + n], [took[2] EXCEPT ![ib] = @ + n]>>
                  ELSE took
       /\ bookA' = IF writesBack THEN left(bookA, ia) ELSE bookA
       /\ bookB' = IF writesBack THEN left(bookB, ib) ELSE bookB
       /\ ia' = IF bookA[ia].size <= n THEN ia + 1 ELSE ia
       /\ ib' = IF bookB[ib].size <= n THEN ib + 1 ELSE ib
       /\ UNCHANGED <<stage, inputs, depth, sim>>

\* A bug this turn could have: forgetting to write the smaller sizes back.
TakesComplementary_NoWriteBack ==
    stage = "walk" /\ kind = "complementary" /\ Going /\ Tradeable >= MinVolume /\ Takes(Tradeable, FALSE)

\* _calculate_complementary_volume writes the remaining sizes back into its books.
TakesComplementary ==
    stage = "walk" /\ kind = "complementary" /\ Going /\ Tradeable >= MinVolume /\ Takes(Tradeable, TRUE)

\* _calculate_overlapping_volume decrements the copies it made of the two
\* levels and leaves the lists alone.
TakesSameOutcome ==
    stage = "walk" /\ kind = "same" /\ Going /\ Tradeable >= MinVolume /\ Takes(Tradeable, FALSE)

\* The margin test that ends both strategies: at least 2%, at most 15% of the cost.
Plausible == /\ trades # <<>>
             /\ 100 * Net(trades) >= 2 * Cost(trades)
             /\ 100 * Net(trades) <= 15 * Cost(trades)

Finish ==
    /\ stage = "walk" /\ ~Going
    /\ stage' = IF Plausible THEN "priced" ELSE "none"
    /\ UNCHANGED <<inputs, books, ia, ib, trades, took, sim>>

(***************************************************************************)
(* MockExecutionEngine.execute_market: fill both sides from the top of the *)
(* fresh books, cut both to the smaller fill, charge each fill its fee.    *)
(* The Polymarket rate is asked of the venue and 0 when that fails.        *)
(***************************************************************************)
FillFrom(book, target) ==
    LET take == TakenFrom(book, target)
    IN Only([i \in DOMAIN book |-> [price |-> book[i].price, size |-> take[i]]], {i \in DOMAIN book : take[i] > 0})

\* _truncate_fills
TruncateFills(fills, target) == FillFrom(fills, target)

Filled(fills) == SumFunction(SizesOf(fills))
Notional(fills) == SumFunction([i \in DOMAIN fills |-> fills[i].price * fills[i].size * Cent])
Fee(venue, f, bps) ==
    IF venue = "kalshi" THEN KalshiTakerFee(f.price * Cent, f.size) ELSE PmTakerFee(f.price * Cent, f.size, bps)
Fees(venue, fills, bps) == SumFunction([i \in DOMAIN fills |-> Fee(venue, fills[i], bps)])

\* execute_market on the books it was given.
ExecuteMarket(asks, bids, volume, bps) ==
    LET buys == FillFrom(Ascending(asks), volume)
        sells == FillFrom(Descending(bids), volume)
        filled == Min({Filled(buys), Filled(sells)})
        buy == TruncateFills(buys, filled)
        sell == TruncateFills(sells, filled)
    IN IF asks = <<>> \/ bids = <<>> THEN [NoFill EXCEPT !.skipped = "empty_orderbook"]
       ELSE IF filled <= 0 THEN [NoFill EXCEPT !.skipped = "no_liquidity"]
       ELSE [buy |-> buy, sell |-> sell, skipped |-> "none",
             net |-> Notional(sell) - Notional(buy) - Fees(buyVenue, buy, bps)
                     - Fees(Other(buyVenue), sell, bps)]

\* _simulate_opportunity: complementary trades are not simulated; the books
\* are fetched again and may have moved.
Simulate ==
    /\ stage = "priced"
    /\ \/ /\ kind = "complementary"
          /\ sim' = [NoFill EXCEPT !.skipped = "complementary"]
          /\ UNCHANGED depth
       \/ /\ kind = "same"
          /\ \E ra \in FreshBooks, rb \in FreshBooks, bps \in Rates :
                LET asks == Normalize(ra)
                    bids == Normalize(rb)
                IN /\ sim' = ExecuteMarket(asks, bids, Volume(trades), bps)
                   /\ depth' = <<SizesOf(Ascending(asks)), SizesOf(Descending(bids))>>
    /\ stage' = "simulated"
    /\ UNCHANGED <<inputs, bookA, bookB, ia, ib, trades, took>>

PricingNext == SkipsSmall \/ TakesComplementary \/ TakesSameOutcome \/ Finish \/ Simulate

PricingSpec == PricingInit /\ [][PricingNext]_pricingVars

-----------------------------------------------------------------------------
\* However the levels of the two books interlock, the complementary walk never
\* prices more volume at a level than the level offers; and a simulated fill is
\* hedged and possible: both sides have the same size, no more than was priced
\* and no more than the books fetched again hold.
FilledWithinDepth ==
    /\ kind = "complementary" /\ stage # "simulated" =>
           \A i \in 1..2 : \A l \in DOMAIN took[i] : took[i][l] <= depth[i][l]
    /\ stage = "simulated" =>
           /\ Filled(sim.buy) = Filled(sim.sell)
           /\ Filled(sim.buy) <= Volume(trades)
           /\ \A i \in 1..2 : Filled(sim.buy) <= SumFunction(depth[i])

=============================================================================
