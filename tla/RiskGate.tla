----------------------------- MODULE RiskGate -----------------------------
(***************************************************************************)
(* The risk gate of the executor's pre-flight checks: an opportunity with  *)
(* the two venues' books attached is scored by the risk engine and refused *)
(* above a score, or below a confidence; any error refuses it; without a   *)
(* book the gate abstains and lets it pass.                                *)
(*                                                                         *)
(* Book prices are cents.  A slippage is counted in hundred-thousandths of *)
(* the best price, which is a thousandth of a point of the risk score, so  *)
(* one unit serves both; square roots and quotients are rounded down.      *)
(***************************************************************************)
EXTENDS VenueFees, SequencesExt

CONSTANTS
    RiskOpportunities,   \* the opportunities: buyer, sellers' venue, size, margin
    RiskBooks,           \* the raw books a venue may have sent, and NoRiskBook
    NoRiskBook           \* the None of a book that is not attached

\* A venue's book has prices from nothing up and no size below zero; -1 stands for no time.
RiskLevel == [price : Nat, size : Nat]
RiskBook == [bids : Seq(RiskLevel), asks : Seq(RiskLevel), age : Int]
RiskOpportunity == [buyer : {"kalshi", "polymarket"}, seller : {"kalshi", "polymarket"}, size : Nat,
                    margin : Int, readable : BOOLEAN]

ASSUME RiskAssumption ==
    /\ RiskOpportunities \subseteq RiskOpportunity
    /\ RiskBooks \subseteq RiskBook \cup {NoRiskBook} /\ NoRiskBook \notin RiskBook

VARIABLES
    asked,          \* opp: the opportunity, and the raw books of its two venues
    riskVerdict     \* "unasked", "pass" or the reason of the refusal

riskVars == <<asked, riskVerdict>>

MaxRiskScore == 60000
MinRiskConfidence == 30    \* percent
StaleAfter == 30           \* seconds
RiskVenues == {"kalshi", "polymarket"}

(***************************************************************************)
(* DataNormalizer.normalize_orderbook.                                     *)
(***************************************************************************)
\* A Kalshi price is taken for cents when it is above 1: one cent becomes a dollar.
DollarsOrCents(x) == IF x > 1 THEN x ELSE 100 * x

\* A bug the sort could have: the two sides the other way round.
SortSides_Swapped(bids, asks) == [bids |-> Ascending(bids), asks |-> Descending(asks)]

SortSides(bids, asks) == [bids |-> Descending(bids), asks |-> Ascending(asks)]

NormalLevels(levels, venue) ==
    IF venue = "kalshi" THEN [i \in DOMAIN levels |-> [levels[i] EXCEPT !.price = DollarsOrCents(@)]]
    ELSE levels

\* normalize_timestamp(...) or now(): a book without a time is a fresh one.
AgeOf(raw) == IF raw.age = -1 THEN 0 ELSE raw.age

NormalBook(raw, venue) ==
    IF raw = NoRiskBook THEN NoRiskBook
    ELSE LET sides == SortSides(NormalLevels(raw.bids, venue), NormalLevels(raw.asks, venue))
         IN [bids |-> sides.bids, asks |-> sides.asks, age |-> AgeOf(raw)]

(***************************************************************************)
(* SlippageModel.                                                          *)
(***************************************************************************)
Least(x, y) == IF x < y THEN x ELSE y
Root(n) == CHOOSE r \in 0..n : r * r <= n /\ n < (r + 1) * (r + 1)
TotalOf(levels) == SumFunction(SizesOf(levels))
DepthOf(levels) == TotalOf(SubSeq(levels, 1, Least(10, Len(levels))))

\* MarketImpactModel.calculate_impact: linear plus square root of the share of the depth.
CalculateImpact(size, depth) ==
    IF depth <= 0 THEN 5000
    ELSE Least(5000, (10 * size) \div depth + Root((10000 * size) \div depth))

\* What a taking of so much from each level costs.
CostOf(levels, taking) == SumFunction([i \in DOMAIN levels |-> taking[i] * levels[i].price])

\* What the walk from the first level paid, and for how many.
Walk(levels, size) ==
    LET fill == TakenFrom(levels, size)
    IN [got |-> SumFunction(fill), cost |-> CostOf(levels, fill)]

Distance(x, y) == IF x < y THEN y - x ELSE x - y

\* _walk_orderbook: how far the average lies from the first price.  A first
\* price of zero is a division by zero.
WalkFails(levels, size) == levels # <<>> /\ Walk(levels, size).got > 0 /\ levels[1].price = 0
WalkOrderbook(levels, size) ==
    LET walk == Walk(levels, size)
        flat == levels[1].price * walk.got
    IN IF walk.got = 0 THEN 5000 ELSE (100000 * Distance(walk.cost, flat)) \div flat

\* _estimate_timing_risk of the adaptive strategy at the default volatility:
\* 0.8333 times the square root of fifteen to thirty seconds.
EstimateTimingRisk(size, depth) ==
    IF depth > 0 THEN Root((125 * (depth + Least(size, depth))) \div (12 * depth)) ELSE Root(125 \div 12)

\* estimate_slippage.  The adaptive strategy's multiplier is 1; the confidence
\* of the estimate is computed and never read.
EstimateSlippage(levels, size) ==
    IF levels = <<>> THEN 10000
    ELSE WalkOrderbook(levels, size) + CalculateImpact(size, DepthOf(levels))
         + EstimateTimingRisk(size, DepthOf(levels))

(***************************************************************************)
(* RiskEngine.                                                             *)
(***************************************************************************)
NoBookRisk == 25000

\* _calculate_execution_risk: the buyer takes asks, the seller hits bids.
CalculateExecutionRisk(buy, sell, size) ==
    Least(50000, (IF buy = NoRiskBook THEN NoBookRisk ELSE EstimateSlippage(buy.asks, size))
                 + (IF sell = NoRiskBook THEN NoBookRisk ELSE EstimateSlippage(sell.bids, size)))

\* _calculate_market_risk: the thinner the margin (in percent), the higher.
CalculateMarketRisk(margin) == 10000 + (IF margin < 2 THEN 20000 ELSE IF margin < 5 THEN 10000 ELSE 0)

\* _calculate_platform_risk
CalculatePlatformRisk(buyer, seller) ==
    5000 + (IF buyer # seller THEN 5000 ELSE 0) + (IF "polymarket" \in {buyer, seller} THEN 3000 ELSE 0)

\* _calculate_confidence, in percent: halved for a missing book, a fifth off for an old one.
Trust(book) == IF book = NoRiskBook THEN 50 ELSE IF book.age > StaleAfter THEN 80 ELSE 100
CalculateConfidence(buy, sell) ==
    IF buy = NoRiskBook /\ sell = NoRiskBook THEN 0 ELSE (Trust(buy) * Trust(sell)) \div 100

\* assess_opportunity: any error in the scoring is the highest score and no confidence.
AssessFails(opp, buy, sell) ==
    \/ ~opp.readable
    \/ buy # NoRiskBook /\ WalkFails(buy.asks, opp.size)
    \/ sell # NoRiskBook /\ WalkFails(sell.bids, opp.size)

\* _assess_unsafe
AssessUnsafe(opp, buy, sell) ==
    [score |-> Least(100000, CalculateExecutionRisk(buy, sell, opp.size) + CalculateMarketRisk(opp.margin)
                             + CalculatePlatformRisk(opp.buyer, opp.seller)),
     confidence |-> CalculateConfidence(buy, sell)]

AssessOpportunity(opp, kalshi, polymarket) ==
    LET buy == IF opp.buyer = "kalshi" THEN kalshi ELSE polymarket
        sell == IF opp.seller = "polymarket" THEN polymarket ELSE kalshi
    IN IF AssessFails(opp, buy, sell) THEN [score |-> 100000, confidence |-> 0] ELSE AssessUnsafe(opp, buy, sell)

(***************************************************************************)
(* ArbitrageExecutor._risk_gate.                                           *)
(***************************************************************************)
AssessmentOf(x) ==
    AssessOpportunity(x.opp, NormalBook(x.books["kalshi"], "kalshi"), NormalBook(x.books["polymarket"], "polymarket"))

RiskGate(x) ==
    IF \A v \in RiskVenues : x.books[v] = NoRiskBook THEN "pass"
    ELSE IF AssessmentOf(x).score > MaxRiskScore THEN "risk_too_high"
    ELSE IF AssessmentOf(x).confidence < MinRiskConfidence THEN "low_risk_confidence"
    ELSE "pass"

RiskInit ==
    /\ asked \in [opp : RiskOpportunities, books : [RiskVenues -> RiskBooks]]
    /\ riskVerdict = "unasked"

AskRiskGate ==
    /\ riskVerdict = "unasked"
    /\ riskVerdict' = RiskGate(asked)
    /\ UNCHANGED asked

RiskSpec == RiskInit /\ [][AskRiskGate]_riskVars

-----------------------------------------------------------------------------
\* The ways to take size contracts, or all there are, from the levels of a book.
Takings(levels, size) ==
    {t \in [DOMAIN levels -> 0..size] :
        /\ \A i \in DOMAIN levels : t[i] <= levels[i].size
        /\ SumFunction(t) = Least(size, TotalOf(levels))}

\* What takings of that size cost, and the prices of a book.
CostsOf(levels, size) == {CostOf(levels, t) : t \in Takings(levels, size)}
PricesOf(levels) == {levels[i].price : i \in DOMAIN levels}

\* What the best possible execution of a leg loses against its best price, in
\* the units of the score, straight from the book the venue sent.
Shortfall(levels, size, side) ==
    LET got == Least(size, TotalOf(levels))
        lowest == Min(PricesOf(levels)) * got
        highest == Max(PricesOf(levels)) * got
    IN IF levels = <<>> \/ got = 0 THEN 0
       ELSE IF side = "buy" THEN (100000 * (Min(CostsOf(levels, size)) - lowest)) \div lowest
       ELSE (100000 * (highest - Max(CostsOf(levels, size)))) \div highest

\* An opportunity the gate let through with both books attached can be read,
\* has no level at the price zero to be divided by, and loses no more to the
\* books as the venues sent them, best case, than the score left over by the
\* market and platform risk: the normalisation, the walk and the caps hide no
\* worse book.  (A one-cent Kalshi level, read as a dollar, is the exception.)
RiskGateHolds ==
    LET book(v) == asked.books[v]
        opp == asked.opp
        attached == \A v \in RiskVenues : book(v) # NoRiskBook
        oneCent == \E l \in Range(book("kalshi").bids) \cup Range(book("kalshi").asks) : l.price = 1
    IN riskVerdict = "pass" /\ attached /\ ~oneCent =>
          /\ opp.readable
          /\ Shortfall(book(opp.buyer).asks, opp.size, "buy") + Shortfall(book(opp.seller).bids, opp.size, "sell")
                <= MaxRiskScore - CalculateMarketRisk(opp.margin) - CalculatePlatformRisk(opp.buyer, opp.seller)

=============================================================================
