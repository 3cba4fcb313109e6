----------------------- MODULE MCOpportunityPricing -----------------------
EXTENDS OpportunityPricing, RiskGate, QuoteCache, PairDiscovery

\* Levels that make the two books interlock in every way: equal, nested and
\* crossing sizes, one of them below MinVolume; prices around half a dollar.
Level(p, n) == [price |-> p, size |-> n]
Levels == {Level(p, n) : p \in {44, 48, 53}, n \in {1, 3, 5}} \cup {Malformed}
FewBooks == {<<>>, <<Malformed>>, <<Level(53, 1), Level(48, 3)>>, <<Level(44, 5), Level(48, 1)>>, <<Level(48, 0)>>}
SmallBooks == {<<>>} \cup {<<l>> : l \in Levels} \cup {<<l, m>> : l \in Levels, m \in Levels \ {Malformed}}
NoRateOrSports == {0, 300}

\* Books for the risk gate: flat, steep, thin, empty, unsorted, with a level at
\* one cent or at zero, of either age or without a time.
RiskSides ==
    {<<>>, <<Level(40, 1)>>, <<Level(0, 1), Level(20, 2)>>, <<Level(1, 2), Level(20, 1)>>}
    \cup {<<Level(p, 1), Level(q, 2)>> : p \in {20, 40}, q \in {20, 30, 60}}
RiskBookChoices == {[bids |-> s, asks |-> s, age |-> t] : s \in RiskSides, t \in {-1, 5, 31}} \cup {NoRiskBook}
RiskOpportunityChoices ==
    [buyer : RiskVenues, seller : RiskVenues, size : {0, 2, 3}, margin : {1, 3, 6}, readable : {TRUE}]
    \cup [buyer : {"kalshi"}, seller : {"polymarket"}, size : {2}, margin : {6}, readable : {FALSE}]
CrossVenue == {o \in RiskOpportunityChoices : o.buyer # o.seller}

\* Books for the caches: one-sided, with a one-cent level, unsorted.
CacheBooks == [v \in {"kalshi", "polymarket"} |->
    IF v = "kalshi"
    THEN [yes : {<<>>, <<Level(1, 2), Level(40, 3)>>, <<Level(30, 1)>>}, no : {<<>>, <<Level(20, 1), Level(55, 2)>>, <<Level(99, 1)>>}]
    ELSE {[bids |-> <<Level(30, 1), Level(40, 3)>>, asks |-> <<Level(60, 2), Level(45, 1)>>]}]
OutcomeNames == [t \in {"t1", "t2"} |-> IF t = "t1" THEN "Yes" ELSE "No"]
TwoOrOne == [v \in {"kalshi", "polymarket"} |-> IF v = "kalshi" THEN 2 ELSE 1]

\* Two Kalshi markets and four Polymarket ones: rivals of either kind, equal or
\* not, opposite questions, and a pair that only passes without the rules.
KRows == <<{"k1"}, {"k2"}>>
SamplingRows == <<{"p1", "p2"}>>
GammaRows == <<{"p1", "p3"}>>
SomePairs == {"k1", "k2"} \X {"p1", "p2", "p3", "u1"}
Verdict(passed, polarity, unsure) == [passed |-> passed, polarity |-> polarity, uncertain |-> unsure]
Rivals == [sim |-> [x \in SomePairs |-> CASE x = <<"k1", "p1">> -> 2 [] x[2] = "p2" -> 1 [] x = <<"k1", "u1">> -> 2 [] OTHER -> 0],
           full |-> [x \in SomePairs |-> Verdict(TRUE, IF x[2] = "p2" THEN "inverted" ELSE "aligned", x[2] = "u1")],
           starved |-> [x \in SomePairs |-> Verdict(TRUE, "aligned", FALSE)]]
Lookalikes == [sim |-> [x \in SomePairs |-> IF x[2] = "p3" THEN 1 ELSE 0],
               full |-> [x \in SomePairs |-> Verdict(x[1] = "k1", "inverted", FALSE)],
               starved |-> [x \in SomePairs |-> Verdict(TRUE, "unknown", FALSE)]]
TwoWorlds == {Rivals, Lookalikes}

\* One run follows a trade from the catalogue and the wire to the verdict in four
\* questions: the pairs, the caches, the pricing of a strategy, the gate on it.
AnyBook == CHOOSE s \in RiskBooks : s # NoRiskBook
Unasked ==
    /\ asked = [opp |-> CHOOSE o \in RiskOpportunities : TRUE, books |-> [v \in RiskVenues |-> AnyBook]]
    /\ riskVerdict = "idle"
Unpriced ==
    /\ stage = "idle" /\ kind = "same" /\ buyVenue = "kalshi" /\ synthetic = FALSE
    /\ bookA = <<>> /\ bookB = <<>> /\ depth = <<<<>>, <<>>>> /\ took = <<<<>>, <<>>>>
    /\ ia = 1 /\ ib = 1 /\ trades = <<>> /\ sim = NoFill

Unquoted ==
    /\ client = "none" /\ watched = "book" /\ truth = <<>> /\ wire = NoEntry /\ requests = <<>>
    /\ held = [k \in Keys |-> NoEntry] /\ quotes = [k \in Keys |-> NoEntry]
Undiscovered ==
    /\ world = Rivals /\ step = "idle" /\ sweeps = 0 /\ rowsK = {} /\ rowsP = {} /\ rules = {} /\ pairs = {}
    /\ watchlist = {} /\ fired = NoOpportunity

MCInit ==
    \/ PricingInit /\ Unasked /\ Unquoted /\ Undiscovered
    \/ Unpriced /\ RiskInit /\ Unquoted /\ Undiscovered
    \/ Unpriced /\ Unasked /\ QuoteInit /\ Undiscovered
    \/ Unpriced /\ Unasked /\ Unquoted /\ DiscoveryInit
MCNext ==
    \/ PricingNext /\ UNCHANGED <<riskVars, quoteVars, discoveryVars>>
    \/ AskRiskGate /\ UNCHANGED <<pricingVars, quoteVars, discoveryVars>>
    \/ client # "none" /\ QuoteNext /\ UNCHANGED <<pricingVars, riskVars, discoveryVars>>
    \/ DiscoveryNext /\ UNCHANGED <<pricingVars, riskVars, quoteVars>>
MCSpec == MCInit /\ [][MCNext]_<<pricingVars, riskVars, quoteVars, discoveryVars>>
=============================================================================
