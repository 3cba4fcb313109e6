--------------------------- MODULE PairDiscovery ---------------------------
(***************************************************************************)
(* How the monitor comes by its pairs and what it makes of one: the        *)
(* catalogues are swept page by page, similar markets are put before the   *)
(* verifier with Kalshi's rules when they can be fetched, rival pairings   *)
(* of one market are demoted, pairs of the watch-list file that the sweep  *)
(* missed are verified anew and kept; a pair's books are priced, and a     *)
(* priced pair becomes the opportunity whose two legs the executor buys.   *)
(*                                                                         *)
(* The verifier is MatchVerification's; here it is a table of its verdicts *)
(* with the rules at hand, and what it says without them.  A book is its   *)
(* best ask, in cents.                                                     *)
(***************************************************************************)
EXTENDS Integers, Sequences, FiniteSets

CONSTANTS
    KalshiPages,       \* the markets on each page of Kalshi's events
    SamplingPages,     \* Polymarket's markets on each page of its rewards catalogue
    GammaPages,        \* and of its catalogue by volume
    USMarkets,         \* the markets of Polymarket US
    Worlds,            \* similarity and verdicts of all pairs: [sim, full, starved]
    Asks,              \* the best asks a book may show, NoAsk for an empty one
    MaxSweeps,         \* bound: sweeps
    NoOpportunity      \* nothing was fired yet

ASSUME AsksAreNumbers == Asks \subseteq Int

MinComplementarySum == 80
MinSimilarity == 1     \* SIMILARITY_THRESHOLD, as a grade

VARIABLES
    world,      \* what the pairs are like
    step,       \* "fetch", "match", "merge" or "watch"
    sweeps,     \* sweeps so far
    rowsK,      \* the Kalshi markets of this sweep that are not matched yet
    rowsP,      \* the Polymarket markets of this sweep
    rules,      \* _KRULES_CACHE: the tickers whose rules have been read
    pairs,      \* the verified pairs of this sweep
    watchlist,  \* the pairs that are watched, and what the file holds
    fired       \* the legs of an opportunity, with the books it was priced on

discoveryVars == <<world, step, sweeps, rowsK, rowsP, rules, pairs, watchlist, fired>>

UnionOf(pages, n) == UNION {pages[i] : i \in 1..n}

DiscoveryInit ==
    /\ world \in Worlds
    /\ step = "fetch" /\ sweeps = 0
    /\ rowsK = {} /\ rowsP = {} /\ rules = {} /\ pairs = {} /\ watchlist = {}
    /\ fired = NoOpportunity

(***************************************************************************)
(* discover: the sweep of the catalogues.  A page that fails ends its      *)
(* catalogue; what was read before is used.                                *)
(***************************************************************************)
\* fetch_kalshi
FetchKalshi == {UnionOf(KalshiPages, n) : n \in 0..Len(KalshiPages)}

\* fetch_polymarket: the rewards catalogue, topped up from the one by volume.
FetchPolymarket ==
    {UnionOf(SamplingPages, m) \cup UnionOf(GammaPages, n) : m \in 0..Len(SamplingPages), n \in 0..Len(GammaPages)}

\* fetch_pmus is additive: its failure leaves the rest.
FetchPmus == {{}, USMarkets}

Fetch ==
    /\ step = "fetch" /\ sweeps < MaxSweeps
    /\ \E ks \in FetchKalshi, ps \in FetchPolymarket, us \in FetchPmus : rowsK' = ks /\ rowsP' = ps \cup us
    /\ sweeps' = sweeps + 1 /\ step' = "match" /\ pairs' = {}
    /\ UNCHANGED <<world, rules, watchlist, fired>>

(***************************************************************************)
(* match_pairs, one Kalshi market at a time.                               *)
(***************************************************************************)
\* _kalshi_rules: remembered once read; a failed request is not, and is made
\* again for the market's next candidate.  The candidates judged without rules:
Starved(k, candidates) == IF k \in rules THEN {{}} ELSE SUBSET candidates

\* What the verifier says of a pair, on full evidence or without Kalshi's rules.
Verify(k, p, known) == IF known THEN world.full[<<k, p>>] ELSE world.starved[<<k, p>>]

Verified(k, p, known) ==
    [k |-> k, p |-> p, sim |-> world.sim[<<k, p>>], polarity |-> Verify(k, p, known).polarity,
     uncertain |-> Verify(k, p, known).uncertain, conflict |-> FALSE]

MatchMarket ==
    /\ step = "match" /\ rowsK # {}
    /\ LET k == CHOOSE x \in rowsK : TRUE
           similar == {p \in rowsP : world.sim[<<k, p>>] >= MinSimilarity}
       IN \E blind \in Starved(k, similar) :
             /\ rules' = IF blind = similar THEN rules ELSE rules \cup {k}
             /\ pairs' = pairs \cup {Verified(k, p, p \notin blind) : p \in {q \in similar : Verify(k, q, q \notin blind).passed}}
             /\ rowsK' = rowsK \ {k}
    /\ UNCHANGED <<world, step, sweeps, rowsP, watchlist, fired>>

\* _arbitrate_conflicts: a pair less similar than a rival of either market is uncertain.
Outdone(p, ps) == \E q \in ps : (q.k = p.k \/ q.p = p.p) /\ q.sim > p.sim
ArbitrateConflicts(ps) ==
    {IF Outdone(p, ps) THEN [p EXCEPT !.uncertain = TRUE, !.conflict = TRUE] ELSE p : p \in ps}

Arbitrate ==
    /\ step = "match" /\ rowsK = {}
    /\ pairs' = ArbitrateConflicts(pairs)
    /\ step' = "merge"
    /\ UNCHANGED <<world, sweeps, rowsK, rowsP, rules, watchlist, fired>>

\* reverify_pair: unchanged when the documents cannot be fetched, else with the
\* verifier's verdict of today, or dropped.
ReverifyPair(p, known) ==
    LET verdict == Verify(p.k, p.p, TRUE)
    IN IF ~known THEN {p}
       ELSE IF ~verdict.passed THEN {}
       ELSE {[p EXCEPT !.polarity = verdict.polarity, !.uncertain = verdict.uncertain]}

\* The sweep's pairs, and the file's that it has missed and whose market is
\* still open (ArbMonitor says when it is); their rules may not be read.
Merge ==
    LET missed == {p \in watchlist : \A q \in pairs : <<q.k, q.p>> # <<p.k, p.p>>}
        known == {p \in missed : p.k \in rules}
    IN /\ step = "merge"
       /\ \E read \in {known \cup r : r \in SUBSET missed} :
             /\ watchlist' = pairs \cup UNION {ReverifyPair(p, p \in read) : p \in missed}
             /\ rules' = rules \cup {p.k : p \in read}
       /\ step' = "watch"
       /\ UNCHANGED <<world, sweeps, rowsK, rowsP, pairs, fired>>

\* The next sweep, of this process or, after a restart, of one that has only the
\* file; what was fired in between needs no memory.
Sweeps ==
    /\ step = "watch" /\ sweeps < MaxSweeps
    /\ \E kept \in {rules, {}} : rules' = kept
    /\ step' = "fetch" /\ fired' = NoOpportunity
    /\ UNCHANGED <<world, sweeps, rowsK, rowsP, pairs, watchlist>>

(***************************************************************************)
(* A pair is priced and fired.  Outcome A is Kalshi's YES; the tokens of a *)
(* Polymarket market are "yes" and "no" by name, or by place.              *)
(***************************************************************************)
YesToken(names) == IF "yes" \in {names[1], names[2]} THEN "yes" ELSE names[1]
NoToken(names) == IF "no" \in {names[1], names[2]} THEN "no" ELSE names[2]
TokenOfA(polarity, names) == IF polarity = "inverted" THEN NoToken(names) ELSE YesToken(names)
TokenOfB(polarity, names) == IF polarity = "inverted" THEN YesToken(names) ELSE NoToken(names)

\* pair_structures: the cheaper venue for A and for B, if that is one of each;
\* two asks that sum to little are no complements.
Structures(p, names, kalshi, poly) ==
    LET a == poly[TokenOfA(p.polarity, names)]
        b == poly[TokenOfB(p.polarity, names)]
        aIsK == kalshi["yes"] <= a
        bIsK == kalshi["no"] <= b
        costA == IF aIsK THEN kalshi["yes"] ELSE a
        costB == IF bIsK THEN kalshi["no"] ELSE b
    IN IF aIsK # bIsK /\ costA + costB >= MinComplementarySum /\ costA + costB < 100 THEN {[aIsK |-> aIsK, avgA |-> costA, avgB |-> costB]}
       ELSE {}

\* A bug to_opportunity could have: the tokens as they stand, whatever the polarity.
ToOpportunity_Aligned(p, names, s) ==
    IF s.aIsK THEN [strategy |-> "S3", kalshiPrice |-> s.avgA, polyPrice |-> s.avgB, token |-> NoToken(names)]
    ELSE [strategy |-> "S4", kalshiPrice |-> s.avgB, polyPrice |-> s.avgA, token |-> YesToken(names)]

\* to_opportunity
ToOpportunity(p, names, s) ==
    IF s.aIsK THEN [strategy |-> "S3", kalshiPrice |-> s.avgA, polyPrice |-> s.avgB, token |-> TokenOfB(p.polarity, names)]
    ELSE [strategy |-> "S4", kalshiPrice |-> s.avgB, polyPrice |-> s.avgA, token |-> TokenOfA(p.polarity, names)]

\* The executor's _build_legs of a complementary opportunity: the side is read from the strategy's name.
BuildLegs(opp) ==
    [kalshiSide |-> IF opp.strategy = "S3" THEN "yes" ELSE "no", kalshiLimit |-> opp.kalshiPrice,
     token |-> opp.token, polyLimit |-> opp.polyPrice]

\* The outcomes' names: yes and no in either order, or the names of two teams.
TokenNames == {<<"yes", "no">>, <<"no", "yes">>, <<"home", "away">>}

Fire ==
    /\ step = "watch" /\ fired = NoOpportunity
    /\ \E p \in watchlist, names \in TokenNames :
          \E kalshi \in [{"yes", "no"} -> Asks], poly \in [{names[1], names[2]} -> Asks] :
             \E s \in Structures(p, names, kalshi, poly) :
                fired' = [polarity |-> p.polarity, names |-> names, kalshi |-> kalshi, poly |-> poly,
                          legs |-> BuildLegs(ToOpportunity(p, names, s))]
    /\ UNCHANGED <<world, step, sweeps, rowsK, rowsP, rules, pairs, watchlist>>

DiscoveryNext == Fetch \/ MatchMarket \/ Arbitrate \/ Merge \/ Sweeps \/ Fire
DiscoverySpec == DiscoveryInit /\ [][DiscoveryNext]_discoveryVars

-----------------------------------------------------------------------------
\* Whether the event's outcome pays a Kalshi side, and a Polymarket token: the
\* first token of two teams, like "yes", is the market's own YES, and inverted
\* markets ask the opposite question.
KalshiPays(side, happens) == (side = "yes") = happens
TokenPays(token, names, polarity, happens) ==
    LET own == IF polarity = "inverted" THEN ~happens ELSE happens
    IN IF token = YesToken(names) THEN own ELSE ~own

\* The two legs bought for a fired pair pay a dollar whichever way the event
\* goes, each is limited at the ask its own book showed, and together they cost
\* less than the dollar: no mix-up of polarity, token order, side or price
\* between the pricing, the opportunity and the executor's reading of it.
LegsPayEitherWay ==
    fired # NoOpportunity =>
        LET legs == fired.legs
        IN /\ \A happens \in BOOLEAN :
                 KalshiPays(legs.kalshiSide, happens) # TokenPays(legs.token, fired.names, fired.polarity, happens)
           /\ legs.kalshiLimit = fired.kalshi[legs.kalshiSide]
           /\ legs.polyLimit = fired.poly[legs.token]
           /\ legs.kalshiLimit + legs.polyLimit < 100
=============================================================================
