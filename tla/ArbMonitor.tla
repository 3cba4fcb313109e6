----------------------------- MODULE ArbMonitor -----------------------------
(***************************************************************************)
(* tools/monitor_arb.py: a watch list of verified pairs, loaded from the   *)
(* venues' catalogues, the operator's allow list and a cache file, is      *)
(* priced in sweeps and, between sweeps, whenever the book mirror marks a  *)
(* pair dirty; a priced gap opens an episode, a sweep that no longer sees  *)
(* it closes it into the ledger, and an orderly stop records the episodes  *)
(* still open.  Pairs of Polymarket US are priced in turns.                *)
(***************************************************************************)
EXTENDS BookMirror, EventScreens

CONSTANTS
    Pair,           \* verified pairs, each with a Kalshi ticker of its own
    USPair,         \* those whose Polymarket side is the US venue, in turn order: a sequence
    Wired,          \* the pair whose books are mirrored
    Event,          \* the single-venue events the screens may see
    Ladders,        \* what the two legs of a pair may offer: pairs of ladders
    BasketLadders,  \* what each leg of a screened candidate may offer
    USPerSweep,     \* at most so many US pairs per sweep (15 in the code)
    MinNet,         \* --min-net-usd
    Mortal,         \* bound: the pairs the catalogue may forget; of these only Wired close or are
                    \* removed by the operator, and only the others are rejected
    Options,        \* the command lines: [ws, screens, cached] of BOOLEAN
    MaxOpens,       \* bound: episodes opened per key in one run
    MaxRuns,        \* bound: processes
    MaxRefreshes    \* bound: watch list refreshes of a run

\* An event lists its markets' asks in some order.
ASSUME EventAssumption == \A e \in Event : e.asks \in Seq(Int)

VARIABLES
    args,       \* the command line
    phase,      \* "load", "sweep", "sleep", "stopped"
    stop,       \* stop_flag
    runs, refreshes,
    watch,      \* the watch list
    cache,      \* the pairs in the cache file
    alive,      \* history of the venue: the pairs whose Kalshi market is open
    approved,   \* the operator's allow list
    hot,        \* screened candidates: <<event, candidate>>
    usOff,      \* us_off
    openEps,    \* open_eps: the keys with an open episode
    opened, recorded    \* history: episodes opened, and ledger rows, of this run per key

Key == Pair \cup {"hot"}
monitorVars == <<args, phase, stop, runs, refreshes, watch, cache, alive, approved, hot, usOff, openEps, opened, recorded>>
vars == <<mirrorVars, monitorVars>>

USSet == {USPair[i] : i \in DOMAIN USPair}
None == [k \in Key |-> 0]

Init ==
    /\ MirrorInit /\ args \in Options
    /\ phase = "load" /\ stop = FALSE /\ runs = 1 /\ refreshes = 0
    /\ watch = {} /\ cache = {} /\ alive = Pair /\ approved = Pair
    /\ hot = {} /\ usOff = 0 /\ openEps = {} /\ opened = None /\ recorded = None

(***************************************************************************)
(* The watch list.                                                         *)
(***************************************************************************)

\* _load_watchlist and _merge_watchlists: what is discovered and approved, and of
\* the cache what is approved, not known to be dead (a failed status request
\* counts as alive) and not rejected by today's verifier.
LoadWatchlist(found, rejected, blind) ==
    LET fresh_ == found \cap approved
        kept == {p \in (cache \cap approved) \ fresh_ : (p \in alive \/ p \in blind) /\ p \notin rejected}
    IN watch' = fresh_ \cup kept /\ cache' = IF args.cached THEN fresh_ \cup kept ELSE {}

\* _load_screens: at most the best one here; a failed screen yields none.
LoadScreens ==
    \/ hot' = {}
    \/ args.screens /\ \E e \in Event : \E c \in Candidates(e) : hot' = {<<e, c>>}

\* The catalogue lists any live pairs; the verifier may have changed its mind.
Loads ==
    /\ \E found \in {f \in SUBSET alive : Pair \ Mortal \subseteq f}, rejected \in SUBSET (Mortal \ Wired),
          blind \in SUBSET (Mortal \ alive) :
          /\ found \cap rejected = {} /\ LoadWatchlist(found, rejected, blind)
    /\ LoadScreens
    /\ NewFeed

\* main up to the loop: an empty list ends the program.
Load ==
    /\ phase = "load"
    /\ Loads
    /\ phase' = IF watch' = {} THEN "stopped" ELSE "sweep"
    /\ UNCHANGED <<args, stop, runs, refreshes, alive, approved, usOff, openEps, opened, recorded>>

\* The refresh at the head of the loop; an empty list goes on.
Refresh ==
    /\ phase = "sweep" /\ ~stop /\ args.cached /\ refreshes < MaxRefreshes
    /\ refreshes' = refreshes + 1
    /\ Loads
    /\ UNCHANGED <<args, phase, stop, runs, alive, approved, usOff, openEps, opened, recorded>>

MarketCloses(p) ==
    /\ p \in alive /\ phase # "stopped"
    /\ alive' = alive \ {p}
    /\ UNCHANGED <<mirrorVars, args, phase, stop, runs, refreshes, watch, cache, approved, hot, usOff, openEps, opened, recorded>>

OperatorRemoves(p) ==
    /\ p \in approved /\ phase # "stopped"
    /\ approved' = approved \ {p}
    /\ UNCHANGED <<mirrorVars, args, phase, stop, runs, refreshes, watch, cache, alive, hot, usOff, openEps, opened, recorded>>

(***************************************************************************)
(* Sweeps and episodes.                                                    *)
(***************************************************************************)
\* The US pairs of this sweep, in turn; the others are deferred.
USWatch == SelectSeq(USPair, LAMBDA p : p \in watch)
Selected ==
    IF Len(USWatch) <= USPerSweep THEN watch \cap USSet
    ELSE {USWatch[((usOff + i) % Len(USWatch)) + 1] : i \in 0..USPerSweep - 1}
Deferred == (watch \cap USSet) \ Selected

\* What is reported: enough dollars, and a return on the cost between 0.4% and 15%.
Shows(net, cost) == net >= MinNet /\ 1000 * net >= 4 * cost /\ 100 * net <= 15 * cost

\* What pair_structures makes of a pair: a failed request prices nothing.
PairShows ==
    {LET s == WalkBasket(l, 1) IN Shows(NetComplementary(s, <<"kalshi", "pm">>), Total(s.cost)) : l \in Ladders} \cup {FALSE}

\* price_kalshi_dutch and price_pm_dutch buy a leg on every market, price_kalshi_ladder
\* two; a leg's ladder may hold the offers of both venues.
DutchShows(c) ==
    {LET s == WalkBasket([i \in 1..Cardinality(c.yes \cup c.no) |-> l], c.payout)
     IN Shows(Net(s, c.payout), Total(s.cost)) : l \in BasketLadders}
LadderShows(c) ==
    {LET s == WalkBasket(<<y, n>>, 1) IN Shows(Net(s, 1), Total(s.cost)) : y, n \in BasketLadders}
HotShows(c) == {FALSE} \cup (IF c.kind = "ladder" THEN LadderShows(c) ELSE DutchShows(c))

Opens(keys) ==
    /\ \A k \in keys : opened[k] < MaxOpens
    /\ opened' = [k \in Key |-> IF k \in keys THEN opened[k] + 1 ELSE opened[k]]

Closed(live) == openEps \ (live \cup Deferred)

Sweep ==
    /\ phase = "sweep" /\ ~stop
    /\ \E live \in SUBSET (((watch \ USSet) \cup Selected) \cup {"hot"}) :
          /\ live \cap Pair # {} => TRUE \in PairShows
          /\ "hot" \in live => \E h \in hot : TRUE \in HotShows(h[2])
          /\ Opens(live \ openEps)
          /\ openEps' = (openEps \ Closed(live)) \cup live
          /\ recorded' = [k \in Key |-> IF k \in Closed(live) THEN recorded[k] + 1 ELSE recorded[k]]
    /\ usOff' = IF Len(USWatch) > USPerSweep THEN (usOff + USPerSweep) % Len(USWatch) ELSE usOff
    /\ phase' = "sleep"
    /\ UNCHANGED <<mirrorVars, args, stop, runs, refreshes, watch, cache, alive, approved, hot>>

\* A slice of the sleep: a pair whose book moved is priced now, which may open
\* an episode but closes none.
Reprice ==
    /\ phase = "sleep" /\ ~stop /\ dirty # {}
    /\ dirty' = {}
    /\ \/ UNCHANGED <<openEps, opened>>
       \/ /\ Wired \subseteq watch /\ TRUE \in PairShows
          /\ Opens(Wired \ openEps) /\ openEps' = openEps \cup Wired
    /\ UNCHANGED <<venue, flight, connected, asks, mirror, fresh, moves, args,
                   phase, stop, runs, refreshes, watch, cache, alive, approved, hot, usOff, recorded>>

WakeUp ==
    /\ phase = "sleep" /\ ~stop
    /\ phase' = "sweep"
    /\ UNCHANGED <<mirrorVars, args, stop, runs, refreshes, watch, cache, alive, approved, hot, usOff, openEps, opened, recorded>>

(***************************************************************************)
(* The end.                                                                *)
(***************************************************************************)
\* SIGTERM or SIGINT; --duration over has the same effect.
Signal ==
    /\ phase \in {"sweep", "sleep"} /\ ~stop
    /\ stop' = TRUE
    /\ UNCHANGED <<mirrorVars, args, phase, runs, refreshes, watch, cache, alive, approved, hot, usOff, openEps, opened, recorded>>

\* A bug the end could have: a signal during the sleep leaves without recording.
Flush_SleepForgets ==
    /\ phase \in {"sweep", "sleep"} /\ stop
    /\ recorded' = [k \in Key |-> IF k \in openEps /\ phase = "sweep" THEN recorded[k] + 1 ELSE recorded[k]]
    /\ phase' = "stopped"
    /\ UNCHANGED <<mirrorVars, args, stop, runs, refreshes, watch, cache, alive, approved, hot, usOff, openEps, opened>>

\* Every open episode is recorded as still open.
Flush ==
    /\ phase \in {"sweep", "sleep"} /\ stop
    /\ recorded' = [k \in Key |-> IF k \in openEps THEN recorded[k] + 1 ELSE recorded[k]]
    /\ phase' = "stopped"
    /\ UNCHANGED <<mirrorVars, args, stop, runs, refreshes, watch, cache, alive, approved, hot, usOff, openEps, opened>>

\* The process dies: the episodes in memory are lost, the cache file is not.
Crash ==
    /\ phase \in {"sweep", "sleep"} /\ runs < MaxRuns
    /\ phase' = "load" /\ stop' = FALSE /\ runs' = runs + 1 /\ refreshes' = 0
    /\ watch' = {} /\ hot' = {} /\ usOff' = 0 /\ openEps' = {} /\ opened' = None /\ recorded' = None
    /\ NewFeed
    /\ UNCHANGED <<args, cache, alive, approved>>

Restart ==
    /\ phase = "stopped" /\ runs < MaxRuns
    /\ phase' = "load" /\ stop' = FALSE /\ runs' = runs + 1 /\ refreshes' = 0
    /\ watch' = {} /\ hot' = {} /\ usOff' = 0 /\ openEps' = {} /\ opened' = None /\ recorded' = None
    /\ NewFeed
    /\ UNCHANGED <<args, cache, alive, approved>>

Monitor == Load \/ Refresh \/ Sweep \/ Reprice \/ WakeUp \/ Flush
Environment ==
    \/ Signal \/ Crash \/ Restart
    \/ args.cached /\ \E p \in Wired : MarketCloses(p) \/ OperatorRemoves(p)
    \/ args.ws /\ phase \in {"sweep", "sleep"} /\ Streams /\ UNCHANGED monitorVars

Next == Monitor \/ Environment

Spec == Init /\ [][Next]_vars

-----------------------------------------------------------------------------
\* However sweeps, dirty repricing, turns of the US pairs and refreshes follow
\* each other, a run that stops in order has recorded each of its episodes once.
EpisodesRecorded ==
    \A k \in Key : IF phase = "stopped" THEN recorded[k] = opened[k]
                   ELSE recorded[k] + (IF k \in openEps THEN 1 ELSE 0) = opened[k]

\* A candidate the screens offer pays what its walk takes it to pay, however
\* the event ends.
ScreensAreSafe == \A h \in hot : \A w \in Outcomes(h[1]) : Pays(h[2], w) >= h[2].payout

=============================================================================
