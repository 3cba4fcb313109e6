--------------------------- MODULE BacktestReplay ---------------------------
(***************************************************************************)
(* The replay of one recorded game under one strategy spec: the recorded   *)
(* rows become one bar a minute, and the bars are walked once, in order.   *)
(* A signal seen on a bar is filled on the next one; what is still open at *)
(* the end settles on the outcome.                                         *)
(*                                                                         *)
(* The state machine replays two games in lockstep, so that what the       *)
(* replay may know of the future can be stated: games that agree up to a   *)
(* minute must have been traded alike up to it.                            *)
(*                                                                         *)
(* A game is [pbp, pm, kalshi, subs, starters, home, away, won]: pbp rows  *)
(* [ts, clock, margin, lead] in order, pm ticks [ts, mid] of the home      *)
(* token, kalshi ticks [ts, team, mid, bid, ask] of the winner market.     *)
(* Times and clocks are minutes.  None is a missing value, NaN a missing   *)
(* number: comparing with the first raises, with the second is false.      *)
(***************************************************************************)
EXTENDS VenueFees, Sequences, SequencesExt, FiniteSets

CONSTANTS
    None, NaN,
    Depth,         \* depth_per_level of every profile, and the real books' 1000, scaled
    Staleness,     \* STALENESS_BOUND_SEC, in minutes and scaled
    Lookback,      \* the window of recent_run_signed_4m, scaled
    LineupOffset,  \* available_at_offset_sec of lineup_hash, scaled
    Twins,         \* the pairs of games replayed together
    ReplaySpecs,   \* the specs: [venue, side, features, entry, exits, stop, size]
    Profiles       \* the active cost profiles

VARIABLES
    twin,       \* the two games
    plan,       \* the spec, and the profile
    bar,        \* the bars handled so far
    position,   \* of each replay: the open position
    ledger,     \* of each replay: the trades
    settled     \* the replays have returned

replayVars == <<twin, plan, bar, position, ledger, settled>>

Flat == [side |-> "none"]
Missing(x) == x \in {None, NaN}

(***************************************************************************)
(* The execution model: the cost profiles, the books made up around a mid, *)
(* and the simulated fill that walks one side of a book, charges market    *)
(* impact and the venue's fee.  Prices and money are hundred-thousandths   *)
(* of a dollar, as in VenueFees; a book is a record of bids and asks,      *)
(* sequences of <<price, size>>.  Averages and impacts are rounded down to *)
(* the grain.                                                              *)
(***************************************************************************)
\* The knobs of a CostProfile: the full spread and the curve in basis points, the
\* flat Polymarket rate in thousandths, whether Kalshi charges.
PESSIMISTIC == [spread |-> 100, curve |-> 1000, flat |-> 20, kalshi |-> 1]
ZERO_COST == [spread |-> 0, curve |-> 0, flat |-> 0, kalshi |-> 0]
OFFICIAL_2026 == [spread |-> 100, curve |-> 500, flat |-> 0, kalshi |-> 1]

LevelStep == Dollar \div 200
Lowest == Dollar \div 1000
Highest == Dollar - Lowest

Above(p) == Max({Lowest, p})
Below(p) == Min({Highest, p})
Ladder(bid, ask) ==
    [bids |-> [i \in 1..3 |-> <<Above(bid - (i - 1) * LevelStep), Depth>>],
     asks |-> [i \in 1..3 |-> <<Below(ask + (i - 1) * LevelStep), Depth>>]]

\* synthesize_orderbook_from_mid
SynthesizeBook(profile, mid) ==
    LET half == (profile.spread * Dollar) \div 20000 IN Ladder(Above(mid - half), Below(mid + half))

(***************************************************************************)
(* Walking a side.                                                         *)
(***************************************************************************)
Sizes(levels) == [i \in DOMAIN levels |-> levels[i][2]]
Total(seq) == FoldSeq(+, 0, seq)

\* Each level gives what is still wanted, up to its size.
Take(levels, size) ==
    [i \in DOMAIN levels |->
        <<levels[i][1], Max({0, Min({levels[i][2], size - Total(Sizes(SubSeq(levels, 1, i - 1)))})})>>]
WalkAsks(asks, size) == Take(SortSeq(asks, LAMBDA l, m : l[1] < m[1]), size)
WalkBids(bids, size) == Take(SortSeq(bids, LAMBDA l, m : l[1] > m[1]), size)

Notional(fills) == Total([i \in DOMAIN fills |-> fills[i][1] * fills[i][2]])
AvgPrice(fills) == Notional(fills) \div Total(Sizes(fills))

\* _market_impact_fraction, in ten-thousandths: a linear and a square-root part, at most 5%.
ISqrt(n) == CHOOSE r \in 0..n : r * r <= n /\ (r + 1) * (r + 1) > n
MarketImpact(size, depth) ==
    IF depth <= 0 THEN 500
    ELSE Min({500, size \div depth + ISqrt((100 * size) \div depth)})

\* _fees_for_fills: level by level, each rounded by its venue.
PolymarketFee(profile, p, n) == PmTakerFee(p, n, profile.curve) + (profile.flat * p * n) \div 1000
KalshiFee(profile, p, n) == profile.kalshi * KalshiTakerFee(p, n)
FeesForFills(profile, venue, fills) ==
    Total([i \in DOMAIN fills |->
        IF venue = "kalshi" THEN KalshiFee(profile, fills[i][1], fills[i][2])
                            ELSE PolymarketFee(profile, fills[i][1], fills[i][2])])

NotFilled(reason) == [filled |-> FALSE, price |-> 0, size |-> 0, fees |-> 0, kill |-> reason]

\* The average after impact, kept within [0, 1].
Worse(side, p, impact) ==
    IF side = "buy" THEN Min({Dollar, p + (p * impact) \div 10000}) ELSE Max({0, p - (p * impact) \div 10000})

\* simulate_fill; age is how old the snapshot is, bound the staleness allowed.
SimulateFill(profile, venue, book, side, size, age, bound) ==
    LET levels == IF side = "buy" THEN book.asks ELSE book.bids
        fills == IF side = "buy" THEN WalkAsks(book.asks, size) ELSE WalkBids(book.bids, size)
        got == Total(Sizes(fills))
    IN IF size <= 0 THEN NotFilled("size_zero")
       ELSE IF age > bound THEN NotFilled("snapshot_stale")
       ELSE IF levels = <<>> THEN NotFilled("no_side")
       ELSE IF got <= 0 THEN NotFilled("no_liquidity")
       ELSE [filled |-> TRUE, size |-> got,
             price |-> Worse(side, AvgPrice(fills), MarketImpact(got, Total(Sizes(levels)))),
             fees |-> FeesForFills(profile, venue, fills), kill |-> "none"]

(***************************************************************************)
(* _build_bars.                                                            *)
(***************************************************************************)
\* A bug the merge could have: direction="forward".
AsOf_Forward(ticks, ts) ==
    LET coming == {t \in ticks : ts <= t.ts /\ t.ts - ts <= Staleness}
    IN {t \in coming : \A u \in coming : t.ts <= u.ts}

\* merge_asof(direction="backward", tolerance=...): the last tick that is not too old.
AsOf(ticks, ts) ==
    LET past == {t \in ticks : t.ts <= ts /\ ts - t.ts <= Staleness}
    IN {t \in past : \A u \in past : u.ts <= t.ts}

\* The margin now less the margin at the last row a window ago.
RecentRun(pbp, i) ==
    LET k == {j \in DOMAIN pbp : pbp[j].clock <= pbp[i].clock - Lookback}
    IN IF pbp[i].clock < Lookback \/ k = {} THEN NaN
       ELSE LET then == pbp[Max(k)].margin
            IN IF Missing(then) \/ Missing(pbp[i].margin) THEN NaN ELSE pbp[i].margin - then

\* What a bisection leaves of rows in the order of their times: those up to ts.
Upto(rows, ts) == SubSeq(rows, 1, Max({0} \cup {i \in DOMAIN rows : rows[i].ts <= ts}))

\* _oncourt_timeline: the starters, with the substitutions applied in order; a
\* substitution of neither team changes nothing.
Substituted(home, away, floor, s) ==
    IF s.team = home THEN [floor EXCEPT !.home = (@ \ {s.out}) \cup {s.in}]
    ELSE IF s.team = away THEN [floor EXCEPT !.away = (@ \ {s.out}) \cup {s.in}]
    ELSE floor
OncourtTimeline(home, away, starters, subs) ==
    IF starters.home = {} \/ starters.away = {} THEN None
    ELSE FoldLeft(LAMBDA floor, s : Substituted(home, away, floor, s), starters, subs)

\* _lineup_sig_at
LineupSigAt(g, ts) == OncourtTimeline(g.home, g.away, g.starters, Upto(g.subs, ts))

\* _kalshi_home_wp
KalshiHomeWp(mid, team, home, away) ==
    IF Missing(mid) THEN None
    ELSE IF team = home THEN mid
    ELSE IF team = away THEN Dollar - mid ELSE None

\* The tick joined to a row, or a row of the ticks' columns without values.
NoPmTick == [ts |-> None, mid |-> None]
NoKalshiTick == [ts |-> None, team |-> None, mid |-> None, bid |-> None, ask |-> None]
Joined(ticks, ts, none) == IF AsOf(ticks, ts) = {} THEN none ELSE CHOOSE t \in AsOf(ticks, ts) : TRUE

BarAt(g, pbp, i) ==
    LET row == pbp[i]
        k == Joined(g.kalshi, row.ts, NoKalshiTick)
        p == Joined(g.pm, row.ts, NoPmTick)
    IN [ts |-> row.ts, clock |-> row.clock, margin |-> row.margin,
        run |-> RecentRun(pbp, i), leads |-> Total([j \in 1..i |-> pbp[j].lead]),
        home |-> p.mid, away |-> IF p.mid = None THEN None ELSE Dollar - p.mid,
        k |-> k, kwp |-> KalshiHomeWp(k.mid, k.team, g.home, g.away), lineup |-> LineupSigAt(g, row.ts),
        pmAge |-> IF p.ts = None THEN None ELSE row.ts - p.ts, kAge |-> IF k.ts = None THEN None ELSE row.ts - k.ts]

\* Rows without a game clock are dropped first.
Clocked(g) == SelectSeq(g.pbp, LAMBDA r : r.clock # None)
BuildBars(g) == [i \in DOMAIN Clocked(g) |-> BarAt(g, Clocked(g), i)]

(***************************************************************************)
(* Quotes, marks, conditions.                                              *)
(***************************************************************************)
NoBook == [bids |-> <<>>, asks |-> <<>>]

\* _make_orderbook: a book for the side, or none.
MakeOrderbook(profile, venue, side, b) ==
    LET sameTeam == b.k.team = (IF side = "long_home" THEN "home" ELSE "away")
    IN IF venue = "polymarket"
       THEN LET mid == IF side = "long_home" THEN b.home ELSE b.away
            IN IF mid = None THEN NoBook ELSE SynthesizeBook(profile, mid)
       ELSE IF Missing(b.k.mid) THEN NoBook
       ELSE IF sameTeam /\ b.k.bid # None /\ b.k.ask # None THEN Ladder(b.k.bid, b.k.ask)
       ELSE SynthesizeBook(profile, IF sameTeam THEN b.k.mid ELSE Dollar - b.k.mid)

\* _current_mark
CurrentMark(b, venue, side) ==
    IF venue = "polymarket" THEN (IF side = "long_home" THEN b.home ELSE b.away)
    ELSE IF Missing(b.k.mid) THEN None
    ELSE IF b.k.team = (IF side = "long_home" THEN "home" ELSE "away") THEN b.k.mid ELSE Dollar - b.k.mid

\* _resolve_side
ResolveSide(side, b, features) ==
    LET run == IF "recent_run_signed" \in features THEN b.run ELSE None
    IN IF side \in {"long_home", "long_away"} THEN side
       ELSE IF Missing(b.margin) THEN None
       ELSE IF side = "long_trailing" THEN (IF b.margin > 0 THEN "long_away" ELSE "long_home")
       ELSE IF Missing(run) THEN None
       ELSE IF (side = "long_hot") = (run > 0) THEN "long_home" ELSE "long_away"

\* _build_context, for the names the conditions use.
Context(b, pos, venue) ==
    LET mark == IF pos = Flat THEN None ELSE CurrentMark(b, venue, pos.side)
    IN [elapsed_game_sec |-> b.clock, margin |-> b.margin, lead_changes_cum |-> b.leads,
        recent_run_signed |-> IF b.run = NaN THEN None ELSE b.run,
        pm_implied_wp |-> b.home, kalshi_implied_wp |-> b.kwp,
        minutes_since_entry |-> IF pos = Flat THEN None ELSE b.clock - pos.clock,
        unrealized_pnl_bps |-> IF mark = None THEN None ELSE ((mark - pos.price) * 10000) \div Max({pos.price, 1})]

\* eval_condition on a comparison [name, op, than].
EvalCondition(c, ctx) ==
    LET v == ctx[c.name]
    IN IF v = None THEN "TypeError"
       ELSE IF v # NaN /\ ((c.op = ">" /\ v > c.than) \/ (c.op = "<" /\ v < c.than)) THEN "true" ELSE "false"

\* REGISTRY.compute: features that need a window raise before it has passed.
FeatureOffset(f) == IF f = "recent_run_signed" THEN Lookback ELSE IF f = "lineup_hash" THEN LineupOffset ELSE 0
FeaturesAvailable(features, clock) == \A f \in features : clock >= FeatureOffset(f)

(***************************************************************************)
(* Closing and settling.                                                   *)
(***************************************************************************)
MakeTrade(pos, exit, contracts, price, exitFees, reason) ==
    [side |-> pos.side, entry |-> pos.entry, exit |-> exit, size |-> contracts, entryPrice |-> pos.price,
     exitPrice |-> price, gross |-> (price - pos.price) * contracts,
     net |-> (price - pos.price) * contracts - pos.fees - exitFees, reason |-> reason]

\* _settle_position: on the outcome, else at the last bar's Polymarket mid, else at entry.
SettlePosition(g, pos, bars, i, forced) ==
    LET won == (pos.side = "long_home") = g.won
        mid == IF bars[i].home = None THEN pos.price
               ELSE IF pos.side = "long_home" THEN bars[i].home ELSE Dollar - bars[i].home
    IN IF g.won = None THEN MakeTrade(pos, i, pos.size, mid, 0, forced)
       ELSE MakeTrade(pos, i, pos.size, IF won THEN Dollar ELSE 0, 0, IF won THEN "settle_at_one" ELSE "settle_at_zero")

\* _close_position: sold into bar i's book; without a quote, or unfilled, it settles.
ClosePosition(spec, profile, g, pos, bars, i, reason) ==
    LET book == MakeOrderbook(profile, spec.venue, pos.side, bars[i])
        fill == SimulateFill(profile, spec.venue, book, "sell", pos.size, 0, 0)
    IN IF ~fill.filled THEN SettlePosition(g, pos, bars, i, reason)
       ELSE MakeTrade(pos, i, Min({pos.size, fill.size}), fill.price, fill.fees, reason)

(***************************************************************************)
(* replay_game: one bar of the loop.                                       *)
(***************************************************************************)
\* Whether, and why, an open position is to be closed on this bar.
ExitSignal(spec, pos, b) ==
    LET ctx == Context(b, pos, spec.venue)
    IN IF \E c \in spec.exits : EvalCondition(c, ctx) = "true" THEN "explicit_exit"
       ELSE IF b.clock - pos.clock >= spec.stop THEN "time_stop" ELSE "hold"

\* The side to enter on this bar, if any.
EntrySignal(spec, b) ==
    IF EvalCondition(spec.entry, Context(b, Flat, spec.venue)) = "true" THEN ResolveSide(spec.side, b, spec.features) ELSE None

\* The position entered at bar i, or none: no quote, or a killed fill.
Enter(spec, profile, bars, i, side) ==
    LET fill == SimulateFill(profile, spec.venue, MakeOrderbook(profile, spec.venue, side, bars[i]), "buy", spec.size, 0, 0)
    IN IF fill.filled
       THEN [side |-> side, size |-> fill.size, price |-> fill.price, fees |-> fill.fees, entry |-> i, clock |-> bars[i].clock]
       ELSE Flat

\* A bar that closed a position opens none.
AfterExit(spec, profile, bars, i) == Flat

ReplayBar(spec, profile, g, bars, i, pos, done) ==
    LET exit == ExitSignal(spec, pos, bars[i])
        side == EntrySignal(spec, bars[i])
    IN IF ~FeaturesAvailable(spec.features, bars[i].clock) THEN <<pos, done>>
       ELSE IF pos # Flat
       THEN IF exit = "hold" THEN <<pos, done>>
            ELSE IF i < Len(bars)
            THEN <<AfterExit(spec, profile, bars, i), Append(done, ClosePosition(spec, profile, g, pos, bars, i + 1, exit))>>
            ELSE <<Flat, Append(done, ClosePosition(spec, profile, g, pos, bars, i, "end_of_game"))>>
       ELSE IF i = Len(bars) \/ side = None THEN <<pos, done>>
       ELSE <<Enter(spec, profile, bars, i + 1, side), done>>

ReplayInit ==
    /\ twin \in Twins
    /\ plan \in [spec : ReplaySpecs, profile : Profiles]
    /\ bar = 0 /\ position = <<Flat, Flat>> /\ ledger = <<<<>>, <<>>>> /\ settled = FALSE

Bars(r) == BuildBars(twin[r])

\* The loop's body, on both games.
NextBar ==
    LET Step(r) == IF bar < Len(Bars(r))
                   THEN ReplayBar(plan.spec, plan.profile, twin[r], Bars(r), bar + 1, position[r], ledger[r])
                   ELSE <<position[r], ledger[r]>>
        s1 == Step(1)
        s2 == Step(2)
    IN /\ \E r \in 1..2 : bar < Len(Bars(r))
       /\ bar' = bar + 1
       /\ position' = <<s1[1], s2[1]>> /\ ledger' = <<s1[2], s2[2]>>
       /\ UNCHANGED <<twin, plan, settled>>

\* After the loop: what is still open settles on the last bar.
EndOfGame ==
    LET End(r) == IF position[r] = Flat THEN ledger[r]
                  ELSE Append(ledger[r], SettlePosition(twin[r], position[r], Bars(r), Len(Bars(r)), "unknown_outcome_marked"))
    IN /\ \A r \in 1..2 : bar >= Len(Bars(r))
       /\ ~settled /\ settled' = TRUE
       /\ ledger' = <<End(1), End(2)>> /\ position' = <<Flat, Flat>>
       /\ UNCHANGED <<twin, plan, bar>>

ReplayNext == NextBar \/ EndOfGame
ReplaySpec == ReplayInit /\ [][ReplayNext]_replayVars

(***************************************************************************)
(* The constants: the rows of a game come sorted by their time             *)
(* (_build_bars and _oncourt_timeline sort them), and its clock does not   *)
(* go back ("monotonic non-decreasing within a game").                     *)
(***************************************************************************)
InTime(rows) == \A i, j \in DOMAIN rows : i <= j => rows[i].ts <= rows[j].ts
Recorded(g) ==
    /\ Clocked(g) \in Seq([ts : Int, clock : Int, margin : Int \cup {None, NaN}, lead : Int]) /\ InTime(Clocked(g))
    /\ \A i, j \in DOMAIN Clocked(g) : i <= j => Clocked(g)[i].clock <= Clocked(g)[j].clock
    /\ g.subs \in Seq([ts : Int, team : STRING, in : STRING, out : STRING]) /\ InTime(g.subs)
    /\ \A t \in g.pm \cup g.kalshi : t.ts \in Int

ASSUME ReplayAssumption ==
    /\ Staleness \in Int /\ Lookback \in Nat \ {0}
    /\ \A pair \in Twins : Recorded(pair[1]) /\ Recorded(pair[2])

(***************************************************************************)
(* Properties.                                                             *)
(***************************************************************************)
\* What is known of a game at the minute ts: the fixture and what has been recorded
\* up to it, its outcome never.
KnownAt(g, ts) ==
    [fixture |-> <<g.home, g.away, g.starters>>, pbp |-> Upto(Clocked(g), ts), subs |-> Upto(g.subs, ts),
     pm |-> {t \in g.pm : t.ts <= ts}, kalshi |-> {t \in g.kalshi : t.ts <= ts}]
\* A trade as decided: what it made may depend on how the game ended.
Decided(trades) == [t \in DOMAIN trades |-> [side |-> trades[t].side, entry |-> trades[t].entry, exit |-> trades[t].exit]]

\* No look-ahead: whatever was entered, at whatever price, and whatever was
\* closed by the time a bar has been handled is the same in every game that
\* agrees with this one up to the next bar, where its signals are filled.
NoLookahead ==
    LET next == bar + 1
    IN (/\ bar >= 1 /\ \A r \in 1..2 : next <= Len(Bars(r))
        /\ KnownAt(twin[1], Bars(1)[next].ts) = KnownAt(twin[2], Bars(1)[next].ts))
       => position[1] = position[2] /\ Decided(ledger[1]) = Decided(ledger[2])

=============================================================================
