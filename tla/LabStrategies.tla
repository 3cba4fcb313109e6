--------------------------- MODULE LabStrategies ---------------------------
(***************************************************************************)
(* The lab's composed strategies: the signals over a panel, the shipped    *)
(* strategy families, the honest fill of lab/execution.py, one trade per   *)
(* game, and the look-ahead auditor.  A panel is one game's per-minute     *)
(* frame for one market: sequences of the same length and a ladder from    *)
(* strikes to quotes.  Prices and probabilities are hundred-thousandths of *)
(* a dollar, as in VenueFees; levels are points; ts and elapsed minutes.   *)
(***************************************************************************)
EXTENDS VenueFees, Sequences, SequencesExt

CONSTANTS
    NoNumber,           \* NaN, or a field left None
    Panels,             \* the raw games: a panel and, for the spread, the winner's panel
    NormCdf(_, _)       \* P(home wins) from the margin and the points left to play

\* A panel's arrays are of one length, its quotes are numbers or missing, and it is
\* loaded with the outcome its market settles on.
Reading == Int \cup {NoNumber}
ArraysOfPanel(p) ==
    /\ p.ts \in Seq(Int) /\ p.mid \in Seq(Reading) /\ Len(p.ts) = Len(p.mid)
    /\ \A s \in DOMAIN p.ladder : s \in Int /\ p.ladder[s] \in Seq(Reading) /\ Len(p.ladder[s]) = Len(p.mid)
\* A bar a minute, with the state of the game in it, and the features a panel may have.
MinutesOfPanel(p) ==
    /\ \A i, j \in DOMAIN p.ts : i < j => p.ts[i] < p.ts[j]
    /\ \A a \in {p.elapsed, p.margin, p.total} : a \in Seq(Int) /\ Len(a) = Len(p.mid)
    /\ \A a \in {p.rem, p.subs, p.div} : a \in Seq(Reading) /\ (a = <<>> \/ Len(a) = Len(p.mid))
OutcomeOfPanel(p) ==
    CASE p.market = "winner" -> p.won \in BOOLEAN
      [] p.market = "total" -> p.finalTotal \in Int
      [] p.market = "spread" -> p.finalMargin \in Int
ASSUME PanelAssumption ==
    /\ NoNumber \notin Int \cup BOOLEAN
    /\ \A g \in Panels :
         /\ {"mid", "ts", "ladder", "market", "won", "finalTotal", "finalMargin"} \subseteq DOMAIN g.panel
         /\ {"elapsed", "margin", "total", "rem", "subs", "div", "duration"} \subseteq DOMAIN g.panel
         /\ g.panel.market \in {"winner", "total", "spread"}
         /\ ArraysOfPanel(g.panel) /\ MinutesOfPanel(g.panel) /\ OutcomeOfPanel(g.panel)

VARIABLES
    game,               \* the raw game under test
    composed,           \* the strategy's name
    booked,             \* the trade Strategy.run books for it, or NoTrade
    auditVerdict             \* the auditor's verdict on the entry signal
strategyVars == <<game, composed, booked, auditVerdict>>

BarsOf(p) == DOMAIN p.mid
Known(x) == x # NoNumber
Minus(x, y) == IF Known(x) /\ Known(y) THEN x - y ELSE NoNumber
Clip(x, lo, hi) == Max({lo, Min({x, hi})})
Magnitude(x) == IF x < 0 THEN -x ELSE x

(***************************************************************************)
(* The side labels.                                                        *)
(***************************************************************************)
OVER_SIDES == {"over", "long_home", "home", "long", "buy", "yes", "cover_home"}
SHORT_SIDES ==
    {"under", "short", "short_home", "short_away", "no", "sell", "cover_away", "long_away"}
\* An unknown label raises: no label outside the two sets is ever given an orientation.
IsShortSide_Default(side) == side \in SHORT_SIDES \ {"long_away"}
IsShortSide(side) == CASE side \in SHORT_SIDES -> TRUE [] side \in OVER_SIDES -> FALSE
IsOverSide(side) == ~IsShortSide(side)

(***************************************************************************)
(* The signals.                                                            *)
(***************************************************************************)
MinElapsed == 2

\* signals.pace_projection; a panel of no fixed length (duration None) projects nothing.
PaceProjection(p, i) ==
    IF Known(p.duration) /\ p.elapsed[i] > MinElapsed
    THEN (p.total[i] * p.duration) \div p.elapsed[i] ELSE NoNumber
AnchoringGap(p, i) == Minus(PaceProjection(p, i), p.mid[i])
ImpliedLevel(p, i) == p.mid[i]

\* signals.staleness_min: NaN is not a change.
Changed(p, i) == i = 1 \/ (Known(p.mid[i]) /\ Known(p.mid[i - 1]) /\ p.mid[i] # p.mid[i - 1])
StalenessMin(p, i) == i - Max({j \in 1..i : Changed(p, j)})

Finite(seq, lo, hi) == {j \in Max({1, lo})..hi : Known(seq[j])}
Mean(seq, js) == SumFunctionOnSet(seq, js) \div Cardinality(js)
\* signals.rolling and zscore over the trailing window; only the sign of the score is kept.
RollingMean(seq, window, i) ==
    LET js == Finite(seq, i - window + 1, i) IN IF js = {} THEN NoNumber ELSE Mean(seq, js)
ZScore(seq, window, i) ==
    LET js == Finite(seq, i - window + 1, i)
        flat == \A j, k \in js : seq[j] = seq[k]
    IN IF Cardinality(js) < 2 \/ flat \/ ~Known(seq[i]) THEN NoNumber
       ELSE Cardinality(js) * seq[i] - SumFunctionOnSet(seq, js)

(***************************************************************************)
(* The reaction family.  A strategy applied to a panel is a record: the    *)
(* bars where its entry mask is true, the side it takes at each, and the   *)
(* window and freshness its entry must meet.                               *)
(***************************************************************************)
Composed(entry, side, lo, hi, stale) ==
    [entry |-> entry, side |-> side, lo |-> lo, hi |-> hi, stale |-> stale]

MARGIN_BINS == <<-100, -20, -15, -11, -8, -5, -3, -1, 1, 3, 5, 8, 11, 15, 20, 100>>
FairWp(p, i) ==
    LET mi == Clip(Cardinality({b \in 1..16 : MARGIN_BINS[b] <= p.margin[i]}) - 1, 0, 14)
    IN Clip(2 * Cent + (96 * Cent * mi) \div 14, 2 * Cent, 98 * Cent)

\* fair_value_gap: the winner's price against the margin's fair value, 6 cents apart.
FairValueGap(p) ==
    LET gap(i) == Minus(p.mid[i], FairWp(p, i))
        thresh == 6 * Cent
    IN Composed({i \in BarsOf(p) : Known(gap(i)) /\ Magnitude(gap(i)) >= thresh},
                [i \in BarsOf(p) |-> IF Known(gap(i)) /\ gap(i) >= thresh THEN "short_home" ELSE "long_home"],
                6, 42, 2)

\* term_structure_rv: the model's price from the margin and the points the total leaves.
TermStructureRv(p) ==
    LET rem(i) == IF p.rem = <<>> THEN 80 ELSE Max({1, p.rem[i]})
        gap(i) == Minus(NormCdf(p.margin[i], rem(i)), p.mid[i])
    IN Composed({i \in BarsOf(p) : Known(gap(i)) /\ Magnitude(gap(i)) >= 5 * Cent},
                [i \in BarsOf(p) |-> IF Known(gap(i)) /\ gap(i) > 0 THEN "long_home" ELSE "short_home"],
                10, 42, 2)

\* closing_line_value: the drift from the first finite quote, followed.
ClosingLineValue(p) ==
    LET quoted == {i \in BarsOf(p) : Known(p.mid[i])}
        drift(i) == IF quoted = {} THEN NoNumber ELSE Minus(p.mid[i], p.mid[Min(quoted)])
    IN Composed({i \in BarsOf(p) : Known(drift(i)) /\ Magnitude(drift(i)) >= 2 * Cent},
                [i \in BarsOf(p) |-> IF Known(drift(i)) /\ drift(i) > 0 THEN "long_home" ELSE "short_home"],
                0, 48, Len(p.mid))

\* substitution_latency: a signed substitution feature, followed; absent, it never fires.
SubstitutionLatency(p) ==
    LET sub(i) == IF p.subs = <<>> THEN 0 ELSE p.subs[i]
    IN Composed({i \in BarsOf(p) : Known(sub(i)) /\ sub(i) # 0},
                [i \in BarsOf(p) |-> IF Known(sub(i)) /\ sub(i) > 0 THEN "long_home" ELSE "short_home"],
                0, 46, 2)

(***************************************************************************)
(* The anchoring family.                                                   *)
(***************************************************************************)
\* anchoring._anchoring_gap: the total's pace from the signals, the spread's margin here.
GapNumpy(p, i) ==
    IF Known(p.duration) /\ p.elapsed[i] > MinElapsed
    THEN Minus(((IF p.market = "total" THEN p.total[i] ELSE p.margin[i]) * p.duration)
                   \div p.elapsed[i], p.mid[i])
    ELSE NoNumber
FamilyGap(p, i) == IF p.market = "total" THEN AnchoringGap(p, i) ELSE GapNumpy(p, i)
EntryMask(p, thresh, lo, hi, stale) ==
    {i \in BarsOf(p) : /\ p.elapsed[i] >= lo /\ p.elapsed[i] <= hi
                     /\ StalenessMin(p, i) <= stale
                     /\ Known(FamilyGap(p, i)) /\ Magnitude(FamilyGap(p, i)) >= thresh}
MakeSide(p, overLabel, underLabel) ==
    [i \in BarsOf(p) |-> IF Known(FamilyGap(p, i)) /\ FamilyGap(p, i) > 0 THEN overLabel ELSE underLabel]
BuildAnchoring(p, overLabel, underLabel) ==
    Composed(EntryMask(p, 6, 12, 42, 2), MakeSide(p, overLabel, underLabel), 12, 42, 2)
TotalsAnchoring(p) == BuildAnchoring(p, "over", "under")
SpreadAnchoring(p) == BuildAnchoring(p, "cover_home", "cover_away")

(***************************************************************************)
(* The price-level family.                                                 *)
(***************************************************************************)
Strikes(p) == DOMAIN p.ladder
\* argmin over the sorted strikes: the nearest, the lower on a tie.
NearestStrike(p, level) ==
    CHOOSE s \in Strikes(p) : \A t \in Strikes(p) :
        \/ Magnitude(s - level) < Magnitude(t - level)
        \/ Magnitude(s - level) = Magnitude(t - level) /\ s <= t
PriceLevel(p, i) ==
    IF p.market = "winner" \/ Strikes(p) = {} THEN ImpliedLevel(p, i)
    ELSE LET y == [s \in Strikes(p) |-> p.ladder[s][i]]
         IN y[IF Known(p.mid[i]) THEN NearestStrike(p, p.mid[i]) ELSE Min(Strikes(p))]
TimeMask(p, lo, hi) == {i \in BarsOf(p) : p.elapsed[i] >= lo /\ p.elapsed[i] <= hi}
FirstOnly(mask) == IF mask = {} THEN {} ELSE {Min(mask)}
Back(p) == IF p.market = "winner" THEN "long_home" ELSE "over"
Fade(p) == IF p.market = "winner" THEN "long_away" ELSE "under"

\* favorite_longshot: below 10 cents faded, above 90 backed.
FavoriteLongshot(p) ==
    LET price(i) == PriceLevel(p, i)
        extreme(i) == Known(price(i)) /\ (price(i) < 10 * Cent \/ price(i) > 90 * Cent)
    IN Composed(FirstOnly({i \in TimeMask(p, 10, 42) : extreme(i)}),
                [i \in BarsOf(p) |-> IF Known(price(i)) /\ price(i) > 90 * Cent THEN Back(p) ELSE Fade(p)],
                10, 42, 2)

\* calibration_bucket with the default bias: the cheapest bucket faded, the priciest backed.
CalibrationBucket(p) ==
    LET price(i) == PriceLevel(p, i)
        low(i) == price(i) < 5 * Cent
        high(i) == price(i) >= 95 * Cent
    IN Composed(FirstOnly({i \in TimeMask(p, 10, 42) : Known(price(i)) /\ (low(i) \/ high(i))}),
                [i \in BarsOf(p) |-> IF Known(price(i)) /\ high(i) THEN Back(p) ELSE Fade(p)],
                10, 42, 2)

(***************************************************************************)
(* Winner against spread.                                                  *)
(***************************************************************************)
Interp(x0, y0, x1, y1) == y0 + ((y1 - y0) * (0 - x0)) \div (x1 - x0)
\* spread_implied_pwin: the finite quotes interpolated at strike 0, flat beyond the ends.
SpreadImpliedPwin(p, i) ==
    LET y == [s \in Strikes(p) |-> p.ladder[s][i]]
        xs == {s \in Strikes(p) : Known(y[s])}
        left == {s \in xs : s <= 0}
        right == {s \in xs : s > 0}
    IN IF Cardinality(xs) < 2 THEN NoNumber
       ELSE IF left = {} THEN y[Min(xs)]
       ELSE IF right = {} THEN y[Max(xs)]
       ELSE Clip(Interp(Max(left), y[Max(left)], Min(right), y[Min(right)]), 0, Dollar)

ElapsedTol == 1
\* attach_winner_mid: the winner bar nearest in elapsed time, the earlier on a tie.
WinnerPwin(p, w, i) ==
    LET d(j) == Magnitude(w.elapsed[j] - p.elapsed[i])
        near == Min({j \in BarsOf(w) : \A k \in BarsOf(w) : d(j) <= d(k)})
    IN IF d(near) > ElapsedTol THEN NoNumber ELSE w.mid[near]
AttachWinnerMid(g) ==
    [g.panel EXCEPT !.div =
        [i \in BarsOf(g.panel) |-> Minus(SpreadImpliedPwin(g.panel, i), WinnerPwin(g.panel, g.winner, i))]]

\* xmarket_consistency: eight cents apart, the spread book is faded toward the winner's.
XmarketConsistency(p) ==
    Composed({i \in BarsOf(p) : Known(p.div[i]) /\ Magnitude(p.div[i]) >= 8 * Cent},
             [i \in BarsOf(p) |-> IF Known(p.div[i]) /\ p.div[i] < 0 THEN "cover_home" ELSE "cover_away"],
             10, 42, 2)

(***************************************************************************)
(* The catalogue, and the panel each strategy is run on.                   *)
(***************************************************************************)
Catalogue(market) ==
    CASE market = "winner" -> {"fair_value_gap", "term_structure_rv", "closing_line_value",
                               "substitution_latency", "favorite_longshot", "calibration_bucket"}
      [] market = "total" -> {"totals_anchoring", "favorite_longshot", "calibration_bucket"}
      [] market = "spread" -> {"spread_anchoring", "xmarket_consistency"}
Applied(name, p) ==
    CASE name = "fair_value_gap" -> FairValueGap(p)
      [] name = "term_structure_rv" -> TermStructureRv(p)
      [] name = "closing_line_value" -> ClosingLineValue(p)
      [] name = "substitution_latency" -> SubstitutionLatency(p)
      [] name = "favorite_longshot" -> FavoriteLongshot(p)
      [] name = "calibration_bucket" -> CalibrationBucket(p)
      [] name = "totals_anchoring" -> TotalsAnchoring(p)
      [] name = "spread_anchoring" -> SpreadAnchoring(p)
      [] name = "xmarket_consistency" -> XmarketConsistency(p)
Loaded(name, g) == IF name = "xmarket_consistency" THEN AttachWinnerMid(g) ELSE g.panel

(***************************************************************************)
(* The fill.                                                               *)
(***************************************************************************)
HalfSpread == (3 * Cent) \div 2
SportsBps == 300
\* execution._interp_at: the last finite sample at or before ts.
InterpAt_Bridged(ts, p, seq) ==
    LET js == {j \in BarsOf(p) : Known(seq[j]) /\ p.ts[j] <= ts + 1}
    IN IF js = {} THEN NoNumber ELSE seq[Max(js)]
InterpAt(ts, p, seq) ==
    LET js == {j \in BarsOf(p) : Known(seq[j]) /\ p.ts[j] <= ts}
    IN IF js = {} THEN NoNumber ELSE seq[Max(js)]
LabFee(price) == PmTakerFee(price, 1, SportsBps)

\* FillResult at a quoted P(over): clipped, oriented, the spread crossed, the fee billed.
FillResult(strike, quote, side) ==
    LET p == Clip(quote, Cent, 99 * Cent)
        mid == IF IsShortSide(side) THEN Dollar - p ELSE p
        crossed == Min({mid + HalfSpread, Dollar - Cent \div 10})
    IN [strike |-> strike, mid |-> mid, allIn |-> mid + HalfSpread + LabFee(crossed)]

NoFill == [strike |-> 0, mid |-> 0, allIn |-> 0]
\* FillModel.fill; NoFill stands for the ValueError of a quote nobody printed yet.
Fill(p, ts, side) ==
    LET level == InterpAt(ts, p, p.mid)
        ladderless == p.market = "winner" \/ Strikes(p) = {}
        strike == IF ladderless THEN 0 ELSE NearestStrike(p, level)
        quote == IF ladderless THEN level ELSE InterpAt(ts, p, p.ladder[strike])
    IN IF ~Known(level) \/ ~Known(quote) THEN NoFill ELSE FillResult(strike, quote, side)

(***************************************************************************)
(* One trade per game.                                                     *)
(***************************************************************************)
EntryLatency == 1
\* Strategy._first_qualifying_bar; 0 when no bar qualifies.
FirstQualifyingBar(p, s) ==
    LET bars == {i \in s.entry : /\ p.elapsed[i] >= s.lo /\ p.elapsed[i] <= s.hi
                                 /\ StalenessMin(p, i) <= s.stale}
    IN IF bars = {} THEN 0 ELSE Min(bars)

\* Strategy._settlement_payoff: home_won, or the outcome strictly above the filled strike.
SettlementPayoff(p, side, strike) ==
    LET outcome == CASE p.market = "winner" -> p.won [] p.market = "total" -> p.finalTotal [] OTHER -> p.finalMargin
        above == IF p.market = "winner" THEN outcome ELSE outcome > strike
    IN IF ~Known(outcome) THEN NoNumber
       ELSE IF above = IsOverSide(side) THEN Dollar ELSE 0

\* Strategy._primary_team
PrimaryTeam(side) == IF IsOverSide(side) THEN "home" ELSE "away"

NoTrade == [bar |-> 0, side |-> "none", ts |-> 0, strike |-> 0, allIn |-> 0, payoff |-> 0, team |-> "none"]
\* Strategy._run_one, held to settlement as every shipped strategy is.
RunOne(p, s) ==
    LET bar == FirstQualifyingBar(p, s)
        side == s.side[bar]
        ts == p.ts[bar] + EntryLatency
        fill == Fill(p, ts, side)
    IN IF bar = 0 THEN NoTrade
       ELSE IF fill = NoFill THEN NoTrade
       ELSE [bar |-> bar, side |-> side, ts |-> ts, strike |-> fill.strike, allIn |-> fill.allIn,
             payoff |-> SettlementPayoff(p, side, fill.strike), team |-> PrimaryTeam(side)]

(***************************************************************************)
(* The auditor.                                                            *)
(***************************************************************************)
CutSeq(seq, t) == SubSeq(seq, 1, Min({t, Len(seq)}))
\* audit.truncate_panel: every per-bar array cut after bar t, the outcome erased.
TruncatePanel(p, t) ==
    [p EXCEPT !.ts = CutSeq(p.ts, t), !.elapsed = CutSeq(p.elapsed, t), !.margin = CutSeq(p.margin, t),
              !.total = CutSeq(p.total, t), !.mid = CutSeq(p.mid, t), !.rem = CutSeq(p.rem, t),
              !.subs = CutSeq(p.subs, t), !.div = CutSeq(p.div, t),
              !.ladder = [s \in Strikes(p) |-> CutSeq(p.ladder[s], t)],
              !.won = NoNumber, !.finalTotal = NoNumber, !.finalMargin = NoNumber]

\* audit_signal_no_lookahead: the cuts at the default fractions of the panel.
Cuts(n) ==
    LET at == {1 + (f * (n - 1)) \div 100 : f \in {25, 50, 75, 90}}
        inner == {t \in at : t >= 2 /\ t < n}
    IN IF inner = {} THEN {Max({2, 1 + n \div 2})} ELSE inner
Signals == {"implied_level", "anchoring_gap", "staleness_min", "rolling", "zscore", "entry"}
Signal(name, p, strategy) ==
    [i \in BarsOf(p) |->
        CASE name = "implied_level" -> ImpliedLevel(p, i)
          [] name = "anchoring_gap" -> AnchoringGap(p, i)
          [] name = "staleness_min" -> StalenessMin(p, i)
          [] name = "rolling" -> RollingMean(p.mid, 2, i)
          [] name = "zscore" -> ZScore(p.mid, 3, i)
          [] name = "entry" -> IF i \in Applied(strategy, p).entry THEN 1 ELSE 0]
AuditSignal(name, p, strategy) ==
    \A t \in Cuts(Len(p.mid)) :
        Signal(name, TruncatePanel(p, t), strategy) = CutSeq(Signal(name, p, strategy), t)

(***************************************************************************)
(* A session: load a game, backtest it, audit the signal.                  *)
(***************************************************************************)
StrategyInit ==
    /\ game \in Panels
    /\ composed \in Catalogue(game.panel.market)
    /\ booked = NoTrade /\ auditVerdict = "no"

Backtest ==
    /\ auditVerdict = "no"
    /\ booked' = RunOne(Loaded(composed, game), Applied(composed, Loaded(composed, game)))
    /\ auditVerdict' = "ran"
    /\ UNCHANGED <<game, composed>>

AuditReport ==
    /\ auditVerdict = "ran"
    /\ auditVerdict' = IF \A name \in Signals : AuditSignal(name, Loaded(composed, game), composed)
                  THEN "passed" ELSE "failed"
    /\ UNCHANGED <<game, composed, booked>>

StrategyNext == Backtest \/ AuditReport
StrategySpec == StrategyInit /\ [][StrategyNext]_strategyVars

(***************************************************************************)
(* Properties.                                                             *)
(***************************************************************************)
\* What was known when bar t printed: both raw panels cut there, before any join.
KnownBy(g, t) ==
    [panel |-> TruncatePanel(g.panel, t),
     winner |-> TruncatePanel(g.winner, Cardinality({j \in BarsOf(g.winner) : g.winner.ts[j] <= g.panel.ts[t]}))]
\* Both panels of a game are made over the game's minutes and its one clock.
InStep(g) ==
    /\ {"mid", "ts", "elapsed"} \subseteq DOMAIN g.winner /\ ArraysOfPanel(g.winner) /\ MinutesOfPanel(g.winner)
    /\ \A i \in BarsOf(g.panel) : \E j \in BarsOf(g.winner) :
          g.winner.ts[j] = g.panel.ts[i] /\ g.winner.elapsed[j] = g.panel.elapsed[i]
Decision(b) == <<b.bar, b.side, b.ts, b.strike, b.allIn>>

\* For every shipped strategy the trade of Strategy.run is the trade it would have made
\* live: on the data known at any bar t, the same bar, side, strike and all-in price once
\* the fill's minute has printed, and no trade the full panel does not make.  And the
\* auditor never fails such a signal.
LabTradesAreCausal ==
    /\ auditVerdict # "failed"
    /\ auditVerdict # "no" => \A t \in BarsOf(game.panel) :
        LET raw == KnownBy(game, t)
            live == RunOne(Loaded(composed, raw), Applied(composed, Loaded(composed, raw)))
            due == booked # NoTrade /\ booked.ts <= game.panel.ts[t]
        IN /\ due => Decision(live) = Decision(booked)
           /\ live # NoTrade /\ live.ts <= game.panel.ts[t] => due

\* A bet on the home side and a bet on the away side, whatever their labels, filled in the
\* minute of a booked trade are a full hedge at one strike: exactly one of the two pays, and
\* together they never cost less than a dollar plus both half spreads.  The booked trade is
\* one of them: fill, settlement and team orient a label the same way.
SidesAreComplements ==
    booked # NoTrade =>
        /\ \A home \in {"over", "long_home", "cover_home"}, away \in {"under", "short_home", "long_away", "cover_away"} :
            LET p == game.panel
                back == Fill(p, booked.ts, home)
                fade == Fill(p, booked.ts, away)
            IN /\ back.strike = fade.strike /\ back.strike = booked.strike
               /\ SettlementPayoff(p, home, back.strike) + SettlementPayoff(p, away, fade.strike) = Dollar
               /\ back.allIn + fade.allIn >= Dollar + 2 * HalfSpread
               /\ booked.allIn \in {back.allIn, fade.allIn}
        /\ (booked.team = "home") = (booked.side \in {"over", "long_home", "cover_home"})
=============================================================================
