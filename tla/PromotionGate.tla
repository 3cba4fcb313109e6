---------------------------- MODULE PromotionGate ----------------------------
(***************************************************************************)
(* What decides whether a strategy is promoted: the gate over the trades   *)
(* of its validation games, the lab's wider evaluation built on it, and    *)
(* the chronological split of the games that says which ones those are.    *)
(*                                                                         *)
(* A sample is a sequence of trades [pnl, game, day, home, team, price,    *)
(* won, stale], pnl and price in cents, day counted from the season's      *)
(* start.  A percentile bootstrap with a fixed seed is a number between    *)
(* the extremes it can produce: the interval of a set of trades is bounded *)
(* below by its worst game's mean or by its own mean, and above likewise;  *)
(* a gate on the interval may pass if it passes for one of these.          *)
(***************************************************************************)
EXTENDS Integers, Sequences, SequencesExt, FiniteSets, FiniteSetsExt, Functions

CONSTANTS
    Samples,         \* the samples evaluated
    Calendars,       \* the seasons split: sequences of days, one per game, in order
    FloatShort,      \* the n for which n * 0.70 comes out just below a whole number (90, 170...)
    EvenHome,        \* the home teams whose hash is even
    MinTrades,       \* _MIN_N_TRADES_DEFAULT
    DaysOfMonth,
    Sweep            \* the extra costs tried

TradeRecord == [pnl : Int, game : Nat, day : Nat, home : Nat, team : Nat, price : Int, won : BOOLEAN, stale : Nat]

ASSUME GateAssumption ==
    /\ \A c \in Calendars :
         c \in Seq(Nat) /\ Len(c) >= 2 /\ \A j, k \in DOMAIN c : j <= k => c[j] <= c[k]
    /\ \A n \in FloatShort : n \in Nat /\ n >= 10
    /\ \A T \in Samples : T \in Seq(TradeRecord)

VARIABLES
    sample, calendar,
    report,          \* what evaluate returned
    splits           \* splits.json: [train, val, test], sets of games; NoSplits before

gateVars == <<sample, calendar, report, splits>>

(***************************************************************************)
(* Trades of a sample T are named by their index; X is a set of them.      *)
(***************************************************************************)
SumPnl(T, X) == SumFunctionOnSet([i \in DOMAIN T |-> T[i].pnl], X)
Abs(n) == IF n < 0 THEN -n ELSE n
AbsTotal(T, X) == SumFunctionOnSet([i \in DOMAIN T |-> Abs(T[i].pnl)], X)
Games(T, X) == {T[i].game : i \in X}
Teams(T, X) == {T[i].team : i \in X}
OfGame(T, X, g) == {i \in X : T[i].game = g}
OfTeam(T, X, t) == {i \in X : T[i].team = t}

\* A mean is <<total, count>>.
MeanOf(T, X) == <<SumPnl(T, X), Cardinality(X)>>
Leq(p, q) == p[1] * q[2] <= q[1] * p[2]
Positive(p) == p[1] > 0

\* block_bootstrap_by_game: the intervals it may return for the trades X.
Intervals(T, X) ==
    LET means == {MeanOf(T, OfGame(T, X, g)) : g \in Games(T, X)}
        least == CHOOSE m \in means : \A n \in means : Leq(m, n)
        most == CHOOSE m \in means : \A n \in means : Leq(n, m)
    IN {[lo |-> l, hi |-> h] : l \in {least, MeanOf(T, X)}, h \in {MeanOf(T, X), most}}
LowerPositive(T, X) == X /= {} /\ \E i \in Intervals(T, X) : Positive(i.lo)

\* The stability splits: both halves profitable and their intervals overlap.
CisOverlap(i, j) == Leq(i.lo, j.hi) /\ Leq(j.lo, i.hi)
Stable(T, X, Y) ==
    /\ X /= {} /\ Y /= {}
    /\ \E i \in Intervals(T, X), j \in Intervals(T, Y) : Positive(i.lo) /\ Positive(j.lo) /\ CisOverlap(i, j)

\* np.percentile of the days with linear interpolation, times d, for the fraction n/d.
Days(T) == SortSeq([i \in DOMAIN T |-> T[i].day], <)
PercentileTimes(T, n, d) ==
    LET at == n * (Len(T) - 1)
        k == at \div d + 1
        days == Days(T)
        upper == IF k < Len(T) THEN days[k + 1] ELSE days[k]
    IN d * days[k] + (at % d) * (upper - days[k])
Early(T) == {i \in DOMAIN T : 2 * T[i].day <= PercentileTimes(T, 1, 2)}
AfterFirstQuarter(T) == {i \in DOMAIN T : 4 * T[i].day > PercentileTimes(T, 1, 4)}
EvenTrades(T) == {i \in DOMAIN T : T[i].home \in EvenHome}

\* cluster_knockouts: without the top games by absolute total (5% of them, at least one; any
\* of those that tie), without the top team, without the first quarter.
TopSets(total, n) ==
    {D \in kSubset(n, DOMAIN total) :
        \A d \in D, g \in DOMAIN total \ D : Abs(total[d]) >= Abs(total[g])}
TopGames(T) ==
    LET total == [g \in Games(T, DOMAIN T) |-> SumPnl(T, OfGame(T, DOMAIN T, g))]
    IN TopSets(total, (Cardinality(DOMAIN total) * 5 + 99) \div 100)
TopTeams(T) == TopSets([t \in Teams(T, DOMAIN T) |-> SumPnl(T, OfTeam(T, DOMAIN T, t))], 1)
SurvivesKnockouts(T) ==
    /\ \E D \in TopGames(T) : SumPnl(T, {i \in DOMAIN T : T[i].game \notin D}) > 0
    /\ \E D \in TopTeams(T) : SumPnl(T, {i \in DOMAIN T : T[i].team \notin D}) > 0
    /\ SumPnl(T, AfterFirstQuarter(T)) > 0

\* _concentration_share exceeds n percent.
Concentrated_Net(T, sets, n) ==
    LET all == AbsTotal(T, DOMAIN T)
    IN all > 0 /\ \E X \in sets : 100 * Abs(SumPnl(T, X)) > n * all
Concentrated(T, sets, n) ==
    LET all == AbsTotal(T, DOMAIN T)
    IN all > 0 /\ \E X \in sets : 100 * AbsTotal(T, X) > n * all
ByGame(T) == {OfGame(T, DOMAIN T, g) : g \in Games(T, DOMAIN T)}
ByTeam(T) == {OfTeam(T, DOMAIN T, t) : t \in Teams(T, DOMAIN T)}

\* evaluate_trial may pass the sample: every gate but the deflated Sharpe ratio decides.
MayPass(T) ==
    /\ LowerPositive(T, DOMAIN T)
    /\ Len(T) >= MinTrades
    /\ SurvivesKnockouts(T)
    /\ Stable(T, Early(T), DOMAIN T \ Early(T))
    /\ Stable(T, EvenTrades(T), DOMAIN T \ EvenTrades(T))
    /\ ~Concentrated(T, ByGame(T), 20) /\ ~Concentrated(T, ByTeam(T), 25)

(***************************************************************************)
(* lab.evaluate: the gate, a sweep of extra costs, the gate month by       *)
(* month, and the adversarial checks, which report and do not decide.      *)
(***************************************************************************)
AtCost(T, c) == [i \in DOMAIN T |-> [T[i] EXCEPT !.pnl = @ - c]]
Month(T, m) == SelectSeq(T, LAMBDA t : t.day \div DaysOfMonth = m)
Walkforward(T) == [m \in {T[i].day \div DaysOfMonth : i \in DOMAIN T} |-> Len(Month(T, m)) >= 2 /\ MayPass(Month(T, m))]
FreshEnough(T) == \A i \in DOMAIN T : T[i].stale <= 2
\* |win rate - average price| <= 5 cents.
EstimatorUnbiased(T) ==
    LET wins == Cardinality({i \in DOMAIN T : T[i].won})
        paid == MapThenSumSet(LAMBDA i : T[i].price, DOMAIN T)
    IN Abs(100 * wins - paid) <= 5 * Len(T)
\* The halves of the trades in order of day: both profitable, the later keeping a quarter.
HoldsUp(T) ==
    LET S == SortSeq(T, LAMBDA t, u : t.day < u.day)
        mid == Len(T) \div 2
        h1 == MeanOf(S, 1..mid)
        h2 == MeanOf(S, (mid + 1)..Len(T))
    IN Len(T) < 4 \/ (Positive(h1) /\ Positive(h2) /\ ~Leq(<<4 * h2[1], h2[2]>>, h1))
Evaluation(T, passed) ==
    [passed |-> passed,
     sweep |-> [c \in Sweep |-> MayPass(AtCost(T, c))],
     walkforward |-> Walkforward(T),
     checks |-> [staleness |-> FreshEnough(T), bias |-> EstimatorUnbiased(T),
                 concentration |-> ~Concentrated(T, ByGame(T), 20) /\ ~Concentrated(T, ByTeam(T), 25),
                 oos |-> HoldsUp(T)]]
NoReport == [passed |-> FALSE]

\* evaluate refuses fewer than two trades before it looks at them.
Evaluate ==
    /\ report = NoReport /\ calendar = <<>>
    /\ \E passed \in {FALSE, Len(sample) >= 2 /\ MayPass(sample)} :
         report' = IF Len(sample) < 2 THEN [passed |-> FALSE, reasons |-> "few"] ELSE Evaluation(sample, passed)
    /\ UNCHANGED <<sample, calendar, splits>>

(***************************************************************************)
(* splits.lock.  A cut that falls inside a day moves to the day's end.     *)
(***************************************************************************)
NoSplits == [train |-> {}, val |-> {}, test |-> {}]
DayClean_NotAtAll(days, n) == n
DayClean(days, n) ==
    IF n < Len(days) /\ days[n] = days[n + 1] THEN Cardinality({k \in DOMAIN days : days[k] <= days[n]}) ELSE n
TrainRaw(n) == (70 * n) \div 100 - (IF n \in FloatShort THEN 1 ELSE 0)
TrainEnd(days) == DayClean(days, TrainRaw(Len(days)))
\* The second cut is clamped when the first one has eaten the rest.
Clamped(days) == TrainEnd(days) + (15 * Len(days)) \div 100 >= Len(days)
ValEnd(days) == IF Clamped(days) THEN Len(days) - 1 ELSE DayClean(days, TrainEnd(days) + (15 * Len(days)) \div 100)
ComputeSplits(days) ==
    [train |-> 1..TrainEnd(days), val |-> (TrainEnd(days) + 1)..ValEnd(days), test |-> (ValEnd(days) + 1)..Len(days)]

\* The command: refuses a second lock unless it is forced.
Lock(force) ==
    /\ calendar /= <<>> /\ (splits = NoSplits \/ force)
    /\ splits' = ComputeSplits(calendar)
    /\ UNCHANGED <<sample, calendar, report>>

GateInit ==
    /\ \/ sample \in Samples /\ calendar = <<>>
       \/ sample = <<>> /\ calendar \in Calendars
    /\ report = NoReport /\ splits = NoSplits
GateNext == Evaluate \/ \E force \in BOOLEAN : Lock(force)
GateSpec == GateInit /\ [][GateNext]_gateVars

(***************************************************************************)
(* Properties                                                              *)
(***************************************************************************)
\* What a pass stands for whatever the bootstrap draws: at least five games and four teams on
\* more than one day with home teams of both parities, a profit in all, and one that no single
\* team or first quarter makes.  The shares are capped in absolute terms, so a game of gains
\* and losses that cancel still weighs (promotion_gate.py gates 1 to 7).
PassNeedsBreadth ==
    report.passed =>
        LET T == sample IN
        /\ Cardinality(Games(T, DOMAIN T)) >= 5 /\ Cardinality(Teams(T, DOMAIN T)) >= 4
        /\ Cardinality({T[i].day : i \in DOMAIN T}) >= 2
        /\ {T[i].home : i \in DOMAIN T} \cap EvenHome \notin {{}, {T[i].home : i \in DOMAIN T}}
        /\ SumPnl(T, DOMAIN T) > 0
        /\ \A g \in Games(T, DOMAIN T) : 5 * Abs(SumPnl(T, OfGame(T, DOMAIN T, g))) <= AbsTotal(T, DOMAIN T)

\* No day's games are on both sides of a cut and every game is in one split ("Day-clean rule",
\* splits/lock.py), unless the second cut had to be clamped.
SplitsSeparateDays ==
    splits /= NoSplits /\ ~Clamped(calendar) =>
        /\ \A j, k \in DOMAIN calendar :
             calendar[j] = calendar[k] => \A s \in {splits.train, splits.val, splits.test} : j \in s <=> k \in s
        /\ \A j \in splits.train, k \in splits.val, l \in splits.test : j < k /\ k < l
        /\ splits.train \cup splits.val \cup splits.test = DOMAIN calendar
=============================================================================
