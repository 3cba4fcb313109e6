----------------------------- MODULE MCResearch -----------------------------
(***************************************************************************)
(* The research side on small instances.  Its parts share files but none   *)
(* of the state modelled here, so a behaviour picks one part and follows   *)
(* it; the others stay at rest.                                            *)
(***************************************************************************)
EXTENDS TrialLedger, BacktestReplay, PaperBook, HypothesisLab, PromotionGate, LabStrategies,
        EventPanels, EventCache, ResearchLake

VARIABLE part
researchVars == <<part, trialVars, replayVars, paperVars, labVars, gateVars, strategyVars, panelVars,
                  buildVars, featureVars, lakeVars>>
One(S) == CHOOSE x \in S : TRUE

(***************************************************************************)
(* Trials: a validation run, test runs under two seeds of which one is a   *)
(* prefix of the other, a dry one, an unreadable write-up, a missing       *)
(* token, an unreadable spec and specs that do not validate.               *)
(***************************************************************************)
Condition(names) == [ast |-> TRUE, names |-> names]
TrialSpec(id, features, exits) ==
    [id |-> id, words |-> TRUE, sizing |-> 1, cap |-> 1, stop |-> 1, bps |-> 0, features |-> features,
     entry |-> Condition(features), exits |-> exits]
SpecA == TrialSpec("a", {"margin"}, {Condition({"margin", "pos_size"})})
SpecB == TrialSpec("b", {"margin"}, {Condition({"elapsed"})})
Leaky == TrialSpec("leaky", {"espn_home_winprob"}, {Condition({})})
Undeclared == TrialSpec("undeclared", {"margin"}, {Condition({"pace"})})
Line(spec, split, token, seed, dry, writeup) ==
    [read |-> TRUE, spec |-> spec, split |-> split, token |-> token, profile |-> "official_2026",
     seed |-> seed, dry |-> dry, writeup |-> writeup]
Token == "sha256 of the spec"
SomeLines ==
    {Line(SpecA, "val", "none", 0, FALSE, "none"), Line(SpecA, "test", Token, 10, FALSE, "none"),
     Line(SpecA, "test", Token, 1, FALSE, "none"), Line(SpecB, "test", Token, 0, TRUE, "none"),
     Line(SpecB, "test", Token, 0, FALSE, "unreadable"), Line(SpecB, "test", "none", 0, FALSE, "none"),
     Line(Leaky, "val", "none", 0, FALSE, "none"), Line(Undeclared, "val", "none", 0, FALSE, "none"),
     [Line(SpecA, "val", "none", 0, FALSE, "none") EXCEPT !.read = FALSE]}

(***************************************************************************)
(* Replay: four bars, every combination of three mids, and a twin of each  *)
(* game that differs after the second or third bar and in the outcome.     *)
(***************************************************************************)
Mids == {None, 40000, 60000}
Turned(m) == IF m = None THEN 60000 ELSE IF m = 60000 THEN 40000 ELSE None
Minutes == 1..4
Margins == {<<2, -3, 0, 5>>, <<-1, NaN, 4, 4>>}
MakeGame(mids, margins, won) ==
    LET quoted == {j \in Minutes : mids[j] # None} IN
    [pbp |-> [i \in Minutes |-> [ts |-> i, clock |-> i - 1, margin |-> margins[i], lead |-> i % 2]],
     pm |-> {[ts |-> i, mid |-> mids[i]] : i \in quoted},
     kalshi |-> {[ts |-> i, team |-> "BOS", mid |-> mids[i], bid |-> mids[i] - 1000, ask |-> mids[i] + 1000] : i \in quoted},
     subs |-> <<[ts |-> 2, team |-> "BOS", in |-> "c", out |-> "a"], [ts |-> 3, team |-> "LAL", in |-> "e", out |-> "d"]>>,
     starters |-> [home |-> {"a", "b"}, away |-> {"d"}], home |-> "BOS", away |-> "LAL", won |-> won]
TwinGames(mids, margins, won, cut) ==
    <<MakeGame(mids, margins, won),
      MakeGame([i \in Minutes |-> IF i <= cut THEN mids[i] ELSE Turned(mids[i])],
               [i \in Minutes |-> IF i <= cut THEN margins[i] ELSE 1], IF won = None THEN TRUE ELSE ~won)>>
SomeTwins == {TwinGames(m, g, w, c) : m \in [Minutes -> Mids], g \in Margins, w \in {TRUE, None}, c \in 2..3}
When(name, op, than) == [name |-> name, op |-> op, than |-> than]
PlanOf(venues, side, features, entry, exit, stop, size) ==
    [venue |-> venues, side |-> side, features |-> features, entry |-> entry, exits |-> {exit}, stop |-> stop, size |-> size]
SomePlans ==
    {PlanOf("polymarket", "long_home", {"pm_implied_wp"}, When("pm_implied_wp", ">", 30000), When("unrealized_pnl_bps", ">", 500), 1, 5),
     PlanOf("polymarket", "long_trailing", {"margin", "lineup_hash"}, When("margin", ">", -2), When("minutes_since_entry", ">", 0), 9, 9),
     PlanOf("polymarket", "long_cold", {"recent_run_signed"}, When("recent_run_signed", "<", 9), When("unrealized_pnl_bps", "<", -2000), 0, 2),
     PlanOf("kalshi", "long_home", {"kalshi_implied_wp"}, When("kalshi_implied_wp", "<", 70000), When("unrealized_pnl_bps", "<", -500), 1, 4)}
SomeProfiles == {PESSIMISTIC, ZERO_COST, OFFICIAL_2026}
ReplayIdle ==
    /\ twin = One(SomeTwins) /\ plan = [spec |-> One(SomePlans), profile |-> PESSIMISTIC]
    /\ bar = 0 /\ position = <<Flat, Flat>> /\ ledger = <<<<>>, <<>>>> /\ settled = FALSE

(***************************************************************************)
(* Paper: a maker that trades in, around, before or outside its horizon,   *)
(* beside a taker, a scanned event or a second maker.                      *)
(***************************************************************************)
Quote(bid, ask, volume, strike) == [bid |-> bid, ask |-> ask, mts |-> 45, volume |-> volume, orient |-> 1, strike |-> strike]
PaperSignal(kind, signal, prints, resolves, win, quote) ==
    [kind |-> kind, signal |-> signal, gate |-> TRUE, quote |-> quote, rest |-> 40000, over |-> TRUE, prints |-> prints,
     resolves |-> resolves, win |-> win, markets |-> {Quote(96, 97, 120, 5), Quote(3, 4, 500, 6)}]
Makers ==
    {PaperSignal("maker", 1, prints, 5, TRUE, TRUE) : prints \in {{}, {2}, {3, 4}, {5}, {1}}}
        \cup {PaperSignal("maker", 1, {3}, 4, FALSE, FALSE)}
Others ==
    {PaperSignal("taker", 1, {}, 3, FALSE, TRUE), PaperSignal("taker_scan", 2, {}, 3, TRUE, TRUE),
     PaperSignal("maker", 2, {4}, 4, TRUE, TRUE)}
SomeWorlds == {[i \in {"m", "t"} |-> IF i = "m" THEN m ELSE t] : m \in Makers, t \in Others}
PaperIdle ==
    /\ world = One(SomeWorlds) /\ now = 0 /\ log = <<>> /\ torn = FALSE /\ faults = 0
    /\ pass = [p \in Pass |-> IdlePass]

(***************************************************************************)
(* Lab: two ideas, the older of a known family, and two analysts.          *)
(***************************************************************************)
Families == [i \in {"i1", "i2"} |-> IF i = "i1" THEN "nba" ELSE NoFamily]
Ages == [i \in {"i1", "i2"} |-> IF i = "i1" THEN 1 ELSE 2]
LabIdle ==
    /\ registry = [i \in Idea |-> Unregistered] /\ halfLine = FALSE /\ trialLog = <<>>
    /\ task = [a \in Analyst |-> IdleTask] /\ fold = <<>> /\ beat = [running |-> FALSE, idle |-> 0]
    /\ asked = [i \in Idea |-> "absent"] /\ ran = {} /\ executor = "agent" /\ passes = 0 /\ labFaults = 0

(***************************************************************************)
(* Gate: eight trades over four to eight games and three to eight teams,   *)
(* a single trade, and every calendar of seven games on four days.         *)
(***************************************************************************)
Cyclic(n) == [i \in 1..8 |-> (i - 1) % n]
SampleOf(pnls, games, teams) ==
    [i \in 1..8 |-> [pnl |-> pnls[i], game |-> games[i], day |-> i * 5, home |-> i % 2, team |-> teams[i],
                     price |-> 50, won |-> pnls[i] > 0, stale |-> 1]]
Pnls ==
    {<<2, -1, 2, -1, -1, 2, -1, 2>>} \cup [1..8 -> {1, 2}]
        \cup {[i \in 1..8 |-> IF i \in {a, b} THEN -1 ELSE 2] : a, b \in 1..8}
SomeSamples ==
    {SampleOf(p, Cyclic(g), Cyclic(t)) : p \in Pnls, g \in {8, 6, 4}, t \in {8, 4, 3}}
        \cup {<<[pnl |-> 1, game |-> 1, day |-> 1, home |-> 0, team |-> 1, price |-> 50, won |-> TRUE, stale |-> 3]>>}
SomeCalendars == {SortSeq(c, <) : c \in [1..7 -> 1..4]}
GateIdle == sample = <<>> /\ calendar = <<>> /\ report = NoReport /\ splits = NoSplits

(***************************************************************************)
(* Strategies: four bars of winner, total and spread panels, with and      *)
(* without ladders, substitutions and a clock.                             *)
(***************************************************************************)
GamePanel(market, elapsed, mids, margins, totals, ladder, subs, rem, duration, won, finalTotal, finalMargin) ==
    [market |-> market, ts |-> <<1, 2, 3, 4>>, elapsed |-> elapsed, mid |-> mids, margin |-> margins, total |-> totals,
     ladder |-> ladder, subs |-> subs, rem |-> rem, div |-> <<>>, duration |-> duration, won |-> won,
     finalTotal |-> finalTotal, finalMargin |-> finalMargin]
Scores == <<20, 40, 42, 60>>
Level == <<0, 0, 0, 0>>
Winner(mids, margins, subs, rem, won) ==
    GamePanel("winner", <<5, 10, 11, 13>>, mids, margins, Scores, <<>>, subs, rem, 48, won, 200, IF won THEN 5 ELSE -5)
Winners ==
    {Winner(m, g, s, r, w) : m \in [Minutes -> {NoNumber, 4000, 50000, 97000}], g \in {<<0, -9, 12, 3>>, <<30, 2, 2, -1>>},
        s \in {<<>>, <<0, 1, NoNumber, -1>>}, r \in {<<>>, <<0, 90, 60, 50>>}, w \in BOOLEAN}
Ladders(low, high) ==
    {[s \in {low, high} |-> IF s = low THEN x ELSE y] :
        x \in {<<70000, 90000, 96000, 3000>>, <<NoNumber, 60000, NoNumber, 55000>>},
        y \in {<<NoNumber, 30000, 2000, 1000>>, <<45000, NoNumber, 8000, 20000>>}}
TotalPanels ==
    {GamePanel("total", <<2, 12, 13, 14>>, m, Level, tt, l, <<>>, <<>>, d, TRUE, ft, 5) :
        m \in [Minutes -> {NoNumber, 205, 222}], tt \in {<<9, 60, 61, 62>>, <<9, 50, 51, 80>>},
        l \in Ladders(205, 225) \cup {<<>>}, d \in {48, NoNumber}, ft \in {205, 210}}
SpreadPanels ==
    {GamePanel("spread", <<9, 12, 12, 14>>, m, g, Scores, l, <<>>, <<>>, 48, TRUE, 200, fm) :
        m \in [Minutes -> {NoNumber, -3, 4}], g \in {<<2, 3, -3, 5>>, <<1, 0, 0, 4>>}, l \in Ladders(-2, 4), fm \in {-2, 5}}
Beside(mids, elapsed) == [Winner(mids, Level, <<>>, <<>>, TRUE) EXCEPT !.elapsed = elapsed]
NoWinner == Winner([i \in Minutes |-> NoNumber], Level, <<>>, <<>>, TRUE)
SomePanels ==
    {[panel |-> p, winner |-> NoWinner] : p \in Winners \cup TotalPanels}
        \cup {[panel |-> p, winner |-> Beside(m, p.elapsed)] :
                 p \in SpreadPanels, m \in {<<50000, 40000, 90000, 90000>>, <<50000, NoNumber, 60000, 1000>>}}
Cdf(margin, rem) == 50000 + Min({45000, Max({-45000, (3000 * margin) \div (1 + rem \div 40)})})
StrategyIdle ==
    /\ game = [panel |-> NoWinner, winner |-> NoWinner] /\ composed = One(Catalogue("winner"))
    /\ booked = NoTrade /\ auditVerdict = "no"

(***************************************************************************)
(* Panels: a temperature ladder of four buckets, coin ladders of both      *)
(* orientations, and spread and total rows of both venues.                 *)
(***************************************************************************)
Candle(t, mid) == [ts |-> t, mid |-> mid]
Quotes == {{Candle(1, 20), Candle(2, 60)}, {Candle(2, Blank), Candle(3, 30)}, {Candle(1, 90), Candle(3, 45)}}
PricedContract(floor, cap, paid, candles) ==
    [floor |-> floor, cap |-> cap, result |-> IF paid THEN "yes" ELSE "no", candles |-> candles]
TempEvents ==
    {[kind |-> "temp", markets |-> {PricedContract(Blank, 50, y = 1, a), PricedContract(50, 51, y = 2, b),
                                    PricedContract(52, 53, y = 3, c), PricedContract(53, Blank, y = 4, d)}] :
        y \in 0..4, a \in Quotes, b \in Quotes \cup {{}}, c \in Quotes, d \in Quotes}
CoinEvents ==
    {[kind |-> "coin_price", expiration |-> Blank,
      markets |-> {PricedContract(10, Blank, px > 10, a), PricedContract(20, Blank, px > 20, b), PricedContract(Blank, 30, px < 30, c),
                   PricedContract(20, 30, FALSE, a)}] : px \in {5, 15, 25, 35}, a \in Quotes, b \in Quotes, c \in Quotes}
    \cup {[kind |-> "coin_price", expiration |-> px, markets |-> {PricedContract(10, Blank, px > 10, a), PricedContract(20, Blank, px > 20, b)}] :
             px \in {5, 10, 15, 25}, a \in Quotes, b \in Quotes}
Row(venues, team, t, strike, prob) == [venue |-> venues, team |-> team, ts |-> t, strike |-> strike, prob |-> prob]
SpreadRows ==
    {Row("kalshi", "home", 1, 3, 40), Row("kalshi", "away", 1, 5, 20), Row("kalshi", "away", 2, -3, 70),
     Row("polymarket", "home", 2, -3, 44), Row("polymarket", "home", 1, 5, 90), Row("kalshi", "other", 2, 7, 10)}
TotalRows ==
    {Row("kalshi", "x", 1, 200, 60), Row("polymarket", "x", 1, 200, 50), Row("kalshi", "x", 2, 210, 45), Row("kalshi", "x", 3, 200, 30)}
SomeEvents ==
    TempEvents \cup CoinEvents
        \cup {[kind |-> "spread", rows |-> rs, bars |-> 3, score |-> <<0, 2, s>>] : rs \in SUBSET SpreadRows, s \in {Blank, -9, -5, 3, 4, 8}}
        \cup {[kind |-> "total", rows |-> rs, bars |-> 3, score |-> <<0, 2, s>>] : rs \in SUBSET TotalRows, s \in {195, 205}}
PanelIdle == cached = One(CoinEvents) /\ built = Blank

(***************************************************************************)
(* Cache: of two events one trains and one is held out.                    *)
(***************************************************************************)
HalfOf(n) == n \div 2
NoneOf(n) == 0
CacheIdle ==
    /\ family = "weather" /\ venue = [c \in Contract |-> 2] /\ finished = 1 /\ file = [e \in Event |-> Absent]
    /\ builder = [w \in Worker |-> IdleWorker] /\ refetch = IdleWorker /\ lockedSplits = NotLocked
    /\ reading = IdleReading /\ cacheFaults = 0 /\ readings = 0 /\ rows = {} /\ stamp = 0
    /\ memo = [stamp |-> 0, rows |-> {}] /\ joined = [stored |-> {}, values |-> [t \in Moment |-> "none"]]

(***************************************************************************)
(* The composition.                                                        *)
(***************************************************************************)
Init ==
    /\ part \in {"trials", "replay", "paper", "lab", "gate", "strategies", "panels", "builds", "features", "lake"}
    /\ TrialInit /\ LakeInit
    /\ IF part = "replay" THEN ReplayInit ELSE ReplayIdle
    /\ IF part = "paper" THEN PaperInit ELSE PaperIdle
    /\ IF part = "lab" THEN LabInit ELSE LabIdle
    /\ IF part = "gate" THEN GateInit ELSE GateIdle
    /\ IF part = "strategies" THEN StrategyInit ELSE StrategyIdle
    /\ IF part = "panels" THEN PanelInit ELSE PanelIdle
    /\ IF part = "builds" THEN CacheInit ELSE CacheIdle

TrialsStep ==
    /\ part = "trials" /\ TrialNext
    /\ UNCHANGED <<part, replayVars, paperVars, labVars, gateVars, strategyVars, panelVars, buildVars, featureVars, lakeVars>>
ReplayStep ==
    /\ part = "replay" /\ ReplayNext
    /\ UNCHANGED <<part, trialVars, paperVars, labVars, gateVars, strategyVars, panelVars, buildVars, featureVars, lakeVars>>
PaperStep ==
    /\ part = "paper" /\ PaperNext
    /\ UNCHANGED <<part, trialVars, replayVars, labVars, gateVars, strategyVars, panelVars, buildVars, featureVars, lakeVars>>
LabStep ==
    /\ part = "lab" /\ LabNext
    /\ UNCHANGED <<part, trialVars, replayVars, paperVars, gateVars, strategyVars, panelVars, buildVars, featureVars, lakeVars>>
GateStep ==
    /\ part = "gate" /\ GateNext
    /\ UNCHANGED <<part, trialVars, replayVars, paperVars, labVars, strategyVars, panelVars, buildVars, featureVars, lakeVars>>
StrategiesStep ==
    /\ part = "strategies" /\ StrategyNext
    /\ UNCHANGED <<part, trialVars, replayVars, paperVars, labVars, gateVars, panelVars, buildVars, featureVars, lakeVars>>
PanelsStep ==
    /\ part = "panels" /\ PanelNext
    /\ UNCHANGED <<part, trialVars, replayVars, paperVars, labVars, gateVars, strategyVars, buildVars, featureVars, lakeVars>>
BuildsStep ==
    /\ part = "builds" /\ CacheStep
    /\ UNCHANGED <<part, trialVars, replayVars, paperVars, labVars, gateVars, strategyVars, panelVars, featureVars, lakeVars>>
FieldsStep ==
    /\ part = "features" /\ FeatureStep
    /\ UNCHANGED <<part, trialVars, replayVars, paperVars, labVars, gateVars, strategyVars, panelVars, buildVars, lakeVars>>
LakeStep ==
    /\ part = "lake" /\ LakeNext
    /\ UNCHANGED <<part, trialVars, replayVars, paperVars, labVars, gateVars, strategyVars, panelVars, buildVars, featureVars>>
Next ==
    \/ TrialsStep \/ ReplayStep \/ PaperStep \/ LabStep \/ GateStep
    \/ StrategiesStep \/ PanelsStep \/ BuildsStep \/ FieldsStep \/ LakeStep

\* The heartbeat keeps ticking and the director keeps folding results back.
Spec ==
    /\ Init /\ [][Next]_researchVars
    /\ WF_labVars(part = "lab" /\ PassStep(Resident)) /\ WF_labVars(part = "lab" /\ Director)
=============================================================================
