---------------------------- MODULE EventPanels ----------------------------
(***************************************************************************)
(* From a cached event to the panel the lab trades: the weather family's   *)
(* bucket book, the crypto family's threshold ladder and the NBA spread    *)
(* book, each turned into P(outcome > boundary) per minute, the implied    *)
(* level where that curve crosses a half, and the settled outcome.         *)
(* Probabilities are percents.  Temperatures, prices and margins are       *)
(* doubled, so that the half steps between whole degrees are integers.     *)
(***************************************************************************)
EXTENDS Integers, Sequences, SequencesExt, FiniteSets, FiniteSetsExt

CONSTANTS
    Blank,          \* None or NaN
    Events,         \* the cached records
    MinBars         \* bars a panel needs; five in the code

VARIABLES
    cached,         \* the record under test
    built           \* its panel, or Blank
panelVars == <<cached, built>>

Some(x) == x # Blank
Far == 100000

(***************************************************************************)
(* Contracts.                                                              *)
(***************************************************************************)
\* weather._bucket_bounds: the open range a bucket pays on, and a level inside it.
BucketBounds_TailEdge(m) ==
    CASE ~Some(m.floor) /\ Some(m.cap) -> [lo |-> -Far, hi |-> 2 * m.cap - 1, rep |-> 2 * m.cap]
      [] Some(m.floor) /\ Some(m.cap) ->
            [lo |-> 2 * m.floor - 1, hi |-> 2 * m.cap + 1, rep |-> m.floor + m.cap]
      [] Some(m.floor) /\ ~Some(m.cap) -> [lo |-> 2 * m.floor + 1, hi |-> Far, rep |-> 2 * m.floor + 2]
      [] OTHER -> Blank
BucketBounds(m) ==
    CASE ~Some(m.floor) /\ Some(m.cap) -> [lo |-> -Far, hi |-> 2 * m.cap - 1, rep |-> 2 * m.cap - 2]
      [] Some(m.floor) /\ Some(m.cap) ->
            [lo |-> 2 * m.floor - 1, hi |-> 2 * m.cap + 1, rep |-> m.floor + m.cap]
      [] Some(m.floor) /\ ~Some(m.cap) -> [lo |-> 2 * m.floor + 1, hi |-> Far, rep |-> 2 * m.floor + 2]
      [] OTHER -> Blank

\* crypto._boundary: a threshold and which side of it YES pays; a bucket is no threshold.
Boundary(m) ==
    CASE Some(m.floor) /\ ~Some(m.cap) -> [at |-> 2 * m.floor, orient |-> 1]
      [] ~Some(m.floor) /\ Some(m.cap) -> [at |-> 2 * m.cap, orient |-> -1]
      [] OTHER -> Blank

\* What the venue pays on a contract when the outcome is the one recorded.
VenuePays(m, outcome) ==
    /\ Some(m.floor) /\ Some(m.cap) => outcome >= 2 * m.floor /\ outcome <= 2 * m.cap
    /\ Some(m.floor) /\ ~Some(m.cap) => outcome > 2 * m.floor
    /\ ~Some(m.floor) => outcome < 2 * m.cap

\* How the venues list and settle.  The buckets of a day do not overlap; a market on the price
\* staying below a level lies outside the levels it may pass; and some one price explains every
\* result, the recorded one if there is one (of an unrecorded one only its place among the
\* levels matters).
Degree == -1000..1000
Places(rec) == UNION {{2 * x - 1, 2 * x, 2 * x + 1} : x \in ({m.floor : m \in rec.markets} \cup {m.cap : m \in rec.markets}) \ {Blank}}
Listed(rec) ==
    CASE rec.kind = "temp" ->
            /\ IsFiniteSet(rec.markets)
            /\ \A m \in rec.markets : m.floor \in Degree \cup {Blank} /\ m.cap \in Degree \cup {Blank}
            /\ \A m \in rec.markets : Some(m.floor) /\ Some(m.cap) => m.floor <= m.cap
            /\ \A l, m \in rec.markets : l # m /\ Some(BucketBounds(l)) /\ Some(BucketBounds(m)) =>
                    BucketBounds(l).hi <= BucketBounds(m).lo \/ BucketBounds(m).hi <= BucketBounds(l).lo
      [] rec.kind = "coin_price" ->
            /\ IsFiniteSet(rec.markets) /\ rec.expiration \in Int \cup {Blank}
            /\ \A m \in rec.markets : m.floor \in Int \cup {Blank} /\ m.cap \in Int \cup {Blank}
            /\ LET rungs(orient) == {m \in rec.markets : Some(Boundary(m)) /\ Boundary(m).orient = orient}
               IN /\ \A m \in rungs(-1) : (\A l \in rungs(1) : m.cap <= l.floor) \/ (\A l \in rungs(1) : l.floor < m.cap)
                  /\ \E x \in (IF Some(rec.expiration) THEN {2 * rec.expiration} ELSE Places(rec)) :
                        \A m \in rungs(1) \cup rungs(-1) : m.result = IF VenuePays(m, x) THEN "yes" ELSE "no"
      [] rec.kind = "spread" ->
            /\ rec.bars \in Nat /\ \A i \in 1..rec.bars : rec.score[i] \in Int \cup {Blank}
            /\ \A r \in rec.rows : r.strike \in Int
      [] OTHER -> TRUE
ASSUME RecordAssumption == Blank \notin Int /\ \A rec \in Events : Listed(rec)

(***************************************************************************)
(* Quotes on the event's minute grid.                                      *)
(***************************************************************************)
Quoted(ms) == {m \in ms : m.candles # {}}
Grid(ms) == SetToSortSeq({c.ts : c \in UNION {m.candles : m \in ms}}, <)

\* build_panel's _series: the candle of the minute, else the last one before it.
Series(m, grid, i) ==
    LET known == {c \in m.candles : c.ts <= grid[i] /\ Some(c.mid)}
    IN IF known = {} THEN Blank
       ELSE (CHOOSE c \in known : \A d \in known : d.ts <= c.ts).mid

PercentClip(x) == Max({0, Min({x, 100})})
NanSum(ps) == MapThenSumSet(LAMBDA q : q.p, {q \in ps : Some(q.p)})
AnyKnown(ps) == \E q \in ps : Some(q.p)

\* The level where the curve crosses a half: np.interp(0.5) over the quotes by probability.
Crossing(points) ==
    LET ys == SetToSortSeq(points, LAMBDA q, r : q.y < r.y \/ (q.y = r.y /\ q.x > r.x))
        n == Len(ys)
        k == Max({j \in 1..n : ys[j].y <= 50})
    IN IF n < 2 THEN Blank
       ELSE IF ys[1].y >= 50 THEN ys[1].x
       ELSE IF ys[n].y <= 50 THEN ys[n].x
       ELSE ys[k].x + ((ys[k + 1].x - ys[k].x) * (50 - ys[k].y)) \div (ys[k + 1].y - ys[k].y)
Implied(ladder, i) == Crossing({[x |-> b, y |-> ladder[b][i]] : b \in {c \in DOMAIN ladder : Some(ladder[c][i])}})

\* The tests every family's build_panel ends with: two strikes, enough bars with a level.
NoPanel == [ladder |-> <<>>, mid |-> <<>>, final |-> Blank]
Panel(ladder, grid, final) ==
    LET mid == [i \in DOMAIN grid |-> Implied(ladder, i)]
    IN IF \/ Len(grid) < MinBars \/ Cardinality(DOMAIN ladder) < 2
          \/ Cardinality({i \in DOMAIN grid : Some(mid[i])}) < MinBars
       THEN NoPanel
       ELSE [ladder |-> ladder, mid |-> mid, final |-> final]
WithQuote(ladder, grid) ==
    [b \in {c \in DOMAIN ladder : \E i \in DOMAIN grid : Some(ladder[c][i])} |-> ladder[b]]

(***************************************************************************)
(* Weather: buckets summed on the side of the boundary with fewer legs.    *)
(***************************************************************************)
WeatherMarkets(rec) == {m \in Quoted(rec.markets) : Some(BucketBounds(m))}
CumulativeLadder(ms, grid) ==
    LET leg(k, i) == [k |-> k, p |-> Series(ms[k], grid, i)]
        lo(k) == BucketBounds(ms[k]).lo
        boundaries == {lo(k) : k \in 2..Len(ms)}
        above(b, i) == {leg(k, i) : k \in {j \in 1..Len(ms) : lo(j) >= b}}
        below(b, i) == {leg(k, i) : k \in {j \in 1..Len(ms) : lo(j) < b}}
        prob(b, i) == IF Cardinality(above(b, i)) <= Cardinality(below(b, i))
                      THEN IF AnyKnown(above(b, i)) THEN PercentClip(NanSum(above(b, i))) ELSE Blank
                      ELSE IF AnyKnown(below(b, i)) THEN PercentClip(100 - NanSum(below(b, i))) ELSE Blank
    IN [b \in boundaries |-> [i \in DOMAIN grid |-> prob(b, i)]]
SettledTemperature(ms) ==
    LET yes == {m \in ms : m.result = "yes"}
    IN IF Cardinality(yes) = 1 THEN BucketBounds(CHOOSE m \in yes : TRUE).rep ELSE Blank
WeatherPanel(rec) ==
    LET ms == SetToSortSeq(WeatherMarkets(rec), LAMBDA l, m : BucketBounds(l).lo < BucketBounds(m).lo)
        grid == Grid(WeatherMarkets(rec))
    IN IF Len(ms) < 2 THEN NoPanel
       ELSE Panel(WithQuote(CumulativeLadder(ms, grid), grid), grid, SettledTemperature(WeatherMarkets(rec)))

(***************************************************************************)
(* Crypto: one rung per threshold, turned to P(price > boundary).          *)
(***************************************************************************)
CryptoMarkets(rec) == {m \in Quoted(rec.markets) : Some(Boundary(m))}
\* Two markets on one boundary: the later of the sorted list wins; the quote is the same rung.
ThresholdLadder(ms, grid) ==
    LET rung(b) == CHOOSE m \in ms : Boundary(m).at = b
        prob(b, i) == LET q == Series(rung(b), grid, i) IN
            IF ~Some(q) THEN Blank ELSE PercentClip(IF Boundary(rung(b)).orient > 0 THEN q ELSE 100 - q)
    IN [b \in {Boundary(m).at : m \in ms} |-> [i \in DOMAIN grid |-> prob(b, i)]]
\* The venue's expiration value, else the middle of the bracket the results leave.
SettledPrice(rec, ms) ==
    LET at(result) == {Boundary(m).at : m \in {n \in ms : Boundary(n).orient > 0 /\ n.result = result}}
    IN IF Some(rec.expiration) THEN 2 * rec.expiration
       ELSE IF at("yes") # {} /\ at("no") # {} /\ Max(at("yes")) < Min(at("no"))
            THEN (Max(at("yes")) + Min(at("no"))) \div 2
       ELSE Blank
CryptoPanel(rec) ==
    LET ms == CryptoMarkets(rec)
        grid == Grid(ms)
    IN IF Cardinality(ms) < 2 THEN NoPanel
       ELSE Panel(WithQuote(ThresholdLadder(ms, grid), grid), grid, SettledPrice(rec, ms))

(***************************************************************************)
(* NBA spread: both venues' handicaps turned to P(home margin > strike).   *)
(***************************************************************************)
KalshiTeam(row) == row.team
\* The strike and the probability from the home side; Blank for a team of neither side.
HomeRung(row) ==
    CASE row.venue = "kalshi" /\ KalshiTeam(row) = "home" -> [at |-> 2 * row.strike, p |-> row.prob]
      [] row.venue = "kalshi" /\ KalshiTeam(row) = "away" -> [at |-> -2 * row.strike, p |-> 100 - row.prob]
      [] row.venue = "polymarket" -> [at |-> -2 * row.strike, p |-> row.prob]
      [] OTHER -> Blank
\* _spread_ladder: the venues' mean per minute and strike, carried forward.
SpreadLadder(rec) ==
    LET rows == {r \in rec.rows : Some(HomeRung(r))}
        at(b, t) == {r \in rows : HomeRung(r).at = b /\ r.ts = t}
        mean(rs) == MapThenSumSet(LAMBDA r : HomeRung(r).p, rs) \div Cardinality(rs)
        seen(b, i) == {t \in 1..i : at(b, t) # {}}
    IN [b \in {HomeRung(r).at : r \in rows} |->
            [i \in 1..rec.bars |-> IF seen(b, i) = {} THEN Blank ELSE mean(at(b, Max(seen(b, i))))]]
\* _total_ladder: the same pivot without the orientation.
TotalLadder(rec) ==
    LET at(b, t) == {r \in rec.rows : 2 * r.strike = b /\ r.ts = t}
        mean(rs) == MapThenSumSet(LAMBDA r : r.prob, rs) \div Cardinality(rs)
        seen(b, i) == {t \in 1..i : at(b, t) # {}}
    IN [b \in {2 * r.strike : r \in rec.rows} |->
            [i \in 1..rec.bars |-> IF seen(b, i) = {} THEN Blank ELSE mean(at(b, Max(seen(b, i))))]]
\* _nba_load_panel: the outcome is the last score of the frame.
NbaPanel(rec) ==
    LET grid == [i \in 1..rec.bars |-> i]
        ladder == IF rec.kind = "spread" THEN SpreadLadder(rec) ELSE TotalLadder(rec)
        scores == {i \in 1..rec.bars : Some(rec.score[i])}
    IN Panel(ladder, grid, IF scores = {} THEN Blank ELSE 2 * rec.score[Max(scores)])

BuildPanel(rec) ==
    CASE rec.kind = "temp" -> WeatherPanel(rec)
      [] rec.kind = "coin_price" -> CryptoPanel(rec)
      [] rec.kind \in {"spread", "total"} -> NbaPanel(rec)

PanelInit == cached \in Events /\ built = Blank
LoadPanel == built = Blank /\ built' = BuildPanel(cached) /\ UNCHANGED cached
PanelNext == LoadPanel
PanelSpec == PanelInit /\ [][PanelNext]_panelVars

(***************************************************************************)
(* Properties.                                                             *)
(***************************************************************************)
\* The lab settles every rung of a panel (outcome strictly above the boundary) the way the
\* venue settled the contracts it was built from: the outcome read off the results pays
\* exactly the markets the venue paid, and an away or Polymarket spread is oriented so that
\* it pays when the home rung does not, ties on the line aside.
SettlesAsTheVenue ==
    built \notin {Blank, NoPanel} /\ Some(built.final) =>
        /\ cached.kind = "temp" => \A m \in Quoted(cached.markets) :
            Some(BucketBounds(m)) =>
                (m.result = "yes") = (VenuePays(m, built.final)
                    /\ built.final > BucketBounds(m).lo /\ built.final < BucketBounds(m).hi)
        /\ cached.kind = "coin_price" => \A m \in CryptoMarkets(cached) :
            /\ (m.result = "yes") = VenuePays(m, built.final)
            /\ built.final # Boundary(m).at =>
                (built.final > Boundary(m).at) = ((m.result = "yes") = (Boundary(m).orient > 0))
        /\ cached.kind = "spread" => \A r \in cached.rows :
            LET backed == IF r.venue = "kalshi" /\ r.team = "away" THEN -built.final ELSE built.final
                line == IF r.venue = "polymarket" THEN -2 * r.strike ELSE 2 * r.strike
            IN Some(HomeRung(r)) /\ backed # line =>
                (built.final > HomeRung(r).at) = ((backed > line) = (r.venue = "polymarket" \/ r.team = "home"))
=============================================================================
