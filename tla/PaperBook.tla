----------------------------- MODULE PaperBook -----------------------------
(***************************************************************************)
(* The forward paper book: one jsonl file of events, folded by id with the *)
(* last write winning.  Three passes work on it, each from cron or by      *)
(* hand: the scan opens a position (taker tenants) or rests an order       *)
(* (maker tenants) on a live signal, the mark pass fills or cancels        *)
(* resting orders from the candles printed since, the settle pass closes   *)
(* what has resolved.  A pass folds the file once, at its start, and then  *)
(* works through the events; passes of different kinds interleave, and any *)
(* of them may die, even in the middle of a line.                          *)
(*                                                                         *)
(* A signal is one position id with what will happen to it in the world:   *)
(* [kind, signal, gate, quote, rest, prints, resolves, win, markets].      *)
(* Times are minutes.                                                      *)
(***************************************************************************)
EXTENDS VenueFees, Sequences, FiniteSets

CONSTANTS
    Id,
    Worlds,        \* what may happen: functions from Id to such records
    Recent,        \* recent_min
    Horizon,       \* horizon_min of the maker tenants
    Latency,       \* ENTRY_LATENCY_MIN
    MaxTime,       \* bound on the clock
    MaxFaults      \* bound on fetches that fail and passes that die

ASSUME PaperAssumption ==
    /\ Horizon \in Nat /\ Latency \in Nat /\ MaxFaults \in Nat
    /\ \A w \in Worlds, i \in Id : w[i].signal \in Nat /\ w[i].prints \subseteq Nat

VARIABLES
    world, now,
    log,      \* the rows of the file that parse
    torn,     \* the file ends in half a line
    pass,     \* of each pass: the ids to go, and the fold it started from
    faults

paperVars == <<world, now, log, torn, pass, faults>>

Pass == {"scan", "mark", "settle"}
Resting == "resting"

(***************************************************************************)
(* The file.                                                               *)
(***************************************************************************)
RowsFor(i) == {n \in DOMAIN log : log[n].id = i}

\* positions: the rows of an id folded, the last write of a field winning; none if it has none.
LastWith(i, field) == Max({n \in RowsFor(i) : field \in DOMAIN log[n]})
Positions ==
    [i \in {log[n].id : n \in DOMAIN log} |->
        [field \in UNION {DOMAIN log[n] : n \in RowsFor(i)} |-> log[LastWith(i, field)][field]]]

\* _append: a row written behind half a line is read as one broken line with it.
AppendRow(row) == log' = (IF torn THEN log ELSE Append(log, row)) /\ torn' = FALSE

(***************************************************************************)
(* The fills.                                                              *)
(***************************************************************************)
\* FillModel.fill for a taker: the mid clipped, the side's price, half a spread and the fee.
TakerFill(mid, short, half) ==
    LET p == Min({Max({mid, Cent}), Dollar - Cent})
        fillMid == IF short THEN Dollar - p ELSE p
        allIn == Min({fillMid + half, Dollar - Cent \div 10})
    IN [fill_mid |-> fillMid, fee |-> KalshiTakerFee(allIn, 1), all_in |-> allIn + KalshiTakerFee(allIn, 1)]

\* The scanner of the btc_9599 pilot: over the markets of an event, each
\* [bid, ask, mts, volume, orient, strike] with prices in cents.
Btc9599 == [spread |-> 1, mts |-> 31..60, band |-> 95..99, volume |-> 100]
Legs(m) ==
    {l \in {[price |-> m.ask, over |-> m.orient > 0], [price |-> 100 - m.bid, over |-> m.orient <= 0]} : l.price \in Btc9599.band}
BtcCandidates(markets) ==
    UNION {{[over |-> l.over, price |-> l.price * Cent, volume |-> m.volume, strike |-> m.strike,
             all_in |-> l.price * Cent + KalshiTakerFee(l.price * Cent, 1)] :
               l \in {l \in Legs(m) : 2 * KalshiTakerFee(l.price * Cent, 1) + l.price * Cent < Dollar + Cent}} :
           m \in {m \in markets : m.ask - m.bid = Btc9599.spread /\ m.mts \in Btc9599.mts /\ m.volume >= Btc9599.volume}}
\* The best candidate of each side: most volume, then cheapest, then lowest strike.
Better(c, d) ==
    \/ c.volume > d.volume
    \/ c.volume = d.volume /\ c.price < d.price
    \/ c.volume = d.volume /\ c.price = d.price /\ c.strike <= d.strike
BtcScan(markets) ==
    {c \in BtcCandidates(markets) : \A d \in BtcCandidates(markets) : d.over = c.over => Better(c, d)}

EntryTs(i) == world[i].signal + Latency

\* _detect_fill on a fresh maker book, which has a bar for every minute up to now:
\* the minutes within the horizon where a trade printed at or through the resting
\* price.  The search begins at the first bar not before the entry and, while
\* there is none, at the last bar there is.
DetectFill(i, pos) ==
    {t \in world[i].prints : t >= Min({pos.entry_ts, now}) /\ t <= pos.horizon_end_ts /\ t <= now}

(***************************************************************************)
(* The passes.                                                             *)
(***************************************************************************)
IdlePass == [todo |-> {}, seen |-> <<>>]

PaperInit ==
    /\ world \in Worlds /\ now = 0
    /\ log = <<>> /\ torn = FALSE /\ faults = 0
    /\ pass = [p \in Pass |-> IdlePass]

\* A bug the scan could have: only a working order counts as a position.
InHeld_WorkingOnly(i, seen) == i \in DOMAIN seen /\ seen[i].status = Resting

\* `pid in held`: whatever became of it.
InHeld(i, seen) == i \in DOMAIN seen

\* The fold a pass starts with, and what it will look at.
StartPass(p) ==
    /\ pass[p].todo = {}
    /\ LET pos == Positions
           todo == CASE p = "scan" -> {i \in Id : ~InHeld(i, pos)}
                     [] p = "mark" -> {i \in DOMAIN pos : pos[i].status = Resting}
                     [] p = "settle" -> {i \in DOMAIN pos : pos[i].status \in {"open", "filled"}}
       IN todo # {} /\ pass' = [pass EXCEPT ![p] = [todo |-> todo, seen |-> [i \in todo \cap DOMAIN pos |-> pos[i]]]]
    /\ UNCHANGED <<world, now, log, torn, faults>>

Handled(p, i) ==
    LET left == pass[p].todo \ {i}
    IN pass' = [pass EXCEPT ![p] = IF left = {} THEN IdlePass ELSE [todo |-> left, seen |-> pass[p].seen]]

\* What a fetch gives: the record; nothing; or a record with a leg's candles missing.
Fetches(answer) == IF answer = "ok" THEN UNCHANGED faults ELSE faults < MaxFaults /\ faults' = faults + 1

Leave == UNCHANGED <<log, torn>>

\* A signal is taken while it is fresh, and only where its gate is open.
Fresh(i) ==
    /\ world[i].signal # 0 /\ now >= world[i].signal
    /\ now - world[i].signal <= Recent
    /\ world[i].gate

\* scan_and_open and _scan_and_take, for one id
OpenRow(i, all) == [id |-> i, kind |-> "open", status |-> "open", all_in |-> all]
ScanAndOpen(i, answer) ==
    IF answer # "ok" \/ ~Fresh(i) THEN Leave
    ELSE IF world[i].kind = "taker" THEN AppendRow(OpenRow(i, TakerFill(world[i].rest, ~world[i].over, 1500).all_in))
    ELSE LET best == {c \in BtcScan(world[i].markets) : c.over = world[i].over}
         IN IF best = {} THEN Leave ELSE AppendRow(OpenRow(i, (CHOOSE c \in best : TRUE).all_in))

\* scan_and_rest, for one id: the order joins the best quote, if there is one.
RestRow(i) ==
    [id |-> i, kind |-> "rest", status |-> Resting, rest_price |-> world[i].rest,
     entry_ts |-> EntryTs(i), horizon_end_ts |-> EntryTs(i) + Horizon]
ScanAndRest(i, answer) ==
    IF answer # "ok" \/ ~Fresh(i) \/ ~world[i].quote THEN Leave ELSE AppendRow(RestRow(i))

Scan(i) ==
    /\ i \in pass["scan"].todo /\ Handled("scan", i)
    /\ \E answer \in {"ok", "none"} :
         /\ Fetches(answer)
         /\ IF world[i].kind = "maker" THEN ScanAndRest(i, answer) ELSE ScanAndOpen(i, answer)
    /\ UNCHANGED <<world, now>>

\* A bug mark_book could have: the horizon is looked at before the candles.
MarkBook_CancelFirst(i, pos, answer) ==
    IF now > pos.horizon_end_ts THEN AppendRow([id |-> i, kind |-> "cancel", status |-> "cancelled", reason |-> "horizon_expired_unfilled"])
    ELSE IF answer = "ok" /\ DetectFill(i, pos) # {}
    THEN AppendRow([id |-> i, kind |-> "fill", status |-> "filled", filled_ts |-> Min(DetectFill(i, pos)), all_in |-> pos.rest_price])
    ELSE Leave

\* mark_book, for one id
MarkBook(i, pos, answer) ==
    IF answer = "ok" /\ DetectFill(i, pos) # {}
    THEN AppendRow([id |-> i, kind |-> "fill", status |-> "filled", filled_ts |-> Min(DetectFill(i, pos)), all_in |-> pos.rest_price])
    ELSE IF now > pos.horizon_end_ts
    THEN AppendRow([id |-> i, kind |-> "cancel", status |-> "cancelled",
                    reason |-> IF answer = "none" THEN "book_unavailable" ELSE "horizon_expired_unfilled"])
    ELSE Leave

Mark(i) ==
    /\ i \in pass["mark"].todo /\ Handled("mark", i)
    /\ \E answer \in {"ok", "none", "partial"} : Fetches(answer) /\ MarkBook(i, pass["mark"].seen[i], answer)
    /\ UNCHANGED <<world, now>>

\* settle_book, for one id: nothing until the event has resolved.
SettleBook(i, pos, answer) ==
    IF answer # "ok" \/ now < world[i].resolves THEN Leave
    ELSE LET payoff == IF world[i].win THEN Dollar ELSE 0
         IN AppendRow([id |-> i, kind |-> "settle", status |-> "settled", payoff |-> payoff, pnl |-> payoff - pos.all_in])

Settle(i) ==
    /\ i \in pass["settle"].todo /\ Handled("settle", i)
    /\ \E answer \in {"ok", "none"} : Fetches(answer) /\ SettleBook(i, pass["settle"].seen[i], answer)
    /\ UNCHANGED <<world, now>>

\* A pass dies, perhaps with half a line written.
DiePass(p) ==
    /\ pass[p].todo # {} /\ faults < MaxFaults /\ faults' = faults + 1
    /\ pass' = [pass EXCEPT ![p] = IdlePass]
    /\ torn' \in {torn, TRUE}
    /\ UNCHANGED <<world, now, log>>

Minute ==
    /\ now < MaxTime /\ now' = now + 1
    /\ UNCHANGED <<world, log, torn, pass, faults>>

PaperNext ==
    \/ \E p \in Pass : StartPass(p) \/ DiePass(p)
    \/ \E i \in Id : Scan(i) \/ Mark(i) \/ Settle(i)
    \/ Minute
PaperSpec == PaperInit /\ [][PaperNext]_paperVars

(***************************************************************************)
(* status: the maker counts of the summary.                                *)
(***************************************************************************)
Count(statuses) == {i \in DOMAIN Positions : "rest_price" \in DOMAIN Positions[i] /\ Positions[i].status \in statuses}
FilledSignals == Count({"filled", "settled"})
DecidedSignals == Count({"filled", "settled", "cancelled"})

(***************************************************************************)
(* Properties.                                                             *)
(***************************************************************************)
\* The rows of an id, in the order of the file, are the first chapters of the story.
Tells(i, story) ==
    /\ Cardinality(RowsFor(i)) <= Len(story)
    /\ \A n \in RowsFor(i) : log[n].status = story[Cardinality({m \in RowsFor(i) : m <= n})]

\* One story per signal: whatever passes overlapped, died or lost a line, the
\* rows of an id tell one position's life, and no chapter of it twice: it is
\* never rested or opened again, filled after a cancel, or settled twice.
OneStoryPerSignal ==
    \A i \in Id :
        \E story \in {<<"open", "settled">>, <<"resting", "filled", "settled">>, <<"resting", "cancelled">>} :
            Tells(i, story)

\* The forward fill rate is the true one: as long as every fetch was answered,
\* and leaving out signals whose price traded before the order's entry time, the
\* signals counted as filled are exactly those decided ones whose price traded
\* within the horizon, however late the mark pass came round to it.
FillRateIsTrue ==
    LET Decided(i) == i \in DecidedSignals /\ \A t \in world[i].prints : t >= EntryTs(i)
    IN faults = 0 =>
        \A i \in Id : Decided(i) => (i \in FilledSignals <=> \E t \in world[i].prints : t <= EntryTs(i) + Horizon)

=============================================================================
