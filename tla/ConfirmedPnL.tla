---------------------------- MODULE ConfirmedPnL ----------------------------
(***************************************************************************)
(* What the desk says it earned.  The trading process books every executed *)
(* arbitrage in its own tracker (confirmed_pnl.py, market_analyzer.py) and *)
(* appends it to the capture ledger (capture.py); the reconcile command    *)
(* (reconcile.py), a process of its own, rebuilds a tracker from the       *)
(* ledger, asks the venues for fees and resolutions and prints the totals. *)
(*                                                                         *)
(* Money is counted in units with Par of them to the dollar.  A receipt    *)
(* has one fill per leg at most, so a leg is the sum of its fills.         *)
(***************************************************************************)
EXTENDS Integers, Sequences, SequencesExt

CONSTANTS
    Exec,       \* executions, by id
    Deal,       \* what the executor may return for one
    Fee,        \* fees a venue may charge a leg
    Par,        \* what a pair of complementary contracts pays
    None        \* no deal, or no id


Leg == {"buy", "sell"}
Venue == {"kalshi", "polymarket"}
Mode == {"report", "fills", "settlement", "all"}

ASSUME PnLAssumption ==
    /\ Par \in Nat \ {0} /\ Fee \subseteq Nat
    /\ None \notin Deal \cup (Exec \X Leg) \cup {<<"shared">>}
    /\ {"torn", "garbage"} \cap Exec = {} /\ \A e \in Exec : <<e, "residual">> \notin Exec
    /\ \A d \in Deal :
        /\ d.strategy \in {"complementary", "same_outcome"}
        /\ d.source \in {"exchange", "paper"}
        /\ d.volume \in Nat                 \* 0: the result has a skipped_reason
        /\ d.price \in [Leg -> 0..Par] /\ d.fee \in [Leg -> Nat]
        /\ d.buyOn \in Venue
        /\ d.ids \in {"own", "none", "shared"}
        /\ d.residual \in BOOLEAN           \* an unwind failed on the way

VARIABLES
    deal,       \* deal[e]: the executor's result for e, or None
    booked,     \* executions whose receipt the trading process has handled
    mem,        \* the trading process's tracker
    ledger,     \* the capture file's lines: an execution, "torn" or "garbage"
    stage,      \* stage[v]: how far the market is at venue v
    outcome,    \* how both venues will resolve it
    rec,        \* the reconcile command's tracker
    run         \* where the command is and what its venue calls have said

pnlVars == <<deal, booked, mem, ledger, stage, outcome, rec, run>>
-----------------------------------------------------------------------------
(***************************************************************************)
(* The tracker.                                                            *)
(***************************************************************************)
EmptyTracker == [exec |-> <<>>, ids |-> {}]
Has(t, id) == id \in DOMAIN t.exec

NoFill == [size |-> 0, notional |-> 0, fee |-> 0]
AddFill(f, g) == [size |-> f.size + g.size, notional |-> f.notional + g.notional, fee |-> f.fee + g.fee]
FillOf(price, size, fee) == [size |-> size, notional |-> price * size, fee |-> fee]

NewExecution(strategy) ==
    [strategy |-> strategy, source |-> "exchange", fill |-> [l \in Leg |-> NoFill],
     confirmed |-> [l \in Leg |-> FALSE], settled |-> FALSE]

\* A known id only gets its metadata updated.
RegisterExecution(t, id, strategy) ==
    IF Has(t, id) THEN t
    ELSE [t EXCEPT !.exec = [x \in DOMAIN t.exec \cup {id} |-> IF x = id THEN NewExecution(strategy) ELSE t.exec[x]]]

MarkLegConfirmed(t, id, leg) == [t EXCEPT !.exec[id].confirmed[leg] = TRUE]

\* A fill without an id gets a fresh one; a fill whose id is known is refused.
RecordFill(t, id, leg, fid, fill, source, confirm) ==
    IF fill.size <= 0 \/ fid \in t.ids THEN t
    ELSE LET x == [t.exec[id] EXCEPT !.fill[leg] = AddFill(t.exec[id].fill[leg], fill), !.source = source]
             s == [t EXCEPT !.exec[id] = x, !.ids = t.ids \cup ({fid} \ {None})]
         IN  IF confirm THEN MarkLegConfirmed(s, id, leg) ELSE s

HasConfirmedLegs(x) == \A l \in Leg : x.confirmed[l]

MarkSettled(t, id, requireConfirmed) ==
    IF requireConfirmed /\ ~HasConfirmedLegs(t.exec[id]) THEN t
    ELSE [t EXCEPT !.exec[id].settled = TRUE]

\* mark_confirmed confirms both legs, whatever became of their fills.
RecordExecutionReceipt(t, id, strategy, source, fill, fid, confirm, settle) ==
    LET t1 == RegisterExecution(t, id, strategy)
        t2 == RecordFill(t1, id, "buy", fid["buy"], fill["buy"], source, confirm)
        t3 == RecordFill(t2, id, "sell", fid["sell"], fill["sell"], source, confirm)
        t4 == IF confirm THEN MarkLegConfirmed(MarkLegConfirmed(t3, id, "buy"), id, "sell")
              ELSE t3
    IN  IF settle THEN MarkSettled(t4, id, confirm) ELSE t4

Matched(x) == IF x.fill["buy"].size < x.fill["sell"].size
              THEN x.fill["buy"].size ELSE x.fill["sell"].size

\* The part of a leg's amount that its matched contracts carry.
Share(x, leg, amount) == (amount * Matched(x)) \div x.fill[leg].size

\* A complementary pair is two purchases that pay Par between them.
Gross(x) ==
    IF Matched(x) = 0 THEN 0
    ELSE LET cost == Share(x, "buy", x.fill["buy"].notional)
             other == Share(x, "sell", x.fill["sell"].notional)
         IN  IF x.strategy = "complementary" THEN Par * Matched(x) - cost - other
             ELSE other - cost

RealizedPnl(x) ==
    IF Matched(x) = 0 THEN 0
    ELSE Gross(x) - Share(x, "buy", x.fill["buy"].fee) - Share(x, "sell", x.fill["sell"].fee)

\* allow_simulated_confirmed is off.
IsCounted(x) == x.settled /\ HasConfirmedLegs(x) /\ x.source # "simulation"
IsLocked(x) == ~x.settled /\ HasConfirmedLegs(x) /\ x.source # "simulation"

Counted(t) == {id \in DOMAIN t.exec : IsCounted(t.exec[id])}
LockedIn(t) == {id \in DOMAIN t.exec : IsLocked(t.exec[id])}
Total(t, ids) ==
    FoldLeftDomain(LAMBDA sum, i : sum + RealizedPnl(t.exec[SetToSeq(ids)[i]]), 0, SetToSeq(ids))
Summarize(t) ==
    [settled |-> Counted(t), realized |-> Total(t, Counted(t)),
     locked |-> LockedIn(t), lockedIn |-> Total(t, LockedIn(t)),
     pending |-> {id \in DOMAIN t.exec : ~t.exec[id].settled}]
-----------------------------------------------------------------------------
(***************************************************************************)
(* The trading process.                                                    *)
(***************************************************************************)
LegVenue(d, leg) == IF leg = "buy" THEN d.buyOn ELSE CHOOSE v \in Venue : v # d.buyOn

\* The first fill id of each leg; a scan of recent Polymarket trades can name
\* a trade that an earlier execution already carries.
FillIds(e) ==
    [l \in Leg |->
        CASE deal[e].ids = "none" -> None
          [] deal[e].ids = "shared" /\ LegVenue(deal[e], l) = "polymarket" -> <<"shared">>
          [] OTHER -> <<e, l>>]

Fills(e) == [l \in Leg |-> FillOf(deal[e].price[l], deal[e].volume, deal[e].fee[l])]

Residual(e) == <<e, "residual">>

\* A leg whose unwind failed is on record as bought, with nothing sold.
RecordResidualExposure(t, e) ==
    RecordExecutionReceipt(t, Residual(e), "same_outcome", "exchange",
                           [buy |-> FillOf(1, 1, 0), sell |-> NoFill],
                           [l \in Leg |-> None], FALSE, FALSE)

\* One JSON line; a line cut short swallows the next one.
Append_(line) ==
    ledger' = IF ledger # <<>> /\ Last(ledger) = "torn"
              THEN Front(ledger) \o <<"garbage">>
              ELSE Append(ledger, line)

\* execute_arbitrage returns: the residual exposure and then the capture row
\* are recorded, skipped results too; a write that fails is only logged.
Captures(e) ==
    /\ deal[e] = None
    /\ \E d \in Deal :
        /\ deal' = [deal EXCEPT ![e] = d]
        /\ mem' = IF d.residual THEN RecordResidualExposure(mem, e) ELSE mem
    /\ Append_(e) \/ UNCHANGED ledger
    /\ UNCHANGED <<booked, stage, outcome, rec, run>>

BookReceipt_DropsStrategy(e) ==
    RecordExecutionReceipt(mem, e, "same_outcome", deal[e].source, Fills(e), FillIds(e),
                           TRUE, deal[e].source # "exchange")

\* An exchange fill is confirmed and awaits resolution; a paper fill settles.
BookReceipt(e) ==
    RecordExecutionReceipt(mem, e, deal[e].strategy, deal[e].source, Fills(e), FillIds(e),
                           TRUE, deal[e].source # "exchange")

\* The analyzer books the result unless it was skipped.
Books(e) ==
    /\ deal[e] # None /\ e \notin booked
    /\ booked' = booked \cup {e}
    /\ mem' = IF deal[e].volume = 0 THEN mem ELSE BookReceipt(e)
    /\ UNCHANGED <<deal, ledger, stage, outcome, rec, run>>

\* The process dies, perhaps in the middle of a row, and starts again with an
\* empty tracker; the trades it had not booked it never books.
Restarts ==
    /\ mem' = EmptyTracker
    /\ booked' = {e \in Exec : deal[e] # None}
    /\ \/ UNCHANGED <<deal, ledger>>
       \/ \E e \in Exec, d \in Deal :
            /\ deal[e] = None
            /\ deal' = [deal EXCEPT ![e] = d]
            /\ Append_("torn")
    /\ UNCHANGED <<stage, outcome, rec, run>>
-----------------------------------------------------------------------------
(***************************************************************************)
(* The reconcile command.                                                  *)
(***************************************************************************)
Receipt(line) ==
    /\ line \in Exec
    /\ deal[line].volume > 0
    /\ deal[line].source = "exchange"

RecordLine(t, e) ==
    RecordExecutionReceipt(t, e, deal[e].strategy, "exchange", Fills(e), FillIds(e), TRUE, FALSE)

Cur == Head(run.queue)
Fetches(mode) == mode \in {"fills", "all"}
Settles(mode) == mode \in {"settlement", "all"}

\* Where the loop of reconcile_all goes with the executions still to do.
GoTo(r, queue) ==
    [r EXCEPT !.queue = queue,
              !.pc = IF queue = <<>> THEN "done" ELSE IF Fetches(r.mode) THEN "buy" ELSE "kalshi"]

Idle == [pc |-> "idle", mode |-> "report", lines |-> <<>>, queue |-> <<>>, kalshi |-> FALSE,
         clean |-> TRUE, late |-> FALSE]

\* The ledger is read at once,
Loads(mode) ==
    /\ run.pc \in {"idle", "done"}
    /\ rec' = EmptyTracker
    /\ run' = [Idle EXCEPT !.pc = "load", !.mode = mode, !.lines = ledger]
    /\ UNCHANGED <<deal, booked, mem, ledger, stage, outcome>>

\* and replayed line by line into a fresh tracker, which keeps its executions in order.
TrackerFromCapture ==
    /\ run.pc = "load" /\ run.lines # <<>>
    /\ LET line == Head(run.lines)
       IN  /\ rec' = IF Receipt(line) THEN RecordLine(rec, line) ELSE rec
           /\ run' = [run EXCEPT !.lines = Tail(run.lines),
                                 !.queue = IF Receipt(line) /\ ~Has(rec, line) THEN Append(run.queue, line)
                                           ELSE run.queue]
    /\ UNCHANGED <<deal, booked, mem, ledger, stage, outcome>>

\* A report ends with the load, and so does a run without credentials.
Reconciles ==
    /\ run.pc = "load" /\ run.lines = <<>>
    /\ run' = GoTo([run EXCEPT !.late = \A v \in Venue : stage[v] = "resolved"],
                   IF run.mode = "report" THEN <<>> ELSE run.queue)
    /\ UNCHANGED <<deal, booked, mem, ledger, stage, outcome, rec>>

\* A fee from the venue replaces the booked one: the first of the fills it
\* lists, which is not the whole fee of an order filled in pieces, and on
\* Polymarket is that of another order when no trade names this one.
AppliesFill(leg, fee) == rec' = [rec EXCEPT !.exec[Cur].fill[leg].fee = fee]

AfterLeg(leg) ==
    IF leg = "buy" THEN [run EXCEPT !.pc = "sell"]
    ELSE IF Settles(run.mode) THEN [run EXCEPT !.pc = "kalshi"]
    ELSE GoTo(run, Tail(run.queue))

\* A leg without a fill has nothing to fetch; a failed fetch changes nothing.
FetchesFills(leg) ==
    /\ run.pc = leg
    /\ \/ rec.exec[Cur].fill[leg].size > 0 /\ \E fee \in Fee : AppliesFill(leg, fee)
       \/ UNCHANGED rec
    /\ run' = AfterLeg(leg)
    /\ UNCHANGED <<deal, booked, mem, ledger, stage, outcome>>

IsResolved_Closed(v) == stage[v] # "open"

\* Resolution proper: a market that is only closed does not count.
IsResolved(v) == stage[v] = "resolved"

ProbesKalshi ==
    /\ run.pc = "kalshi"
    /\ \E ok \in BOOLEAN :
        run' = [run EXCEPT !.pc = "polymarket", !.kalshi = ok /\ IsResolved("kalshi"),
                           !.clean = run.clean /\ ok]
    /\ UNCHANGED <<deal, booked, mem, ledger, stage, outcome, rec>>

ProbesPolymarket ==
    /\ run.pc = "polymarket"
    /\ \E ok \in BOOLEAN :
        /\ rec' = IF run.kalshi /\ ok /\ IsResolved("polymarket")
                  THEN MarkSettled(rec, Cur, TRUE) ELSE rec
        /\ run' = GoTo([run EXCEPT !.clean = run.clean /\ ok], Tail(run.queue))
    /\ UNCHANGED <<deal, booked, mem, ledger, stage, outcome>>
-----------------------------------------------------------------------------
(***************************************************************************)
(* The venues, and the specification.                                      *)
(***************************************************************************)
VenueMoves(v) ==
    /\ \/ stage[v] = "open" /\ stage' = [stage EXCEPT ![v] = "closed"]
       \/ stage[v] = "closed" /\ stage' = [stage EXCEPT ![v] = "resolved"]
    /\ UNCHANGED <<deal, booked, mem, ledger, outcome, rec, run>>

PnLInit ==
    /\ deal = [e \in Exec |-> None] /\ booked = {}
    /\ mem = EmptyTracker /\ ledger = <<>>
    /\ stage = [v \in Venue |-> "open"] /\ outcome \in {"yes", "no"}
    /\ rec = EmptyTracker /\ run = Idle

PnLNext ==
    \/ \E e \in Exec : Captures(e) \/ Books(e)
    \/ Restarts
    \/ \E mode \in Mode : Loads(mode)
    \/ TrackerFromCapture \/ Reconciles
    \/ \E l \in Leg : FetchesFills(l)
    \/ ProbesKalshi \/ ProbesPolymarket
    \/ \E v \in Venue : VenueMoves(v)

PnLSpec == PnLInit /\ [][PnLNext]_pnlVars
-----------------------------------------------------------------------------
(***************************************************************************)
(* Properties.                                                             *)
(***************************************************************************)

\* What the position of e pays at venue v: the buy leg is a YES contract, the
\* other leg a NO contract or, in a same-outcome pair, a YES contract sold.
Pays(e, leg) ==
    LET won == IF outcome = "yes" THEN Par ELSE 0
    IN  IF leg = "buy" THEN won
        ELSE IF deal[e].strategy = "complementary" THEN Par - won ELSE -won

\* Money in and out over the life of e, fees aside, per matched contract.
CashPerContract(e) ==
    LET paid(leg) == IF leg = "buy" \/ deal[e].strategy = "complementary"
                     THEN -deal[e].price[leg] ELSE deal[e].price[leg]
    IN  paid("buy") + paid("sell") + Pays(e, "buy") + Pays(e, "sell")

SharesId(e) == deal[e].ids = "shared"

\* What a tracker books for an execution is the cash the position makes,
\* however the market resolves (confirmed_pnl.py:91-103: a complementary
\* trade once booked +8.95 as -76.15).  Fill ids name one fill each.
BookedIsCash ==
    \A t \in {mem, rec} : \A e \in Exec :
        Has(t, e) /\ ~SharesId(e)
            => Gross(t.exec[e]) = deal[e].volume * CashPerContract(e)

\* A finished run realises nothing a venue has not resolved, leaves no receipt
\* out of its totals, and one that began after both resolutions, with every
\* probe answered, leaves nothing locked in (reconcile.py:126).
ReportIsExact ==
    LET sum == Summarize(rec)
    IN  /\ sum.settled # {} => \A v \in Venue : stage[v] = "resolved"
        /\ run.pc = "done" =>
            /\ sum.settled \cup sum.locked = DOMAIN rec.exec
            /\ Settles(run.mode) /\ run.late /\ run.clean => sum.locked = {}

=============================================================================
