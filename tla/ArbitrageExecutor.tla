-------------------------- MODULE ArbitrageExecutor --------------------------
(***************************************************************************)
(* Two-legged trades in live mode: ArbitrageExecutor (arbitrage_executor.py)*)
(* runs the pre-flight checks, places both legs through the execution      *)
(* engine, cancels what has not answered within the timeout, unwinds the   *)
(* imbalance the reports show, and halts all trading when it cannot.       *)
(*                                                                         *)
(* The market analyzer starts trades concurrently; each runs without       *)
(* suspending between two network waits.  Orders behave as OrderPlacement  *)
(* says, which ExecutionEngine implements.  Each trade has a Kalshi and a   *)
(* Polymarket leg and, if needed, an unwind of one of them.                *)
(***************************************************************************)
EXTENDS OrderPlacement, FiniteSets

CONSTANTS
    Opp,            \* the opportunities, each traded once
    Volume,         \* units per leg (_capped_volume: whole contracts)
    MaxConcurrent,  \* Config.LIVE_MAX_CONCURRENT_POSITIONS
    LossLimit,      \* Config.MAX_DAILY_LOSS_USD
    Nets            \* what a matched trade may net

Leg == {"kalshi", "polymarket"}
Unwind(l) == IF l = "kalshi" THEN "unwind_kalshi" ELSE "unwind_polymarket"
Role == Leg \cup {Unwind(l) : l \in Leg}

ASSUME ExecutorAssumption ==
    /\ Order = Opp \X Role
    /\ OnKalshi = Opp \X {"kalshi", "unwind_kalshi"}
    /\ Volume \in Units \ {0} /\ Volume % Contract = 0
    /\ IsFiniteSet(Opp)
    /\ MaxConcurrent \in Nat \ {0} /\ LossLimit \in Int /\ Nets \subseteq Int

VARIABLES
    pc,         \* pc[o]: where the trade is
    inFlight,   \* self._live_in_flight
    halted,     \* KillSwitch.is_active()
    loss,       \* self._daily_loss
    stale,      \* self._daily_reset_date is not today
    exposed,    \* exposed[o]: the residual exposure recorded for the trade
    \* History.
    stranded,   \* trades whose unwind failed since the operator last resumed
    lostToday,  \* what trades booked since midnight lost
    lostEarly   \* the part of it booked before the day's first pre-flight

tradeVars == <<pc, inFlight, halted, loss, stale, exposed, stranded, lostToday, lostEarly>>
vars == <<orderVars, tradeVars>>

TypeOK ==
    /\ OrderTypeOK
    /\ pc \in [Opp -> {"new", "balance", "legs", "hedging", "done"}]
    /\ inFlight \in 0..Cardinality(Opp)
    /\ halted \in BOOLEAN /\ stale \in BOOLEAN
    /\ loss \in Int /\ lostToday \in Int /\ lostEarly \in Int
    /\ exposed \in [Opp -> Int]
    /\ stranded \subseteq Opp

Init ==
    /\ OrderInit
    /\ pc = [o \in Opp |-> "new"]
    /\ inFlight = 0
    /\ halted = FALSE
    /\ loss = 0 /\ stale = TRUE
    /\ exposed = [o \in Opp |-> 0]
    /\ stranded = {} /\ lostToday = 0 /\ lostEarly = 0
-----------------------------------------------------------------------------
(***************************************************************************)
(* Pre-flight.                                                             *)
(***************************************************************************)
\* _maybe_reset_daily_loss.
LossNow == IF stale THEN 0 ELSE loss

ResetLoss == loss' = LossNow /\ stale' = FALSE

\* The profit, risk and allowlist gates depend on the opportunity alone and
\* may reject it at any point before the balance gate.
Rejected(o) ==
    /\ pc[o] = "new"
    /\ \/ halted /\ UNCHANGED <<loss, stale>>
       \/ ~halted /\ ResetLoss
    /\ pc' = [pc EXCEPT ![o] = "done"]
    /\ UNCHANGED <<orderVars, inFlight, halted, exposed, stranded, lostToday, lostEarly>>

\* All checks pass up to the balance gate, which awaits the venue.
Preflight(o) ==
    /\ pc[o] = "new"
    /\ ~halted
    /\ ResetLoss
    /\ LossNow < LossLimit
    /\ inFlight < MaxConcurrent
    /\ pc' = [pc EXCEPT ![o] = "balance"]
    /\ UNCHANGED <<orderVars, inFlight, halted, exposed, stranded, lostToday, lostEarly>>

\* The balance is short, or the legs cannot be built.
InsufficientBalance(o) ==
    /\ pc[o] = "balance"
    /\ pc' = [pc EXCEPT ![o] = "done"]
    /\ UNCHANGED <<orderVars, inFlight, halted, loss, stale, exposed, stranded, lostToday, lostEarly>>

\* The balance suffices or cannot be read: both legs become tasks.
Launch(o) ==
    /\ pc[o] = "balance"
    /\ pc' = [pc EXCEPT ![o] = "legs"]
    /\ inFlight' = inFlight + 1
    /\ UNCHANGED <<orderVars, halted, loss, stale, exposed, stranded, lostToday, lostEarly>>
-----------------------------------------------------------------------------
(***************************************************************************)
(* The orders.                                                             *)
(***************************************************************************)
\* A leg's task starts: execute() asks the kill switch first.
LegPosts(o, l) ==
    /\ pc[o] = "legs" /\ ~halted
    /\ Submit(<<o, l>>, Volume)
    /\ UNCHANGED tradeVars

\* The engine answers "halted", or fails without a POST.
LegRefused(o, l) ==
    /\ pc[o] = "legs"
    /\ Refuse(<<o, l>>)
    /\ UNCHANGED tradeVars

OrderFills(x, n) == Fill(x, n) /\ UNCHANGED tradeVars

OrderReports(x, n) == Report(x, n) /\ UNCHANGED tradeVars

\* The venue's breaker rejects the leg: nothing reported, kill switch tripped.
BreakerTrips(o, l) ==
    /\ pc[o] = "legs"
    /\ Refuse(<<o, l>>) \/ Report(<<o, l>>, 0)
    /\ halted' = TRUE
    /\ UNCHANGED <<pc, inFlight, loss, stale, exposed, stranded, lostToday, lostEarly>>
-----------------------------------------------------------------------------
(***************************************************************************)
(* When the legs are over: booking, unwinding, halting.                    *)
(***************************************************************************)
Told(o, l) == report[<<o, l>>]

Min(a, b) == IF a < b THEN a ELSE b
Abs(n) == IF n < 0 THEN -n ELSE n

\* What the reports say is unmatched, and the leg that has it.
Imbalance(o) == Told(o, "kalshi") - Told(o, "polymarket")
Qty(o) == Abs(Imbalance(o))
OverLeg(o) == IF Imbalance(o) > 0 THEN "kalshi" ELSE "polymarket"

UnwindSize(o) ==
    IF OverLeg(o) = "kalshi" THEN Qty(o) - (Qty(o) % Contract) ELSE Qty(o)

\* _build_result: only a matched trade moves the daily loss.
Book_WrongSign(o) ==
    IF Min(Told(o, "kalshi"), Told(o, "polymarket")) > 0
    THEN \E net \in Nets :
            /\ loss' = loss + net
            /\ lostToday' = lostToday - net
            /\ lostEarly' = IF stale THEN lostEarly - net ELSE lostEarly
    ELSE UNCHANGED <<loss, lostToday, lostEarly>>

Book(o) ==
    IF Min(Told(o, "kalshi"), Told(o, "polymarket")) > 0
    THEN \E net \in Nets :
            /\ loss' = loss - net
            /\ lostToday' = lostToday - net
            /\ lostEarly' = IF stale THEN lostEarly - net ELSE lostEarly
    ELSE UNCHANGED <<loss, lostToday, lostEarly>>

\* Less than a contract cannot be unwound: it is recorded as dust.
NeedsHedge(o) == Qty(o) >= Contract

AfterLegs_LeaksSlot(o) ==
    /\ inFlight' = IF \A l \in Leg : phase[<<o, l>>] = "reported" THEN inFlight - 1 ELSE inFlight
    /\ \/ /\ NeedsHedge(o)
          /\ pc' = [pc EXCEPT ![o] = "hedging"]
          /\ UNCHANGED <<loss, lostToday, lostEarly, exposed>>
       \/ /\ ~NeedsHedge(o)
          /\ pc' = [pc EXCEPT ![o] = "done"]
          /\ exposed' = [exposed EXCEPT ![o] = Qty(o)]
          /\ Book(o)
    /\ UNCHANGED <<halted, stale, stranded>>

AfterLegs(o) ==
    /\ inFlight' = inFlight - 1
    /\ \/ /\ NeedsHedge(o)
          /\ pc' = [pc EXCEPT ![o] = "hedging"]
          /\ UNCHANGED <<loss, lostToday, lostEarly, exposed>>
       \/ /\ ~NeedsHedge(o)
          /\ pc' = [pc EXCEPT ![o] = "done"]
          /\ exposed' = [exposed EXCEPT ![o] = Qty(o)]
          /\ Book(o)
    /\ UNCHANGED <<halted, stale, stranded>>

Answered(o, l) == phase[<<o, l>>] = "reported"

LegsDone(o) ==
    /\ pc[o] = "legs"
    /\ \A l \in Leg : Answered(o, l)
    /\ AfterLegs(o)
    /\ UNCHANGED orderVars

\* asyncio.wait times out: the legs that have not answered are cancelled and
\* counted as zero fills.
CancelPending(o) ==
    /\ phase' = [x \in Order |->
                    IF x[1] = o /\ x[2] \in Leg /\ phase[x] # "reported"
                    THEN "abandoned" ELSE phase[x]]
    /\ UNCHANGED <<size, filled, report>>

TimedOut(o) == \E l \in Leg : ~Answered(o, l)

Timeout(o) ==
    /\ pc[o] = "legs"
    /\ TimedOut(o)
    /\ AfterLegs(o)
    /\ CancelPending(o)

\* The unwind is risk-reducing: no halt stops it.  The live lock may.
UnwindOrder(o) == <<o, Unwind(OverLeg(o))>>

UnwindPosts(o) ==
    /\ pc[o] = "hedging"
    /\ Submit(UnwindOrder(o), UnwindSize(o))
    /\ UNCHANGED tradeVars

UnwindRefused(o) ==
    /\ pc[o] = "hedging"
    /\ Refuse(UnwindOrder(o))
    /\ UNCHANGED tradeVars

Residual(o) == Qty(o) - report[UnwindOrder(o)]

\* The unwind's outcome: a residual above 1% of the imbalance is recorded and
\* trips the kill switch.
Unwound_NoTrip(o) ==
    IF Residual(o) * 100 > Qty(o)
    THEN /\ exposed' = [exposed EXCEPT ![o] = Residual(o)]
         /\ stranded' = stranded \cup {o}
         /\ UNCHANGED halted
    ELSE UNCHANGED <<halted, exposed, stranded>>

Unwound_HalfWay(o) ==
    IF Residual(o) * 2 > Qty(o)
    THEN /\ halted' = TRUE
         /\ exposed' = [exposed EXCEPT ![o] = Residual(o)]
         /\ stranded' = stranded \cup {o}
    ELSE UNCHANGED <<halted, exposed, stranded>>

Unwound(o) ==
    IF Residual(o) * 100 > Qty(o)
    THEN /\ halted' = TRUE
         /\ exposed' = [exposed EXCEPT ![o] = Residual(o)]
         /\ stranded' = stranded \cup {o}
    ELSE UNCHANGED <<halted, exposed, stranded>>

HedgeDone(o) ==
    /\ pc[o] = "hedging"
    /\ phase[UnwindOrder(o)] = "reported"
    /\ Unwound(o)
    /\ Book(o)
    /\ pc' = [pc EXCEPT ![o] = "done"]
    /\ UNCHANGED <<orderVars, inFlight, stale>>
-----------------------------------------------------------------------------
OperatorHalts ==
    /\ ~halted
    /\ halted' = TRUE
    /\ UNCHANGED <<orderVars, pc, inFlight, loss, stale, exposed, stranded, lostToday, lostEarly>>

OperatorResumes ==
    /\ halted
    /\ halted' = FALSE
    /\ stranded' = {}
    /\ UNCHANGED <<orderVars, pc, inFlight, loss, stale, exposed, lostToday, lostEarly>>

Midnight ==
    /\ ~stale
    /\ stale' = TRUE /\ lostToday' = 0 /\ lostEarly' = 0
    /\ UNCHANGED <<orderVars, pc, inFlight, halted, loss, exposed, stranded>>

TradeStep(o) ==
    \/ Rejected(o) \/ Preflight(o) \/ InsufficientBalance(o) \/ Launch(o)
    \/ LegsDone(o) \/ Timeout(o)
    \/ UnwindPosts(o) \/ UnwindRefused(o) \/ HedgeDone(o)

LegStep(o, l) == LegPosts(o, l) \/ LegRefused(o, l) \/ BreakerTrips(o, l)

Next ==
    \/ \E o \in Opp : TradeStep(o) \/ \E l \in Leg : LegStep(o, l)
    \/ \E x \in Order, n \in Units : OrderFills(x, n) \/ OrderReports(x, n)
    \/ OperatorHalts \/ OperatorResumes \/ Midnight

Spec == Init /\ [][Next]_vars

-----------------------------------------------------------------------------
(***************************************************************************)
(* Properties                                                              *)
(***************************************************************************)

\* What the venues really hold unmatched for the trade, unwinds included.
Exposure(o) ==
    (filled[<<o, "kalshi">>] - filled[<<o, "unwind_kalshi">>])
      - (filled[<<o, "polymarket">>] - filled[<<o, "unwind_polymarket">>])

\* The report of the order was exact, and still is.
Exact(x) == report[x] = filled[x]

\* When a trade is over and its orders reported what they filled, what is
\* left unmatched is on record, up to 1% of the imbalance, which the code
\* tolerates (_hedge, _record_residual_exposure).
ExposureKnown ==
    \A o \in Opp :
        pc[o] = "done" /\ (\A r \in Role : Exact(<<o, r>>))
            => \/ Abs(Exposure(o)) = exposed[o]
               \/ exposed[o] = 0 /\ Abs(Exposure(o)) * 100 <= Qty(o)

\* The unwind moves the trade towards flat and never through it, even before
\* its outcome is known (_build_unwind_request: opposite side, same quantity).
UnwindOnlyReduces ==
    \A o \in Opp :
        pc[o] \in {"hedging", "done"} /\ (\A l \in Leg : Exact(<<o, l>>))
            => /\ Imbalance(o) >= 0 => Exposure(o) \in 0..Imbalance(o)
               /\ Imbalance(o) <= 0 => -Exposure(o) \in 0..(-Imbalance(o))

\* From the moment an unwind fails until the operator resumes, no trade posts
\* a leg, not even one whose pre-flight checks passed before ("an un-hedged
\* position must stop all further trading", _hedge).
StrandedStopsTrading ==
    [][\A o \in Opp, l \in Leg :
          phase[<<o, l>>] = "idle" /\ phase'[<<o, l>>] = "working" => stranded = {}]_vars

\* The in-flight counter is the number of trades with legs out: no path out
\* of the legs, timeouts included, leaks or double-releases a slot
\* (_run_arbitrage's try/finally).
InFlightExact == inFlight = Cardinality({o \in Opp : pc[o] = "legs"})

\* "Stop trading after this cumulative loss": no trade passes the checks on a
\* day whose booked trades have lost the limit, not counting what was booked
\* between midnight and the day's first check, which that check forgets
\* (_maybe_reset_daily_loss, _build_result).
LossLimitHolds ==
    [][\A o \in Opp :
          pc[o] = "new" /\ pc'[o] = "balance" => lostToday - lostEarly < LossLimit]_vars
-----------------------------------------------------------------------------
(***************************************************************************)
(* The inductive invariant behind UnwindOnlyReduces and ExposureKnown.     *)
(* The reports an unwind was sized from cannot change once it is sized,    *)
(* only the over-filled leg is ever unwound, and what is on record for an  *)
(* ended trade is what its unwind reported missing.                        *)
(***************************************************************************)
OrderInv(x) ==
    /\ filled[x] <= size[x]
    /\ phase[x] = "idle" => size[x] = 0 /\ report[x] = 0

LegsInv(o) ==
    \A l \in Leg :
        /\ pc[o] \in {"new", "balance"} => phase[<<o, l>>] = "idle"
        /\ pc[o] # "legs" => phase[<<o, l>>] # "working"

UnwindInv(o) ==
    /\ \A l \in Leg :
          phase[<<o, Unwind(l)>>] # "idle" => pc[o] \in {"hedging", "done"} /\ l = OverLeg(o)
    /\ size[UnwindOrder(o)] <= Qty(o)

RecordInv(o) ==
    /\ pc[o] # "done" => exposed[o] = 0
    /\ pc[o] = "done" =>
          /\ phase[UnwindOrder(o)] # "working"
          /\ exposed[o] = Residual(o) \/ (exposed[o] = 0 /\ Residual(o) * 100 <= Qty(o))

HedgeInv ==
    /\ \A x \in Order : OrderInv(x)
    /\ \A o \in Opp : LegsInv(o) /\ UnwindInv(o) /\ RecordInv(o)
=============================================================================
