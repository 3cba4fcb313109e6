--------------------------- MODULE ExecutionEngine ---------------------------
(***************************************************************************)
(* Placing single orders: ExecutionEngine.execute (execution/              *)
(* single_leg.py), the two venue gateways (execution/venue_gateway.py) and *)
(* the raw order clients below them (kalshi_executor.py,                   *)
(* polymarket_executor.py), against venues that may answer late, refuse,   *)
(* fill partly, or never be heard from again.                              *)
(*                                                                         *)
(* One asyncio task per request.  The engine, the breaker and the gateway  *)
(* run without suspending from the start of an attempt to the first        *)
(* network call, so that stretch is one action; every await is a place     *)
(* where other tasks, the operator and the venues act.                     *)
(***************************************************************************)
EXTENDS Breaker, FiniteSets

CONSTANTS
    Req,         \* order requests, each executed once
    Kalshi,      \* the requests addressed to Kalshi; the others go to Polymarket
    Opening,     \* the requests that open risk; the others are risk_reducing
    Token,       \* Polymarket tokens
    TokenOf,     \* TokenOf[r]: the token and side r trades (Polymarket)
    Size,        \* contracts per request
    PMFill,      \* what a marketable Polymarket order may fill (FOK: 0 or Size)
    MaxRetries   \* Config.EXECUTION_MAX_RETRIES

ASSUME EngineAssumption ==
    /\ Kalshi \subseteq Req /\ Opening \subseteq Req
    /\ TokenOf \in [Req -> Token]
    /\ Size \in Nat \ {0}
    /\ PMFill \subseteq 0..Size
    /\ MaxRetries \in Nat

VARIABLES
    \* The engine's task for each request.
    pc,         \* pc[r]: where the task is
    attempt,    \* attempt[r]: the loop variable of execute
    status,     \* status[r], report[r]: the OrderOutcome's status and filled_size
    report,
    warned,     \* warned[r]: the kill switch was active when the attempt began
    \* Shared by all tasks.
    breaker,    \* breaker[v]: the venue's circuit breaker
    halted,     \* KillSwitch.is_active()
    armed,      \* LiveTradingLock.is_armed()
    \* The network and the venues.
    net,        \* net[r]: attempts whose POST is on its way to the venue
    posted,     \* posted[r]: some attempt of r was POSTed (history)
    reply,      \* reply[r]: the venue's answer to the POST the task awaits
    order,      \* order[r]: the Kalshi order with r's client_order_id
    filled,     \* filled[r]: contracts the venue really filled for r
    traded      \* traded[t]: recent fills on t, as get_trades lists them

taskVars == <<pc, attempt, status, report, warned>>
netVars == <<net, posted>>
venueVars == <<order, filled, traded>>
vars == <<taskVars, breaker, halted, armed, netVars, reply, venueVars>>

Venue == {"kalshi", "polymarket"}
VenueOf(r) == IF r \in Kalshi THEN "kalshi" ELSE "polymarket"

Status == {"none", "filled", "partial", "failed", "halted"}
Active == {"placing", "sent", "polling", "scanning", "backoff"}

Reply == [kind : {"none", "ok", "rejected", "no_id"}, fill : 0..Size]
NoReply == [kind |-> "none", fill |-> 0]

TypeOK ==
    /\ pc \in [Req -> {"new", "done", "cancelled"} \cup Active]
    /\ attempt \in [Req -> 0..MaxRetries]
    /\ status \in [Req -> Status]
    /\ report \in [Req -> Nat]
    /\ warned \in [Req -> BOOLEAN]
    /\ breaker \in [Venue -> BreakerValue]
    /\ halted \in BOOLEAN /\ armed \in BOOLEAN
    /\ net \in [Req -> SUBSET (0..MaxRetries)]
    /\ posted \in [Req -> BOOLEAN]
    /\ reply \in [Req -> Reply]
    /\ order \in [Req -> {"none", "resting", "executed", "expired"}]
    /\ filled \in [Req -> Nat]
    /\ traded \in [Token -> Nat]

Init ==
    /\ pc = [r \in Req |-> "new"]
    /\ attempt = [r \in Req |-> 0]
    /\ status = [r \in Req |-> "none"]
    /\ report = [r \in Req |-> 0]
    /\ warned = [r \in Req |-> FALSE]
    /\ breaker = [v \in Venue |-> NewBreaker]
    /\ halted = FALSE
    /\ armed = TRUE
    /\ net = [r \in Req |-> {}]
    /\ posted = [r \in Req |-> FALSE]
    /\ reply = [r \in Req |-> NoReply]
    /\ order = [r \in Req |-> "none"]
    /\ filled = [r \in Req |-> 0]
    /\ traded = [t \in Token |-> 0]
-----------------------------------------------------------------------------
(***************************************************************************)
(* What the engine does with the outcome of one attempt: gateway.place     *)
(* returned the given status and fill.                                     *)
(***************************************************************************)
Recorded(r, b, st) ==
    IF r \notin Opening THEN b
    ELSE IF st = "failed" THEN OnFailure(b) ELSE OnSuccess(b)

\* The attempt ends the request, or leaves it backing off before the next.
Settle(r, over, st, fill) ==
    /\ pc' = [pc EXCEPT ![r] = IF over THEN "done" ELSE "backoff"]
    /\ status' = [status EXCEPT ![r] = IF over THEN st ELSE @]
    /\ report' = [report EXCEPT ![r] = IF over THEN fill ELSE @]

Over(r, st, retryable) ==
    st \in {"filled", "partial"} \/ ~retryable \/ attempt[r] = MaxRetries

Conclude(r, st, fill, retryable) ==
    /\ breaker' = [breaker EXCEPT ![VenueOf(r)] = Recorded(r, @, st)]
    /\ Settle(r, Over(r, st, retryable), st, fill)
    /\ reply' = [reply EXCEPT ![r] = NoReply]
    /\ UNCHANGED <<attempt, warned, halted, armed, netVars, venueVars>>

\* The outcome of a Kalshi order (_outcome_from_order) or of a Polymarket
\* response (PolymarketGateway.place): its status follows from its fill.
FillStatus(n) == IF n >= Size THEN "filled" ELSE IF n > 0 THEN "partial" ELSE "failed"

(***************************************************************************)
(* One attempt, up to the first network call.  Only the first attempt of a *)
(* request consults the kill switch in the engine; Kalshi's raw client     *)
(* consults it again before every POST, Polymarket's does not.             *)
(***************************************************************************)
Halt(r) ==
    /\ pc' = [pc EXCEPT ![r] = "done"]
    /\ status' = [status EXCEPT ![r] = "halted"]
    /\ UNCHANGED <<attempt, report, warned, armed, netVars, reply, venueVars>>

KillSwitchHalts_Unwinds(r) ==
    /\ pc[r] = "new"
    /\ halted
    /\ Halt(r)
    /\ UNCHANGED <<breaker, halted>>

\* execute() refuses to start an opening order while the kill switch is active.
KillSwitchHalts(r) ==
    /\ pc[r] = "new"
    /\ halted /\ r \in Opening
    /\ Halt(r)
    /\ UNCHANGED <<breaker, halted>>

\* The attempts that reach the breaker, or the gateway when risk_reducing.
Attempts(r) ==
    \/ pc[r] = "new" /\ ~(halted /\ r \in Opening)
    \/ pc[r] = "backoff"

\* CircuitOpenError: trip the kill switch and give up.
CircuitOpen(r) ==
    /\ Attempts(r)
    /\ r \in Opening /\ Rejects(breaker[VenueOf(r)])
    /\ breaker' = [breaker EXCEPT ![VenueOf(r)] = CheckFailureRate(@)]
    /\ halted' = TRUE
    /\ Halt(r)

Admitted(r) == r \in Opening => ~Rejects(breaker[VenueOf(r)])
EnteredBreaker(r) ==
    IF r \in Opening THEN EnterCall(breaker[VenueOf(r)]) ELSE breaker[VenueOf(r)]

\* The attempt number the task is about to make.
ThisAttempt(r) == IF pc[r] = "new" THEN 0 ELSE attempt[r] + 1

\* KalshiOrderClient._mutation_blocked for the POST of r.
MutationBlocked_ArmedOnly(r) == ~armed

MutationBlocked(r) == ~armed \/ (halted /\ r \in Opening)

StartAttempt(r) ==
    /\ attempt' = [attempt EXCEPT ![r] = ThisAttempt(r)]
    /\ warned' = [warned EXCEPT ![r] = halted]

\* The gateway or the raw client refuses before anything is sent.
Refused(r) ==
    /\ Attempts(r)
    /\ Admitted(r)
    /\ IF r \in Kalshi THEN MutationBlocked(r) ELSE ~armed
    /\ StartAttempt(r)
    /\ Settle(r, ThisAttempt(r) = MaxRetries, "failed", 0)
    /\ breaker' = [breaker EXCEPT ![VenueOf(r)] =
                      Recorded(r, EnteredBreaker(r), "failed")]
    /\ UNCHANGED <<halted, armed, netVars, reply, venueVars>>

Post(r, a) ==
    /\ net' = [net EXCEPT ![r] = @ \cup {a}]
    /\ posted' = [posted EXCEPT ![r] = TRUE]

\* Kalshi: the POST goes out in the same step.  Polymarket: tick size and
\* neg-risk lookups are awaited before the POST.
Begin(r) ==
    /\ Attempts(r)
    /\ Admitted(r)
    /\ StartAttempt(r)
    /\ breaker' = [breaker EXCEPT ![VenueOf(r)] = EnteredBreaker(r)]
    /\ \/ /\ r \in Kalshi /\ ~MutationBlocked(r)
          /\ pc' = [pc EXCEPT ![r] = "sent"]
          /\ Post(r, ThisAttempt(r))
       \/ /\ r \notin Kalshi /\ armed
          /\ pc' = [pc EXCEPT ![r] = "placing"]
          /\ UNCHANGED netVars
    /\ UNCHANGED <<status, report, halted, armed, reply, venueVars>>

PMPost(r) ==
    /\ pc[r] = "placing"
    /\ pc' = [pc EXCEPT ![r] = "sent"]
    /\ Post(r, attempt[r])
    /\ UNCHANGED <<attempt, status, report, warned, breaker, halted, armed, reply, venueVars>>
-----------------------------------------------------------------------------
(***************************************************************************)
(* The venues.                                                             *)
(***************************************************************************)
\* Only the attempt the task is waiting for gets its answer read.
Answer(r, a, rep) ==
    reply' = IF pc[r] = "sent" /\ attempt[r] = a
             THEN [reply EXCEPT ![r] = rep] ELSE reply

Arrives(r, a) ==
    /\ a \in net[r]
    /\ net' = [net EXCEPT ![r] = @ \ {a}]
    /\ UNCHANGED <<taskVars, breaker, halted, armed, posted>>

VenueRejects(r, a) ==
    /\ Arrives(r, a)
    /\ r \in Kalshi => order[r] = "none"
    /\ Answer(r, a, [kind |-> "rejected", fill |-> 0])
    /\ UNCHANGED venueVars

\* Kalshi accepts the order, filling n contracts at once.
KalshiAccepts(r, a, n) ==
    /\ r \in Kalshi /\ order[r] = "none"
    /\ Arrives(r, a)
    /\ order' = [order EXCEPT ![r] = IF n = Size THEN "executed" ELSE "resting"]
    /\ filled' = [filled EXCEPT ![r] = n]
    /\ Answer(r, a, [kind |-> "ok", fill |-> n])
    /\ UNCHANGED traded

\* Kalshi has seen this client_order_id: no second order.  The answer is an
\* error or the order that exists.
KalshiDedups(r, a) ==
    /\ r \in Kalshi /\ order[r] # "none"
    /\ Arrives(r, a)
    /\ \/ Answer(r, a, [kind |-> "rejected", fill |-> 0])
       \/ Answer(r, a, [kind |-> "ok", fill |-> filled[r]])
    /\ UNCHANGED venueVars

KalshiFills(r) ==
    /\ order[r] = "resting"
    /\ filled' = [filled EXCEPT ![r] = @ + 1]
    /\ order' = [order EXCEPT ![r] = IF filled[r] + 1 = Size THEN "executed" ELSE @]
    /\ UNCHANGED <<taskVars, breaker, halted, armed, netVars, reply, traded>>

\* expiration_ts passed (KALSHI_ORDER_TTL_SECONDS), or the order was canceled.
KalshiExpires(r) ==
    /\ order[r] = "resting"
    /\ order' = [order EXCEPT ![r] = "expired"]
    /\ UNCHANGED <<taskVars, breaker, halted, armed, netVars, reply, filled, traded>>

\* Polymarket matches a marketable order at once; every POST is a new order.
\* The answer may lack the order id.
PMMatches(r, a, n) ==
    /\ r \notin Kalshi
    /\ Arrives(r, a)
    /\ filled' = [filled EXCEPT ![r] = @ + n]
    /\ traded' = [traded EXCEPT ![TokenOf[r]] = @ + n]
    /\ \E kind \in {"ok", "no_id"} : Answer(r, a, [kind |-> kind, fill |-> n])
    /\ UNCHANGED order
-----------------------------------------------------------------------------
(***************************************************************************)
(* The answers, as the gateways handle them.                               *)
(***************************************************************************)
KalshiOrder(r) == Conclude(r, FillStatus(filled[r]), filled[r], TRUE)

Failed(r, retryable) == Conclude(r, "failed", 0, retryable)

ToPc(r, next) ==
    /\ pc' = [pc EXCEPT ![r] = next]
    /\ reply' = [reply EXCEPT ![r] = NoReply]
    /\ UNCHANGED <<attempt, status, report, warned, breaker, halted, armed, netVars, venueVars>>

\* KalshiGateway.place: an error is a retryable failure, an executed order
\* (all of it filled) is the outcome, any other order is polled.
KalshiAnswered_Resting(r) ==
    /\ r \in Kalshi /\ pc[r] = "sent"
    /\ \/ reply[r].kind = "rejected" /\ Failed(r, TRUE)
       \/ /\ reply[r].kind = "ok"
          /\ Conclude(r, FillStatus(reply[r].fill), reply[r].fill, TRUE)

KalshiAnswered(r) ==
    /\ r \in Kalshi /\ pc[r] = "sent"
    /\ \/ reply[r].kind = "rejected" /\ Failed(r, TRUE)
       \/ /\ reply[r].kind = "ok" /\ reply[r].fill = Size
          /\ Conclude(r, "filled", Size, TRUE)
       \/ reply[r].kind = "ok" /\ reply[r].fill < Size /\ ToPc(r, "polling")

\* The POST timed out or the connection broke (KalshiOrderClient._request).
KalshiTimeout(r) ==
    /\ r \in Kalshi /\ pc[r] = "sent"
    /\ Failed(r, TRUE)

\* The backoff poll sees a terminal order.
KalshiPolled(r) ==
    /\ pc[r] = "polling" /\ order[r] # "resting"
    /\ KalshiOrder(r)

\* The poll budget (15 s) runs out without a readable terminal status; the
\* order's TTL (5 s) is over by then.  Cancel, then re-fetch: verified or not.
KalshiPollTimeout(r) ==
    /\ pc[r] = "polling" /\ order[r] # "resting"
    /\ KalshiOrder(r) \/ Failed(r, FALSE)

PMAnswered(r) ==
    /\ r \notin Kalshi /\ pc[r] = "sent"
    /\ \/ reply[r].kind = "rejected" /\ Failed(r, TRUE)
       \/ /\ reply[r].kind = "ok"
          /\ Conclude(r, FillStatus(reply[r].fill), reply[r].fill, TRUE)
       \/ reply[r].kind = "no_id" /\ ToPc(r, "scanning")

\* A timeout or a dropped connection: the order's fate is ambiguous.
PMTimeout_Retries(r) ==
    /\ r \notin Kalshi /\ pc[r] = "sent"
    /\ Failed(r, TRUE)

PMTimeout(r) ==
    /\ r \notin Kalshi /\ pc[r] = "sent"
    /\ ToPc(r, "scanning")

\* _ambiguous_outcome: report the fills of this token and side that the
\* scan of recent trades finds (listed late, or 120 s old: not found); if it
\* finds none, or cannot read them, fail closed.
PMScan_WaitsForTrade(r) ==
    /\ pc[r] = "scanning"
    /\ \E n \in 1..traded[TokenOf[r]] :
          Conclude(r, FillStatus(n), n, FALSE)

PMScan(r) ==
    /\ pc[r] = "scanning"
    /\ \E n \in 0..traded[TokenOf[r]] :
          Conclude(r, FillStatus(n), n, FALSE)

\* The caller cancels the task (ArbitrageExecutor's wait timed out).  A POST
\* that left is not recalled.
Cancel(r) ==
    /\ pc[r] \in Active
    /\ ToPc(r, "cancelled")
-----------------------------------------------------------------------------
Operator ==
    /\ halted' \in BOOLEAN /\ armed' \in BOOLEAN
    /\ <<halted', armed'>> # <<halted, armed>>
    /\ UNCHANGED <<taskVars, breaker, netVars, reply, venueVars>>

Tick ==
    /\ breaker' = [v \in Venue |-> Aged(breaker[v])]
    /\ UNCHANGED <<taskVars, halted, armed, netVars, reply, venueVars>>

Starts(r) == KillSwitchHalts(r) \/ CircuitOpen(r) \/ Refused(r) \/ Begin(r)

Gateway(r) ==
    \/ PMPost(r)
    \/ KalshiAnswered(r) \/ KalshiTimeout(r) \/ KalshiPolled(r) \/ KalshiPollTimeout(r)
    \/ PMAnswered(r) \/ PMTimeout(r) \/ PMScan(r)

VenueStep(r) ==
    \/ \E a \in 0..MaxRetries :
          \/ VenueRejects(r, a) \/ KalshiDedups(r, a)
          \/ \E n \in 0..Size : KalshiAccepts(r, a, n)
          \/ \E n \in PMFill : PMMatches(r, a, n)
    \/ KalshiFills(r) \/ KalshiExpires(r)

Next ==
    \/ \E r \in Req : Starts(r) \/ Gateway(r) \/ Cancel(r) \/ VenueStep(r)
    \/ Operator \/ Tick

Spec == Init /\ [][Next]_vars

\* The event loop runs every ready task and each network call ends in an
\* answer or in its timeout; a Kalshi order expires at its TTL.
FairSpec ==
    /\ Spec
    /\ \A r \in Req : WF_vars(Starts(r)) /\ WF_vars(Gateway(r)) /\ WF_vars(KalshiExpires(r))
-----------------------------------------------------------------------------
(***************************************************************************)
(* Properties                                                              *)
(***************************************************************************)

\* However often a request is retried, timed out, cancelled or answered
\* late, the venue never fills more than the requested size for it: Kalshi
\* because it de-duplicates the client_order_id, Polymarket because an
\* ambiguous POST is never repeated (single_leg.py execute,
\* venue_gateway.py _ambiguous_outcome).
NoDoubleFill == \A r \in Req : filled[r] <= Size

\* A Kalshi outcome that reports contracts reports exactly the contracts the
\* order got, and that order can fill no more (KalshiGateway.place).
KalshiReportIsFinal ==
    \A r \in Kalshi :
        pc[r] = "done" /\ status[r] \in {"filled", "partial"}
            => order[r] # "resting" /\ report[r] = filled[r]

\* An attempt that began with the kill switch active never sends an opening
\* order to Kalshi, retries included (_mutation_blocked).
Posts(r) == \E a \in 0..MaxRetries : a \notin net[r] /\ a \in net'[r]

KalshiHaltHolds ==
    [][\A r \in Kalshi \cap Opening : Posts(r) => ~warned'[r]]_vars

\* Every attempt a risk-reducing request makes while the lock is armed goes
\* out to the venue: no halt and no state of the breaker stops an unwind
\* (execute, _mutation_blocked: "A halt must never block its own unwind").
UnwindGoesOut ==
    [][\A r \in Req \ Opening :
          pc[r] \in {"new", "backoff"} /\ armed /\ pc'[r] # pc[r]
              => pc'[r] \in {"placing", "sent", "cancelled"}]_vars

\* Every request the engine takes up comes to an end, through retries, polls and scans.
Terminates == \A r \in Req : pc[r] # "new" ~> pc[r] \in {"done", "cancelled"}
-----------------------------------------------------------------------------
(***************************************************************************)
(* The inductive invariant behind NoDoubleFill and KalshiReportIsFinal.    *)
(* Kalshi: one order per client_order_id, whose fill is final once it is   *)
(* terminal.  Polymarket: a request that may still be re-POSTed has nothing *)
(* in flight and nothing filled.                                           *)
(***************************************************************************)
Terminal == {"executed", "expired"}

KalshiInv(r) ==
    /\ pc[r] \notin {"placing", "scanning"}
    /\ filled[r] <= Size
    /\ order[r] = "none" => filled[r] = 0
    /\ order[r] = "resting" => filled[r] < Size
    /\ pc[r] = "polling" => order[r] # "none"
    /\ reply[r].kind = "ok" /\ reply[r].fill = Size
          => order[r] \in Terminal /\ filled[r] = Size
    /\ reply[r].kind = "ok" => order[r] # "none"
    /\ pc[r] = "done" /\ status[r] \in {"filled", "partial"}
          => order[r] \in Terminal /\ report[r] = filled[r]

PMInv(r) ==
    /\ pc[r] # "polling"
    /\ order[r] = "none"
    /\ filled[r] <= Size
    /\ \A a, b \in net[r] : a = b
    /\ net[r] # {} => filled[r] = 0
    /\ pc[r] \in {"new", "placing", "backoff"} => net[r] = {} /\ filled[r] = 0
    /\ pc[r] = "sent" => net[r] \subseteq {attempt[r]}
    /\ reply[r].kind = "rejected" => net[r] = {} /\ filled[r] = 0
    /\ reply[r].kind = "ok" => net[r] = {} /\ filled[r] = reply[r].fill

FillInv ==
    /\ \A r \in Kalshi : KalshiInv(r)
    /\ \A r \in Req \ Kalshi : PMInv(r)
=============================================================================
