----------------------- MODULE ExecutionEngineProofs -----------------------
(***************************************************************************)
(* Proofs about ExecutionEngine for any set of requests, any order size    *)
(* and any number of retries: its safety properties, and that it           *)
(* implements OrderPlacement.                                              *)
(***************************************************************************)
EXTENDS EngineRefinement, BreakerProofs

USE EngineAssumption DEF EngineAssumption, taskVars, netVars, venueVars

-----------------------------------------------------------------------------
(***************************************************************************)
(* Types.                                                                  *)
(***************************************************************************)

\* Every breaker the engine stores is well formed.
LEMMA BreakerTypes ==
    ASSUME TypeOK, NEW r \in Req, NEW st \in Status
    PROVE  LET b == breaker[VenueOf(r)] IN
           /\ b \in BreakerValue
           /\ EnteredBreaker(r) \in BreakerValue
           /\ Recorded(r, b, st) \in BreakerValue
           /\ Recorded(r, EnteredBreaker(r), st) \in BreakerValue
           /\ CheckFailureRate(b) \in BreakerValue
  <1>1. breaker[VenueOf(r)] \in BreakerValue
    BY DEF TypeOK, VenueOf, Venue
  <1>2. EnteredBreaker(r) \in BreakerValue
    BY <1>1, OperatorTypes DEF EnteredBreaker
  <1> QED BY <1>1, <1>2, OperatorTypes DEF Recorded

\* A conclusion keeps the types.
LEMMA ConcludeTypes ==
    ASSUME TypeOK, NEW r \in Req, NEW st \in Status, NEW n \in Nat, NEW y \in BOOLEAN,
           Conclude(r, st, n, y)
    PROVE  TypeOK'
  <1>1. breaker' \in [Venue -> BreakerValue]
    BY BreakerTypes DEF Conclude, TypeOK, VenueOf, Venue
  <1>2. reply' \in [Req -> Reply]
    BY DEF Conclude, TypeOK, NoReply, Reply
  <1>3. /\ pc' \in [Req -> {"new", "done", "cancelled"} \cup Active]
        /\ status' \in [Req -> Status]
        /\ report' \in [Req -> Nat]
    BY DEF Conclude, Settle, TypeOK, Active
  <1> QED BY <1>1, <1>2, <1>3 DEF Conclude, TypeOK

\* FillStatus always names an outcome status.
LEMMA FillStatusType == \A n \in Nat : FillStatus(n) \in {"filled", "partial", "failed"}
  BY DEF FillStatus

\* Moving a task to another waiting place keeps the types.
LEMMA ToPcTypes ==
    ASSUME TypeOK, NEW r \in Req, NEW p \in Active \cup {"cancelled"}, ToPc(r, p)
    PROVE  TypeOK'
  <1>1. reply' \in [Req -> Reply]
    BY DEF ToPc, TypeOK, NoReply, Reply
  <1>2. pc' \in [Req -> {"new", "done", "cancelled"} \cup Active]
    BY DEF ToPc, TypeOK
  <1> QED BY <1>1, <1>2 DEF ToPc, TypeOK

\* The attempts of a request stay within 0..MaxRetries: a task only backs off
\* when it has attempts left.
AttemptsLeft == \A r \in Req : pc[r] = "backoff" => attempt[r] < MaxRetries

\* Sending an attempt keeps the types.
LEMMA PostTypes ==
    ASSUME TypeOK, NEW r \in Req, NEW a \in 0..MaxRetries, Post(r, a)
    PROVE  net' \in [Req -> SUBSET (0..MaxRetries)] /\ posted' \in [Req -> BOOLEAN]
  <1>1. net' \in [Req -> SUBSET (0..MaxRetries)]
    BY DEF Post, TypeOK
  <1>2. posted' \in [Req -> BOOLEAN]
    BY Zenon DEF Post, TypeOK
  <1> QED BY <1>1, <1>2

\* An attempt that starts, is refused or is halted keeps the types.
LEMMA StartTypes ==
    ASSUME TypeOK, AttemptsLeft, NEW r \in Req, Starts(r)
    PROVE  TypeOK'
  <1>1. CASE KillSwitchHalts(r)
    <2>1. /\ pc' \in [Req -> {"new", "done", "cancelled"} \cup Active]
          /\ status' \in [Req -> Status]
      BY <1>1 DEF KillSwitchHalts, Halt, TypeOK, Status
    <2> QED BY <2>1, <1>1 DEF KillSwitchHalts, Halt, TypeOK
  <1>2. CASE CircuitOpen(r)
    <2>1. /\ pc' \in [Req -> {"new", "done", "cancelled"} \cup Active]
          /\ status' \in [Req -> Status]
      BY <1>2 DEF CircuitOpen, Halt, TypeOK, Status
    <2>2. breaker' \in [Venue -> BreakerValue]
      BY <1>2, BreakerTypes DEF CircuitOpen, TypeOK, Status
    <2> QED BY <2>1, <2>2, <1>2 DEF CircuitOpen, Halt, TypeOK
  <1>3. ASSUME Attempts(r) PROVE ThisAttempt(r) \in 0..MaxRetries
    BY <1>3 DEF Attempts, ThisAttempt, AttemptsLeft, TypeOK
  <1>4. ASSUME StartAttempt(r), Attempts(r)
        PROVE  attempt' \in [Req -> 0..MaxRetries] /\ warned' \in [Req -> BOOLEAN]
    <2>1. attempt' \in [Req -> 0..MaxRetries]
      BY <1>3, <1>4 DEF StartAttempt, TypeOK
    <2>2. warned' \in [Req -> BOOLEAN]
      BY <1>4, Zenon DEF StartAttempt, TypeOK
    <2> QED BY <2>1, <2>2
  <1>5. CASE Refused(r)
    <2>1. /\ pc' \in [Req -> {"new", "done", "cancelled"} \cup Active]
          /\ status' \in [Req -> Status]
          /\ report' \in [Req -> Nat]
      BY <1>5 DEF Refused, Settle, TypeOK, Status, Active
    <2>2. breaker' \in [Venue -> BreakerValue]
      BY <1>5, BreakerTypes DEF Refused, TypeOK, Status
    <2>3. StartAttempt(r) /\ Attempts(r)
      BY <1>5 DEF Refused
    <2> QED BY <2>1, <2>2, <2>3, <1>4, <1>5 DEF Refused, TypeOK
  <1>6. CASE Begin(r)
    <2>1. StartAttempt(r) /\ Attempts(r)
      BY <1>6 DEF Begin
    <2>2. pc' \in [Req -> {"new", "done", "cancelled"} \cup Active]
      BY <1>6 DEF Begin, TypeOK, Active
    <2>3. net' \in [Req -> SUBSET (0..MaxRetries)] /\ posted' \in [Req -> BOOLEAN]
      BY <1>3, <1>6, <2>1, PostTypes DEF Begin, TypeOK
    <2>4. breaker' \in [Venue -> BreakerValue]
      BY <1>6, BreakerTypes DEF Begin, TypeOK, Status
    <2> QED BY <2>1, <2>2, <2>3, <2>4, <1>4, <1>6 DEF Begin, TypeOK
  <1> QED BY <1>1, <1>2, <1>5, <1>6 DEF Starts

\* A venue's answer keeps the type of reply.
LEMMA AnswerType ==
    ASSUME TypeOK, NEW r \in Req, NEW a, NEW m \in Reply, Answer(r, a, m)
    PROVE  reply' \in [Req -> Reply]
  BY DEF Answer, TypeOK

\* Delivering a POST takes it out of the network and keeps its type.
LEMMA ArrivesTypes ==
    ASSUME TypeOK, NEW r \in Req, NEW a, Arrives(r, a)
    PROVE  net' \in [Req -> SUBSET (0..MaxRetries)]
  BY DEF Arrives, TypeOK

\* What the gateways do with an answer, a timeout or a scan keeps the types.
LEMMA GatewayTypes ==
    ASSUME TypeOK, NEW r \in Req, Gateway(r)
    PROVE  TypeOK'
  <1>0. /\ reply[r].fill \in Nat /\ filled[r] \in Nat /\ traded[TokenOf[r]] \in Nat
        /\ Size \in Nat /\ 0 \in Nat
    BY DEF TypeOK, Reply
  <1>1. ASSUME NEW y \in BOOLEAN, Failed(r, y) PROVE TypeOK'
    BY <1>0, <1>1, ConcludeTypes DEF Failed, Status
  <1>2. ASSUME NEW n \in Nat, NEW y \in BOOLEAN, Conclude(r, FillStatus(n), n, y)
        PROVE TypeOK'
    BY <1>2, FillStatusType, ConcludeTypes DEF Status
  <1>3. ASSUME Conclude(r, "filled", Size, TRUE) PROVE TypeOK'
    BY <1>0, <1>3, ConcludeTypes DEF Status
  <1>4. CASE PMPost(r)
    <2>1. pc' \in [Req -> {"new", "done", "cancelled"} \cup Active]
      BY <1>4 DEF PMPost, TypeOK, Active
    <2>2. net' \in [Req -> SUBSET (0..MaxRetries)] /\ posted' \in [Req -> BOOLEAN]
      <3>1. attempt[r] \in 0..MaxRetries
        BY DEF TypeOK
      <3> QED BY <1>4, <3>1, PostTypes DEF PMPost
    <2> QED BY <1>4, <2>1, <2>2 DEF PMPost, TypeOK
  <1>5. CASE KalshiAnswered(r)
    BY <1>1, <1>3, <1>5, ToPcTypes DEF KalshiAnswered, Active
  <1>6. CASE KalshiTimeout(r)
    BY <1>1, <1>6 DEF KalshiTimeout
  <1>7. CASE KalshiPolled(r)
    BY <1>0, <1>2, <1>7 DEF KalshiPolled, KalshiOrder
  <1>8. CASE KalshiPollTimeout(r)
    BY <1>0, <1>1, <1>2, <1>8 DEF KalshiPollTimeout, KalshiOrder
  <1>9. CASE PMAnswered(r)
    BY <1>0, <1>1, <1>2, <1>9, ToPcTypes DEF PMAnswered, Active
  <1>10. CASE PMTimeout(r)
    BY <1>10, ToPcTypes DEF PMTimeout, Active
  <1>11. CASE PMScan(r)
    <2>1. PICK n \in 0..traded[TokenOf[r]] : Conclude(r, FillStatus(n), n, FALSE)
      BY <1>11 DEF PMScan
    <2>2. n \in Nat
      BY <1>0
    <2> QED BY <1>2, <2>1, <2>2, Zenon
  <1> QED BY <1>4, <1>5, <1>6, <1>7, <1>8, <1>9, <1>10, <1>11 DEF Gateway

\* What the venues do keeps the types, fills bounded by the size included.
LEMMA VenueTypes ==
    ASSUME TypeOK, NEW r \in Req, r \in Kalshi => filled[r] <= Size, VenueStep(r)
    PROVE  TypeOK'
  <1>1. ASSUME NEW a, VenueRejects(r, a) PROVE TypeOK'
    <2>1. [kind |-> "rejected", fill |-> 0] \in Reply
      BY DEF Reply
    <2>2. reply' \in [Req -> Reply] /\ net' \in [Req -> SUBSET (0..MaxRetries)]
      BY <1>1, <2>1, AnswerType, ArrivesTypes DEF VenueRejects
    <2> QED BY <1>1, <2>2 DEF VenueRejects, Arrives, TypeOK
  <1>2. ASSUME NEW a, KalshiDedups(r, a) PROVE TypeOK'
    <2>1. [kind |-> "rejected", fill |-> 0] \in Reply
      BY DEF Reply
    <2>2. [kind |-> "ok", fill |-> filled[r]] \in Reply
      BY <1>2 DEF Reply, TypeOK, KalshiDedups
    <2>3. reply' \in [Req -> Reply] /\ net' \in [Req -> SUBSET (0..MaxRetries)]
      BY <1>2, <2>1, <2>2, AnswerType, ArrivesTypes DEF KalshiDedups
    <2> QED BY <1>2, <2>3 DEF KalshiDedups, Arrives, TypeOK
  <1>3. ASSUME NEW a, NEW n \in 0..Size, KalshiAccepts(r, a, n) PROVE TypeOK'
    <2>1. [kind |-> "ok", fill |-> n] \in Reply
      BY DEF Reply
    <2>2. reply' \in [Req -> Reply] /\ net' \in [Req -> SUBSET (0..MaxRetries)]
      BY <1>3, <2>1, AnswerType, ArrivesTypes DEF KalshiAccepts
    <2>3. /\ order' \in [Req -> {"none", "resting", "executed", "expired"}]
          /\ filled' \in [Req -> Nat]
      BY <1>3 DEF KalshiAccepts, TypeOK
    <2> QED BY <1>3, <2>2, <2>3 DEF KalshiAccepts, Arrives, TypeOK
  <1>4. ASSUME NEW a, NEW n \in PMFill, PMMatches(r, a, n) PROVE TypeOK'
    <2>1. n \in 0..Size /\ TokenOf[r] \in Token
      OBVIOUS
    <2>2. \A k \in {"ok", "no_id"} : [kind |-> k, fill |-> n] \in Reply
      BY <2>1 DEF Reply
    <2>3. reply' \in [Req -> Reply] /\ net' \in [Req -> SUBSET (0..MaxRetries)]
      BY <1>4, <2>2, AnswerType, ArrivesTypes DEF PMMatches
    <2>4. filled' \in [Req -> Nat] /\ traded' \in [Token -> Nat]
      BY <1>4, <2>1 DEF PMMatches, TypeOK
    <2> QED BY <1>4, <2>3, <2>4 DEF PMMatches, Arrives, TypeOK
  <1>5. ASSUME KalshiFills(r) PROVE TypeOK'
    <2>1. /\ order' \in [Req -> {"none", "resting", "executed", "expired"}]
          /\ filled' \in [Req -> Nat]
      BY <1>5 DEF KalshiFills, TypeOK
    <2> QED BY <1>5, <2>1 DEF KalshiFills, TypeOK
  <1>6. ASSUME KalshiExpires(r) PROVE TypeOK'
    <2>1. order' \in [Req -> {"none", "resting", "executed", "expired"}]
      BY <1>6 DEF KalshiExpires, TypeOK
    <2> QED BY <1>6, <2>1 DEF KalshiExpires, TypeOK
  <1> QED BY <1>1, <1>2, <1>3, <1>4, <1>5, <1>6 DEF VenueStep

\* Every step keeps the types.
LEMMA TypeStep ==
    ASSUME TypeOK, AttemptsLeft, FillInv, [Next]_vars
    PROVE  TypeOK'
  <1>1. ASSUME NEW r \in Req, Starts(r) PROVE TypeOK'
    BY <1>1, StartTypes
  <1>2. ASSUME NEW r \in Req, Gateway(r) PROVE TypeOK'
    BY <1>2, GatewayTypes
  <1>3. ASSUME NEW r \in Req, Cancel(r) PROVE TypeOK'
    BY <1>3, ToPcTypes DEF Cancel
  <1>4. ASSUME NEW r \in Req, VenueStep(r) PROVE TypeOK'
    BY <1>4, VenueTypes DEF FillInv, KalshiInv
  <1>5. CASE Operator
    BY <1>5, Zenon DEF Operator, TypeOK
  <1>6. CASE Tick
    <2>1. breaker' \in [Venue -> BreakerValue]
      BY <1>6, OperatorTypes DEF Tick, TypeOK
    <2> QED BY <1>6, <2>1 DEF Tick, TypeOK
  <1>7. CASE UNCHANGED vars
    BY <1>7 DEF vars, TypeOK
  <1> QED BY <1>1, <1>2, <1>3, <1>4, <1>5, <1>6, <1>7 DEF Next
-----------------------------------------------------------------------------
(***************************************************************************)
(* The inductive invariant, one request at a time.                         *)
(***************************************************************************)

\* What each kind of step does to the state of the request that takes it.
ReqInv(r) ==
    /\ pc[r] = "backoff" => attempt[r] < MaxRetries
    /\ reply[r].kind # "none" => pc[r] = "sent"
    /\ IF r \in Kalshi THEN KalshiInv(r) ELSE PMInv(r)

Inv == TypeOK /\ \A r \in Req : ReqInv(r)

reqState(r) ==
    <<pc[r], attempt[r], status[r], report[r], net[r], posted[r], reply[r], order[r],
      filled[r]>>

\* The invariant of a request depends on that request's state alone.
LEMMA Frame ==
    ASSUME NEW r \in Req, ReqInv(r), reqState(r)' = reqState(r)
    PROVE  ReqInv(r)'
  BY DEF ReqInv, reqState, KalshiInv, PMInv, Terminal

\* A step of one request leaves the state of the others alone.
LEMMA OthersUnchanged ==
    ASSUME TypeOK, NEW r \in Req, NEW q \in Req, q # r,
           Starts(r) \/ Gateway(r) \/ Cancel(r) \/ VenueStep(r)
    PROVE  reqState(q)' = reqState(q)
  <1>1. CASE Starts(r)
    BY <1>1 DEF Starts, KillSwitchHalts, CircuitOpen, Refused, Begin, Post, Halt, Settle,
                StartAttempt, TypeOK, reqState
  <1>2. ASSUME NEW st, NEW n, NEW y, Conclude(r, st, n, y)
        PROVE  reqState(q)' = reqState(q)
    BY <1>2 DEF Conclude, Settle, TypeOK, reqState
  <1>3. ASSUME NEW p, ToPc(r, p) PROVE reqState(q)' = reqState(q)
    BY <1>3 DEF ToPc, TypeOK, reqState
  <1>4. CASE PMPost(r)
    BY <1>4 DEF PMPost, Post, TypeOK, reqState
  <1>5. CASE Gateway(r)
    BY <1>2, <1>3, <1>4, <1>5 DEF Gateway, KalshiAnswered, KalshiTimeout, KalshiPolled,
          KalshiPollTimeout, PMAnswered, PMTimeout, PMScan, Failed, KalshiOrder
  <1>6. CASE Cancel(r)
    BY <1>3, <1>6 DEF Cancel
  <1>7. CASE VenueStep(r)
    BY <1>7 DEF VenueStep, VenueRejects, KalshiDedups, KalshiAccepts, PMMatches,
          KalshiFills, KalshiExpires, Arrives, Answer, TypeOK, reqState
  <1> QED BY <1>1, <1>5, <1>6, <1>7

\* An attempt that starts, is refused or is halted preserves the invariant.
LEMMA StartsInv ==
    ASSUME Inv, NEW r \in Req, Starts(r)
    PROVE  ReqInv(r)'
  <1> USE DEF Inv, ReqInv, TypeOK
  <1>1. CASE KillSwitchHalts(r)
    BY <1>1 DEF KillSwitchHalts, Halt, KalshiInv, PMInv, Terminal
  <1>2. CASE CircuitOpen(r)
    BY <1>2 DEF CircuitOpen, Halt, Attempts, KalshiInv, PMInv, Terminal
  <1>3. CASE Refused(r)
    BY <1>3 DEF Refused, Settle, StartAttempt, ThisAttempt, Attempts,
                KalshiInv, PMInv, Terminal
  <1>4. CASE Begin(r)
    BY <1>4 DEF Begin, Post, StartAttempt, ThisAttempt, Attempts,
                KalshiInv, PMInv, Terminal
  <1> QED BY <1>1, <1>2, <1>3, <1>4 DEF Starts

\* The venues' steps preserve the invariant.
LEMMA VenueInv ==
    ASSUME Inv, NEW r \in Req, VenueStep(r)
    PROVE  ReqInv(r)'
  <1> USE DEF Inv, ReqInv, TypeOK
  <1>1. ASSUME NEW a, VenueRejects(r, a) PROVE ReqInv(r)'
    BY <1>1 DEF VenueRejects, Arrives, Answer, KalshiInv, PMInv, Terminal
  <1>2. ASSUME NEW a, KalshiDedups(r, a) PROVE ReqInv(r)'
    BY <1>2 DEF KalshiDedups, Arrives, Answer, KalshiInv, Terminal
  <1>3. ASSUME NEW a, NEW n \in 0..Size, KalshiAccepts(r, a, n) PROVE ReqInv(r)'
    BY <1>3 DEF KalshiAccepts, Arrives, Answer, KalshiInv, Terminal
  <1>4. ASSUME NEW a, NEW n \in PMFill, PMMatches(r, a, n) PROVE ReqInv(r)'
    BY <1>4 DEF PMMatches, Arrives, Answer, PMInv
  <1>5. ASSUME KalshiFills(r) PROVE ReqInv(r)'
    BY <1>5 DEF KalshiFills, KalshiInv, PMInv, Terminal
  <1>6. ASSUME KalshiExpires(r) PROVE ReqInv(r)'
    BY <1>6 DEF KalshiExpires, KalshiInv, PMInv, Terminal
  <1> QED BY <1>1, <1>2, <1>3, <1>4, <1>5, <1>6 DEF VenueStep

\* What a conclusion does to the request it concludes.
LEMMA ConcludeEffect ==
    ASSUME TypeOK, NEW r \in Req, NEW st, NEW n, NEW y \in BOOLEAN, Conclude(r, st, n, y)
    PROVE  /\ reply'[r].kind = "none"
           /\ attempt' = attempt /\ net' = net /\ order' = order /\ filled' = filled
           /\ \/ pc'[r] = "done" /\ status'[r] = st /\ report'[r] = n
              \/ /\ pc'[r] = "backoff" /\ attempt[r] < MaxRetries
                 /\ y /\ st \notin {"filled", "partial"}
  <1>1. reply'[r].kind = "none"
    BY DEF Conclude, NoReply, TypeOK
  <1>2. attempt' = attempt /\ net' = net /\ order' = order /\ filled' = filled
    BY DEF Conclude
  <1>3. \/ pc'[r] = "done" /\ status'[r] = st /\ report'[r] = n
        \/ pc'[r] = "backoff" /\ ~Over(r, st, y)
    BY DEF Conclude, Settle, TypeOK
  <1>4. ~Over(r, st, y) => attempt[r] < MaxRetries /\ y /\ st \notin {"filled", "partial"}
    <2>1. ~Over(r, st, y) => attempt[r] # MaxRetries /\ y /\ st \notin {"filled", "partial"}
      BY Zenon DEF Over
    <2>2. attempt[r] # MaxRetries => attempt[r] < MaxRetries
      BY DEF TypeOK
    <2> QED BY <2>1, <2>2
  <1> QED BY <1>1, <1>2, <1>3, <1>4

\* A Kalshi conclusion preserves the invariant when the fill it reports, if
\* any, is the fill of a terminal order.
LEMMA KalshiConcludes ==
    ASSUME Inv, NEW r \in Kalshi, NEW st \in Status, NEW n, NEW y \in BOOLEAN,
           Conclude(r, st, n, y),
           st \in {"filled", "partial"} => order[r] \in Terminal /\ n = filled[r]
    PROVE  ReqInv(r)'
  <1>1. r \in Req /\ TypeOK /\ KalshiInv(r)
    BY DEF Inv, ReqInv
  <1>2. /\ reply'[r].kind = "none"
        /\ order'[r] = order[r] /\ filled'[r] = filled[r] /\ attempt'[r] = attempt[r]
        /\ \/ pc'[r] = "done" /\ status'[r] = st /\ report'[r] = n
           \/ pc'[r] = "backoff" /\ attempt[r] < MaxRetries
    BY <1>1, ConcludeEffect
  <1> QED BY <1>1, <1>2 DEF ReqInv, KalshiInv, Terminal

\* A Polymarket conclusion preserves it when a retryable failure leaves
\* nothing in flight and nothing filled.
LEMMA PMConcludes ==
    ASSUME Inv, NEW r \in Req \ Kalshi, NEW st, NEW n, NEW y \in BOOLEAN,
           Conclude(r, st, n, y),
           y /\ st \notin {"filled", "partial"} => net[r] = {} /\ filled[r] = 0
    PROVE  ReqInv(r)'
  <1>1. r \in Req /\ TypeOK /\ PMInv(r)
    BY DEF Inv, ReqInv
  <1>2. /\ reply'[r].kind = "none"
        /\ order'[r] = order[r] /\ filled'[r] = filled[r]
        /\ attempt'[r] = attempt[r] /\ net'[r] = net[r]
        /\ \/ pc'[r] = "done"
           \/ /\ pc'[r] = "backoff" /\ attempt[r] < MaxRetries
              /\ net[r] = {} /\ filled[r] = 0
    BY <1>1, ConcludeEffect
  <1> QED BY <1>1, <1>2 DEF ReqInv, PMInv

\* What the gateways do with an answer, a timeout or a scan preserves the
\* invariant: a Polymarket request goes back to retrying only with nothing in
\* flight and nothing filled.
LEMMA GatewayInv ==
    ASSUME Inv, NEW r \in Req, Gateway(r)
    PROVE  ReqInv(r)'
  <1>0. /\ TypeOK /\ ReqInv(r)
        /\ filled[r] \in Nat /\ reply[r].fill \in 0..Size /\ traded[TokenOf[r]] \in Nat
    BY DEF Inv, TypeOK, Reply
  <1>1. CASE PMPost(r)
    BY <1>0, <1>1 DEF PMPost, Post, ReqInv, TypeOK, KalshiInv, PMInv
  <1>2. ASSUME r \in Kalshi, NEW y \in BOOLEAN, Failed(r, y) PROVE ReqInv(r)'
    BY <1>2, KalshiConcludes DEF Failed, Status
  <1>3. ASSUME pc[r] = "polling", order[r] # "resting", KalshiOrder(r) PROVE ReqInv(r)'
    <2>1. r \in Kalshi /\ order[r] \in Terminal
      BY <1>0, <1>3 DEF ReqInv, KalshiInv, PMInv, Terminal, TypeOK
    <2>2. FillStatus(filled[r]) \in Status
      BY <1>0, FillStatusType DEF Status
    <2> QED BY <1>3, <2>1, <2>2, KalshiConcludes DEF KalshiOrder
  <1>4. CASE KalshiAnswered(r)
    <2>1. CASE reply[r].kind = "ok" /\ reply[r].fill = Size /\ Conclude(r, "filled", Size, TRUE)
      <3>1. r \in Kalshi /\ order[r] \in Terminal /\ filled[r] = Size
        BY <1>0, <1>4, <2>1 DEF KalshiAnswered, ReqInv, KalshiInv
      <3> QED BY <2>1, <3>1, KalshiConcludes DEF Status
    <2>2. CASE reply[r].kind = "ok" /\ ToPc(r, "polling")
      BY <1>0, <1>4, <2>2 DEF KalshiAnswered, ToPc, NoReply, ReqInv, TypeOK, KalshiInv
    <2> QED BY <1>2, <1>4, <2>1, <2>2 DEF KalshiAnswered
  <1>5. CASE KalshiTimeout(r)
    BY <1>2, <1>5 DEF KalshiTimeout
  <1>6. CASE KalshiPolled(r)
    BY <1>3, <1>6 DEF KalshiPolled
  <1>7. CASE KalshiPollTimeout(r)
    <2>1. pc[r] = "polling" => r \in Kalshi
      BY <1>0 DEF ReqInv, PMInv
    <2> QED BY <1>2, <1>3, <1>7, <2>1 DEF KalshiPollTimeout
  <1>8. CASE PMAnswered(r)
    <2>0. r \in Req \ Kalshi /\ PMInv(r)
      BY <1>0, <1>8 DEF PMAnswered, ReqInv
    <2>1. CASE reply[r].kind = "rejected" /\ Failed(r, TRUE)
      BY <2>0, <2>1, PMConcludes DEF Failed, PMInv
    <2>2. CASE reply[r].kind = "ok" /\ Conclude(r, FillStatus(reply[r].fill), reply[r].fill, TRUE)
      <3>1. FillStatus(reply[r].fill) \notin {"filled", "partial"} => reply[r].fill = 0
        BY <1>0 DEF FillStatus
      <3> QED BY <2>0, <2>2, <3>1, PMConcludes DEF PMInv
    <2>3. CASE ToPc(r, "scanning")
      BY <1>0, <2>0, <2>3 DEF ToPc, NoReply, ReqInv, TypeOK, PMInv
    <2> QED BY <1>8, <2>1, <2>2, <2>3 DEF PMAnswered
  <1>9. CASE PMTimeout(r)
    BY <1>0, <1>9 DEF PMTimeout, ToPc, NoReply, ReqInv, TypeOK, PMInv
  <1>10. CASE PMScan(r)
    <2>1. r \in Req \ Kalshi
      BY <1>0, <1>10 DEF PMScan, ReqInv, KalshiInv
    <2>2. PICK n \in 0..traded[TokenOf[r]] : Conclude(r, FillStatus(n), n, FALSE)
      BY <1>10 DEF PMScan
    <2> QED BY <2>1, <2>2, PMConcludes
  <1> QED BY <1>1, <1>4, <1>5, <1>6, <1>7, <1>8, <1>9, <1>10 DEF Gateway

\* Cancelling a leg preserves the invariant: what it sent may still fill.
LEMMA CancelInv ==
    ASSUME Inv, NEW r \in Req, Cancel(r)
    PROVE  ReqInv(r)'
  BY DEF Inv, ReqInv, TypeOK, Cancel, ToPc, NoReply, KalshiInv, PMInv, Terminal, Active

\* The invariant is inductive.
LEMMA InvStep ==
    ASSUME Inv, [Next]_vars
    PROVE  Inv'
  <1>1. TypeOK /\ AttemptsLeft /\ FillInv
    BY DEF Inv, ReqInv, AttemptsLeft, FillInv
  <1>2. TypeOK'
    BY <1>1, TypeStep
  <1>3. ASSUME NEW r \in Req, Starts(r) \/ Gateway(r) \/ Cancel(r) \/ VenueStep(r)
        PROVE  \A q \in Req : ReqInv(q)'
    <2> TAKE q \in Req
    <2>1. CASE q = r
      BY <1>3, <2>1, StartsInv, GatewayInv, CancelInv, VenueInv
    <2>2. CASE q # r
      BY <1>1, <1>3, <2>2, OthersUnchanged, Frame DEF Inv
    <2> QED BY <2>1, <2>2
  <1>4. ASSUME pc' = pc, attempt' = attempt, status' = status, report' = report, net' = net,
               posted' = posted, reply' = reply, order' = order, filled' = filled
        PROVE  \A q \in Req : ReqInv(q)'
    <2> TAKE q \in Req
    <2>1. reqState(q)' = reqState(q)
      BY <1>4 DEF reqState
    <2> QED BY <2>1, Frame DEF Inv
  <1>5. ASSUME Operator PROVE \A q \in Req : ReqInv(q)'
    BY <1>4, <1>5, Zenon DEF Operator
  <1>6. ASSUME Tick PROVE \A q \in Req : ReqInv(q)'
    BY <1>4, <1>6, Zenon DEF Tick
  <1>7. ASSUME UNCHANGED vars PROVE \A q \in Req : ReqInv(q)'
    BY <1>4, <1>7, Zenon DEF vars
  <1> QED BY <1>2, <1>3, <1>5, <1>6, <1>7 DEF Next, Inv

\* The initial state satisfies it.
LEMMA InvInit == Init => Inv
  <1> SUFFICES ASSUME Init PROVE Inv
    OBVIOUS
  <1>1. NewBreaker \in BreakerValue
    BY NewBreakerType
  <1>2. NoReply \in Reply
    BY DEF NoReply, Reply
  <1>3. TypeOK
    <2>1. halted \in BOOLEAN /\ armed \in BOOLEAN /\ warned \in [Req -> BOOLEAN]
      BY Zenon DEF Init
    <2> QED BY <1>1, <1>2, <2>1 DEF Init, TypeOK, Status
  <1>4. \A r \in Req : ReqInv(r)
    BY DEF Init, ReqInv, KalshiInv, PMInv, NoReply
  <1> QED BY <1>3, <1>4 DEF Inv

-----------------------------------------------------------------------------
(***************************************************************************)
(* Theorems.                                                               *)
(***************************************************************************)

\* The inductive invariant holds in every reachable state.
THEOREM InvHolds == Spec => []Inv
  <1>1. Inv /\ [Next]_vars => Inv'
    BY InvStep
  <1> QED BY <1>1, InvInit, PTL DEF Spec

\* Every reachable state of the engine is well formed: attempts never exceed
\* MaxRetries and every stored breaker is one (ExecutionEngine.execute).
THEOREM TypeCorrect == Spec => []TypeOK
  <1>1. Inv => TypeOK
    BY DEF Inv
  <1> QED BY <1>1, InvHolds, PTL

\* However a request is retried, timed out, cancelled or answered late, the
\* venue never fills more than its size (ExecutionEngine.execute with
\* _ambiguous_outcome and Kalshi's client_order_id).
THEOREM NeverDoubleFills == Spec => []NoDoubleFill
  <1>1. Inv => NoDoubleFill
    BY DEF Inv, ReqInv, KalshiInv, PMInv, NoDoubleFill
  <1> QED BY <1>1, InvHolds, PTL

\* The contracts a Kalshi outcome reports are exactly those its order got,
\* and the order can get no more (KalshiGateway.place).
THEOREM KalshiReportsFinalFill == Spec => []KalshiReportIsFinal
  <1>1. Inv => KalshiReportIsFinal
    BY DEF Inv, ReqInv, KalshiInv, Terminal, KalshiReportIsFinal
  <1> QED BY <1>1, InvHolds, PTL

\* No opening order is POSTed to Kalshi by an attempt that began with the
\* kill switch active, whichever retry it is (_mutation_blocked).
THEOREM KalshiHonoursHalt == Spec => KalshiHaltHolds
  <1> DEFINE A == \A r \in Kalshi \cap Opening : Posts(r) => ~warned'[r]
  <1>1. Inv /\ [Next]_vars => [A]_vars
    <2> SUFFICES ASSUME Inv, Next, NEW r \in Kalshi \cap Opening, Posts(r)
                 PROVE  ~warned'[r]
      OBVIOUS
    <2>0. TypeOK /\ r \in Req /\ r \in Kalshi /\ r \in Opening /\ pc[r] # "placing"
      BY DEF Inv, ReqInv, KalshiInv
    <2>1. ASSUME NEW q \in Req, q # r,
                 Starts(q) \/ Gateway(q) \/ Cancel(q) \/ VenueStep(q)
          PROVE  FALSE
      BY <2>0, <2>1, OthersUnchanged DEF reqState, Posts
    <2>2. ASSUME Starts(r) PROVE ~warned'[r]
      BY <2>0, <2>2 DEF Starts, KillSwitchHalts, CircuitOpen, Refused, Begin, Halt,
            StartAttempt, MutationBlocked, Posts, TypeOK
    <2>3. ASSUME Gateway(r) \/ Cancel(r) PROVE FALSE
      BY <2>0, <2>3 DEF Gateway, PMPost, KalshiAnswered, KalshiTimeout, KalshiPolled,
            KalshiPollTimeout, PMAnswered, PMTimeout, PMScan, Failed, KalshiOrder,
            Conclude, ToPc, Cancel, Posts
    <2>4. ASSUME VenueStep(r) PROVE FALSE
      <3>0. ASSUME NEW a, Arrives(r, a) PROVE net'[r] \subseteq net[r]
        BY <2>0, <3>0 DEF Arrives, TypeOK
      <3>1. ASSUME net' = net PROVE net'[r] \subseteq net[r]
        BY <3>1
      <3>2. net'[r] \subseteq net[r]
        BY <2>4, <3>0, <3>1 DEF VenueStep, VenueRejects, KalshiDedups, KalshiAccepts,
              PMMatches, KalshiFills, KalshiExpires
      <3> QED BY <3>2 DEF Posts
    <2>5. ASSUME Operator \/ Tick PROVE FALSE
      BY <2>5 DEF Operator, Tick, Posts
    <2> QED BY <2>0, <2>1, <2>2, <2>3, <2>4, <2>5 DEF Next
  <1> QED BY <1>1, InvHolds, PTL DEF Spec, KalshiHaltHolds

\* Nothing but a cancellation or a lowered lock keeps an unwind from going
\* out: the kill switch and the breaker do not (execute, _mutation_blocked).
THEOREM UnwindsAreNotHalted == Spec => UnwindGoesOut
  <1> DEFINE A == \A r \in Req \ Opening :
                    pc[r] \in {"new", "backoff"} /\ armed /\ pc'[r] # pc[r]
                        => pc'[r] \in {"placing", "sent", "cancelled"}
  <1>1. Inv /\ [Next]_vars => [A]_vars
    <2> SUFFICES ASSUME Inv, Next, NEW r \in Req \ Opening,
                        pc[r] \in {"new", "backoff"}, armed, pc'[r] # pc[r]
                 PROVE  pc'[r] \in {"placing", "sent", "cancelled"}
      OBVIOUS
    <2>0. TypeOK
      BY DEF Inv
    <2>1. ASSUME NEW q \in Req, q # r,
                 Starts(q) \/ Gateway(q) \/ Cancel(q) \/ VenueStep(q)
          PROVE  FALSE
      BY <2>0, <2>1, OthersUnchanged DEF reqState
    <2>2. ASSUME Starts(r) PROVE pc'[r] \in {"placing", "sent"}
      BY <2>0, <2>2 DEF Starts, KillSwitchHalts, CircuitOpen, Refused, Begin,
            MutationBlocked, TypeOK
    <2>3. ASSUME Gateway(r) PROVE FALSE
      <3>1. reply[r].kind = "none"
        BY DEF Inv, ReqInv
      <3> QED BY <2>3, <3>1 DEF Gateway, PMPost, KalshiAnswered, KalshiTimeout, KalshiPolled,
                KalshiPollTimeout, PMAnswered, PMTimeout, PMScan
    <2>4. ASSUME Cancel(r) PROVE pc'[r] = "cancelled"
      BY <2>0, <2>4 DEF Cancel, ToPc, TypeOK
    <2>5. ASSUME VenueStep(r) \/ Operator \/ Tick PROVE pc' = pc
      BY <2>5 DEF VenueStep, VenueRejects, KalshiDedups, KalshiAccepts, PMMatches, KalshiFills,
            KalshiExpires, Arrives, Operator, Tick
    <2> QED BY <2>1, <2>2, <2>3, <2>4, <2>5 DEF Next
  <1> QED BY <1>1, InvHolds, PTL DEF Spec, UnwindGoesOut
-----------------------------------------------------------------------------
(***************************************************************************)
(* The engine implements OrderPlacement.                                   *)
(***************************************************************************)

Awaiting == {"sent", "polling", "scanning"}

\* What the refinement needs besides Inv: nothing is reported before the end,
\* contracts are reported only as a fill, and whatever is in flight, at the
\* venue or awaited was POSTed.
RefInv(r) ==
    /\ pc[r] # "done" => report[r] = 0
    /\ pc[r] = "done" /\ report[r] > 0 => status[r] \in {"filled", "partial"}
    /\ net[r] # {} \/ order[r] # "none" \/ pc[r] \in Awaiting => posted[r]

\* A conclusion as a gateway makes it: of a POST the task awaits, reporting
\* contracts only as a fill and, for Kalshi, only those the order got.
Concludes(r) ==
    /\ pc[r] \in Awaiting
    /\ \E n \in Nat, st \in Status, y \in BOOLEAN :
          /\ Conclude(r, st, n, y)
          /\ n > 0 => st \in {"filled", "partial"}
          /\ r \in Kalshi => n \in {0, filled[r]}

\* Every step of a gateway sends, waits on or concludes.
LEMMA GatewayCases ==
    ASSUME Inv, NEW r \in Req, Gateway(r)
    PROVE  \/ PMPost(r)
           \/ pc[r] = "sent" /\ \E p \in {"polling", "scanning"} : ToPc(r, p)
           \/ Concludes(r)
  <1>0. /\ TypeOK /\ ReqInv(r)
        /\ filled[r] \in Nat /\ reply[r].fill \in Nat /\ traded[TokenOf[r]] \in Nat
    BY DEF Inv, TypeOK, Reply
  <1>1. ASSUME NEW y \in BOOLEAN, pc[r] \in Awaiting, Failed(r, y) PROVE Concludes(r)
    BY <1>1 DEF Failed, Concludes, Status
  <1>2. ASSUME NEW n \in Nat, NEW y \in BOOLEAN, pc[r] \in Awaiting,
               r \in Kalshi => n = filled[r], Conclude(r, FillStatus(n), n, y)
        PROVE  Concludes(r)
    <2>1. FillStatus(n) \in Status /\ (n > 0 => FillStatus(n) \in {"filled", "partial"})
      BY DEF FillStatus, Status
    <2> QED BY <1>2, <2>1 DEF Concludes
  <1>3. CASE KalshiAnswered(r)
    <2>1. CASE reply[r].kind = "ok" /\ reply[r].fill = Size /\ Conclude(r, "filled", Size, TRUE)
      <3>1. r \in Kalshi /\ filled[r] = Size /\ pc[r] \in Awaiting
        BY <1>0, <1>3, <2>1 DEF KalshiAnswered, ReqInv, KalshiInv, Awaiting
      <3>2. "filled" \in Status /\ Size \in Nat
        BY DEF Status
      <3> QED BY <2>1, <3>1, <3>2 DEF Concludes
    <2> QED BY <1>1, <1>3, <2>1 DEF KalshiAnswered, Awaiting
  <1>4. CASE KalshiTimeout(r)
    BY <1>1, <1>4 DEF KalshiTimeout, Awaiting
  <1>5. CASE KalshiPolled(r) \/ KalshiPollTimeout(r)
    BY <1>0, <1>1, <1>2, <1>5 DEF KalshiPolled, KalshiPollTimeout, KalshiOrder, Awaiting
  <1>6. CASE PMAnswered(r)
    BY <1>0, <1>1, <1>2, <1>6 DEF PMAnswered, Awaiting
  <1>7. CASE PMTimeout(r)
    BY <1>7 DEF PMTimeout
  <1>8. CASE PMScan(r)
    <2>1. r \notin Kalshi /\ pc[r] \in Awaiting
      BY <1>0, <1>8 DEF PMScan, ReqInv, KalshiInv, Awaiting
    <2>2. PICK n \in 0..traded[TokenOf[r]] : Conclude(r, FillStatus(n), n, FALSE)
      BY <1>8 DEF PMScan
    <2>3. n \in Nat
      BY <1>0
    <2> QED BY <1>2, <2>1, <2>2, <2>3
  <1> QED BY <1>3, <1>4, <1>5, <1>6, <1>7, <1>8 DEF Gateway

\* The refinement's part depends on the request's own state alone.
LEMMA RefFrame ==
    ASSUME NEW r \in Req, RefInv(r), reqState(r)' = reqState(r)
    PROVE  RefInv(r)'
  BY DEF RefInv, reqState

\* What a conclusion does to what the caller sees.
LEMMA ConcludesEffect ==
    ASSUME TypeOK, NEW r \in Req, NEW st, NEW n, NEW y \in BOOLEAN, Conclude(r, st, n, y)
    PROVE  /\ UNCHANGED <<net, posted, order, filled>>
           /\ \/ /\ pc' = [pc EXCEPT ![r] = "done"]
                 /\ report' = [report EXCEPT ![r] = n]
                 /\ status'[r] = st
              \/ pc' = [pc EXCEPT ![r] = "backoff"] /\ report' = report
  <1>1. CASE Over(r, st, y)
    BY <1>1 DEF Conclude, Settle, TypeOK
  <1>2. CASE ~Over(r, st, y)
    BY <1>2 DEF Conclude, Settle, TypeOK
  <1> QED BY <1>1, <1>2

\* Every step of a request preserves it.
LEMMA RefStep ==
    ASSUME Inv, NEW r \in Req, RefInv(r), Starts(r) \/ Gateway(r) \/ Cancel(r) \/ VenueStep(r)
    PROVE  RefInv(r)'
  <1>0. TypeOK
    BY DEF Inv
  <1> USE <1>0 DEF TypeOK, RefInv, Awaiting
  <1>1. CASE KillSwitchHalts(r) \/ CircuitOpen(r)
    BY <1>1 DEF KillSwitchHalts, CircuitOpen, Halt, Attempts
  <1>2. CASE Refused(r)
    BY <1>2 DEF Refused, Settle, Attempts
  <1>3. CASE Begin(r)
    BY <1>3 DEF Begin, Post, Attempts
  <1>4. CASE PMPost(r)
    BY <1>4 DEF PMPost, Post
  <1>5. ASSUME NEW p \in {"polling", "scanning", "cancelled"}, pc[r] \in Active, ToPc(r, p),
               p # "cancelled" => pc[r] = "sent"
        PROVE  RefInv(r)'
    BY <1>5 DEF ToPc, Active
  <1>6. CASE Concludes(r)
    <2>1. PICK n \in Nat, st \in Status, y \in BOOLEAN :
            Conclude(r, st, n, y) /\ (n > 0 => st \in {"filled", "partial"})
      BY <1>6 DEF Concludes
    <2> QED BY <1>6, <2>1, ConcludesEffect DEF Concludes
  <1>7. CASE Gateway(r)
    BY <1>4, <1>5, <1>6, <1>7, GatewayCases DEF Active
  <1>8. CASE Cancel(r)
    BY <1>5, <1>8 DEF Cancel
  <1>9. CASE VenueStep(r)
    BY <1>9 DEF VenueStep, VenueRejects, KalshiDedups, KalshiAccepts, PMMatches,
          KalshiFills, KalshiExpires, Arrives
  <1> QED BY <1>1, <1>2, <1>3, <1>7, <1>8, <1>9 DEF Starts

\* Nothing a request's properties depend on changes in the other steps.
LEMMA IdleSteps ==
    ASSUME Operator \/ Tick \/ UNCHANGED vars
    PROVE  UNCHANGED <<pc, attempt, status, report, net, posted, reply, order, filled>>
  BY DEF Operator, Tick, vars

RInv == Inv /\ \A r \in Req : RefInv(r)

\* The strengthened invariant is inductive.
LEMMA RInvStep ==
    ASSUME RInv, [Next]_vars
    PROVE  RInv'
  <1>1. Inv /\ Inv' /\ TypeOK
    BY InvStep DEF RInv, Inv
  <1>2. ASSUME NEW r \in Req, Starts(r) \/ Gateway(r) \/ Cancel(r) \/ VenueStep(r),
               NEW q \in Req
        PROVE  RefInv(q)'
    <2>1. CASE q = r
      BY <1>1, <1>2, <2>1, RefStep DEF RInv
    <2>2. CASE q # r
      BY <1>1, <1>2, <2>2, OthersUnchanged, RefFrame DEF RInv
    <2> QED BY <2>1, <2>2
  <1>3. ASSUME Operator \/ Tick \/ UNCHANGED vars, NEW q \in Req
        PROVE  RefInv(q)'
    <2>1. reqState(q)' = reqState(q)
      BY <1>3, IdleSteps DEF reqState
    <2> QED BY <2>1, RefFrame DEF RInv
  <1> QED BY <1>1, <1>2, <1>3 DEF RInv, Next

(***************************************************************************)
(* The steps of a request as steps of OrderPlacement.                      *)
(***************************************************************************)

\* The phase of a request, case by case.
LEMMA PhaseIs ==
    ASSUME NEW r \in Req
    PROVE  /\ pc[r] = "done" => Phase(r) = "reported"
           /\ pc[r] = "cancelled" => Phase(r) = "abandoned"
           /\ pc[r] \notin {"done", "cancelled"} /\ posted[r] => Phase(r) = "working"
           /\ pc[r] \notin {"done", "cancelled"} /\ ~posted[r] => Phase(r) = "idle"
  BY DEF Phase

\* A step of r moves the phase and the size of r alone.
LEMMA Mapped ==
    ASSUME TypeOK, NEW r \in Req, Starts(r) \/ Gateway(r) \/ Cancel(r) \/ VenueStep(r)
    PROVE  LET ph == [x \in Req |-> Phase(x)]
               sz == [x \in Req |-> IF posted[x] THEN Size ELSE 0]
           IN  /\ ph' = [ph EXCEPT ![r] = Phase(r)']
               /\ sz' = [sz EXCEPT ![r] = IF posted'[r] THEN Size ELSE 0]
  <1>1. ASSUME NEW q \in Req, q # r
        PROVE  Phase(q)' = Phase(q) /\ posted'[q] = posted[q]
    <2>1. pc'[q] = pc[q] /\ posted'[q] = posted[q]
      BY <1>1, OthersUnchanged DEF reqState
    <2> QED BY <2>1 DEF Phase
  <1> QED BY <1>1

\* Steps of a request that its caller does not see.
LEMMA Unseen ==
    ASSUME TypeOK, NEW r \in Req, Starts(r) \/ Gateway(r) \/ Cancel(r) \/ VenueStep(r),
           Phase(r)' = Phase(r), posted'[r] = posted[r], filled' = filled, report' = report
    PROVE  UNCHANGED OP!orderVars
  BY Mapped DEF OP!orderVars

\* A request that ends: refused when nothing was POSTed, reported otherwise.
LEMMA Ends ==
    ASSUME TypeOK, Units = Nat, NEW r \in Req, NEW n \in Nat,
           Starts(r) \/ Gateway(r),
           pc[r] \notin {"done", "cancelled"}, pc'[r] = "done", posted' = posted,
           filled' = filled, report' = [report EXCEPT ![r] = n], report[r] = 0,
           n > 0 => posted[r], r \in Kalshi => n \in {0, filled[r]}
    PROVE  OP!OrderNext
  <1>1. Phase(r)' = "reported"
    BY DEF Phase
  <1>2. CASE posted[r]
    <2>1. OP!Report(r, n)
      BY <1>1, <1>2, PhaseIs, Mapped DEF OP!Report, TypeOK
    <2> QED BY <2>1 DEF OP!OrderNext
  <1>3. CASE ~posted[r]
    <2>1. report' = report
      BY <1>3 DEF TypeOK
    <2>2. OP!Refuse(r)
      BY <1>1, <1>3, <2>1, PhaseIs, Mapped DEF OP!Refuse
    <2> QED BY <2>2 DEF OP!OrderNext
  <1> QED BY <1>2, <1>3

\* The POST of an attempt: a submission when it is the first.
LEMMA Sends ==
    ASSUME TypeOK, Units = Nat, NEW r \in Req, Starts(r) \/ Gateway(r), NEW a, Post(r, a),
           pc[r] \notin {"done", "cancelled"}, pc'[r] = "sent",
           filled' = filled, report' = report
    PROVE  OP!OrderNext \/ UNCHANGED OP!orderVars
  <1>1. posted'[r] /\ Phase(r)' = "working"
    BY DEF Post, Phase, TypeOK
  <1>2. CASE posted[r]
    <2>1. posted'[r] = posted[r] /\ Phase(r)' = Phase(r)
      <3>1. posted' = posted
        BY <1>2, Zenon DEF Post, TypeOK
      <3> QED BY <1>1, <1>2, <3>1, PhaseIs
    <2> QED BY <2>1, Unseen
  <1>3. CASE ~posted[r]
    <2>1. OP!Submit(r, Size)
      BY <1>1, <1>3, PhaseIs, Mapped DEF OP!Submit
    <2>2. Size \in Units
      OBVIOUS
    <2> QED BY <2>1, <2>2 DEF OP!OrderNext
  <1> QED BY <1>2, <1>3

\* Contracts the venue fills for a request are a fill the caller may see.
LEMMA Fills ==
    ASSUME RInv, Units = Nat, NEW r \in Req, VenueStep(r), NEW n \in Nat, n > 0,
           filled' = [filled EXCEPT ![r] = @ + n], filled[r] + n <= Size, posted[r],
           r \in Kalshi => order[r] \in {"none", "resting"},
           UNCHANGED <<pc, posted, report>>
    PROVE  OP!OrderNext
  <1>0. TypeOK /\ ReqInv(r) /\ RefInv(r)
    BY DEF RInv, Inv
  <1>1. ~(r \in Kalshi /\ Phase(r) = "reported" /\ report[r] > 0)
    <2>1. Phase(r) = "reported" => pc[r] = "done"
      BY <1>0, PhaseIs DEF TypeOK
    <2> QED BY <1>0, <2>1 DEF ReqInv, KalshiInv, RefInv, Terminal
  <1>2. Phase(r)' = Phase(r) /\ Phase(r) # "idle"
    <2>1. Phase(r)' = Phase(r)
      BY DEF Phase
    <2> QED BY <2>1, PhaseIs
  <1>3. OP!Fill(r, n)
    <2>1. n % 1 = 0
      OBVIOUS
    <2>2. UNCHANGED [x \in Req |-> Phase(x)] /\ UNCHANGED [x \in Req |-> IF posted[x] THEN Size ELSE 0]
      BY <1>0, <1>2, Mapped
    <2> QED BY <1>0, <1>1, <1>2, <2>1, <2>2 DEF OP!Fill, OP!Settled, TypeOK
  <1> QED BY <1>3 DEF OP!OrderNext

\* A step of a request is a step of OrderPlacement or invisible.
LEMMA RequestRefines ==
    ASSUME RInv, Units = Nat, NEW r \in Req,
           Starts(r) \/ Gateway(r) \/ Cancel(r) \/ VenueStep(r)
    PROVE  OP!OrderNext \/ UNCHANGED OP!orderVars
  <1>0. Inv /\ TypeOK /\ ReqInv(r) /\ RefInv(r)
    BY DEF RInv, Inv
  <1>1. CASE KillSwitchHalts(r) \/ CircuitOpen(r)
    <2>1. /\ pc[r] \notin {"done", "cancelled"} /\ pc'[r] = "done"
          /\ UNCHANGED <<posted, filled, report>>
      BY <1>0, <1>1 DEF KillSwitchHalts, CircuitOpen, Halt, Attempts, TypeOK
    <2>2. report[r] = 0 /\ report' = [report EXCEPT ![r] = 0]
      BY <1>0, <2>1 DEF RefInv, TypeOK
    <2>3. Starts(r)
      BY <1>1 DEF Starts
    <2>4. 0 \in Nat /\ ~(0 > 0)
      OBVIOUS
    <2> QED BY <1>0, <2>1, <2>2, <2>3, <2>4, Ends
  <1>2. CASE Refused(r)
    <2>0. pc[r] \notin {"done", "cancelled"} /\ report[r] = 0
      BY <1>0, <1>2 DEF Refused, Attempts, RefInv
    <2>1. CASE ThisAttempt(r) = MaxRetries
      <3>1. /\ pc'[r] = "done" /\ report' = [report EXCEPT ![r] = 0]
            /\ UNCHANGED <<posted, filled>>
        BY <1>0, <1>2, <2>1 DEF Refused, Settle, TypeOK
      <3>2. Starts(r)
        BY <1>2 DEF Starts
      <3>3. 0 \in Nat /\ ~(0 > 0)
        OBVIOUS
      <3> QED BY <1>0, <2>0, <3>1, <3>2, <3>3, Ends
    <2>2. CASE ThisAttempt(r) # MaxRetries
      <3>1. /\ pc'[r] = "backoff"
            /\ UNCHANGED <<posted, filled, report>>
        BY <1>0, <1>2, <2>2 DEF Refused, Settle, TypeOK
      <3>2. Phase(r)' = Phase(r) /\ Starts(r)
        BY <1>2, <2>0, <3>1 DEF Phase, Starts
      <3> QED BY <1>0, <3>1, <3>2, Unseen
    <2> QED BY <2>1, <2>2
  <1>3. CASE Begin(r)
    <2>0. /\ pc[r] \notin {"done", "cancelled"} /\ Starts(r)
          /\ UNCHANGED <<filled, report>>
      BY <1>3 DEF Begin, Attempts, Starts
    <2>1. CASE pc' = [pc EXCEPT ![r] = "sent"] /\ Post(r, ThisAttempt(r))
      BY <1>0, <2>0, <2>1, Sends DEF TypeOK
    <2>2. CASE pc' = [pc EXCEPT ![r] = "placing"] /\ UNCHANGED netVars
      <3>1. pc'[r] = "placing" /\ posted' = posted
        BY <1>0, <2>2 DEF TypeOK
      <3>2. Phase(r)' = Phase(r)
        BY <2>0, <3>1 DEF Phase
      <3> QED BY <1>0, <2>0, <3>1, <3>2, Unseen
    <2> QED BY <1>3, <2>1, <2>2 DEF Begin
  <1>4. CASE Gateway(r)
    <2>1. CASE PMPost(r)
      <3>1. /\ pc[r] \notin {"done", "cancelled"} /\ pc'[r] = "sent" /\ Post(r, attempt[r])
            /\ UNCHANGED <<filled, report>>
        BY <1>0, <2>1 DEF PMPost, TypeOK
      <3> QED BY <1>0, <1>4, <3>1, Sends
    <2>2. ASSUME pc[r] = "sent", NEW p \in {"polling", "scanning"}, ToPc(r, p)
          PROVE  UNCHANGED OP!orderVars
      <3>1. pc'[r] = p /\ UNCHANGED <<posted, filled, report>>
        BY <1>0, <2>2 DEF ToPc, TypeOK
      <3>2. Phase(r)' = Phase(r)
        BY <2>2, <3>1 DEF Phase
      <3> QED BY <1>0, <1>4, <3>1, <3>2, Unseen
    <2>3. CASE Concludes(r)
      <3>1. PICK n \in Nat, st \in Status, y \in BOOLEAN :
              Conclude(r, st, n, y) /\ (r \in Kalshi => n \in {0, filled[r]})
        BY <2>3 DEF Concludes
      <3>2. pc[r] \notin {"done", "cancelled"} /\ posted[r] /\ report[r] = 0
        BY <1>0, <2>3 DEF Concludes, Awaiting, RefInv
      <3>3. UNCHANGED <<posted, filled>>
        BY <1>0, <3>1, ConcludesEffect
      <3>4. CASE pc' = [pc EXCEPT ![r] = "done"] /\ report' = [report EXCEPT ![r] = n]
        <4>1. pc'[r] = "done"
          BY <1>0, <3>4 DEF TypeOK
        <4> QED BY <1>0, <1>4, <3>1, <3>2, <3>3, <3>4, <4>1, Ends
      <3>5. CASE pc' = [pc EXCEPT ![r] = "backoff"] /\ report' = report
        <4>1. pc'[r] = "backoff"
          BY <1>0, <3>5 DEF TypeOK
        <4>2. Phase(r)' = Phase(r)
          BY <3>2, <3>3, <4>1 DEF Phase
        <4> QED BY <1>0, <1>4, <3>3, <3>5, <4>2, Unseen
      <3> QED BY <1>0, <3>1, <3>4, <3>5, ConcludesEffect
    <2> QED BY <1>0, <1>4, <2>1, <2>2, <2>3, GatewayCases
  <1>5. CASE Cancel(r)
    <2>1. /\ pc[r] \notin {"done", "cancelled"} /\ pc'[r] = "cancelled"
          /\ UNCHANGED <<posted, filled, report>>
      BY <1>0, <1>5 DEF Cancel, ToPc, Active, TypeOK
    <2>2. Phase(r)' = "abandoned" /\ Phase(r) \in {"idle", "working"}
      BY <2>1, PhaseIs DEF Phase
    <2>3. OP!Abandon(r)
      BY <1>0, <1>5, <2>1, <2>2, Mapped DEF OP!Abandon
    <2> QED BY <2>3 DEF OP!OrderNext
  <1>6. CASE VenueStep(r)
    <2>1. UNCHANGED <<pc, posted, report>> /\ Phase(r)' = Phase(r)
      <3>1. UNCHANGED <<pc, posted, report>>
        BY <1>6 DEF VenueStep, VenueRejects, KalshiDedups, KalshiAccepts, PMMatches,
              KalshiFills, KalshiExpires, Arrives
      <3> QED BY <3>1 DEF Phase
    <2>2. ASSUME filled' = filled PROVE UNCHANGED OP!orderVars
      BY <1>0, <1>6, <2>1, <2>2, Unseen
    <2>3. ASSUME NEW n \in Nat, filled' = [filled EXCEPT ![r] = @ + n], filled[r] + n <= Size,
                 posted[r], r \in Kalshi => order[r] \in {"none", "resting"}
          PROVE  OP!OrderNext \/ UNCHANGED OP!orderVars
      <3>1. CASE n = 0
        <4>1. filled' = filled
          BY <1>0, <2>3, <3>1 DEF TypeOK
        <4> QED BY <2>2, <4>1
      <3>2. CASE n > 0
        BY <1>6, <2>1, <2>3, <3>2, Fills
      <3> QED BY <3>1, <3>2
    <2>4. ASSUME NEW a, VenueRejects(r, a) \/ KalshiDedups(r, a) PROVE filled' = filled
      BY <2>4 DEF VenueRejects, KalshiDedups
    <2>5. ASSUME NEW a, NEW n \in 0..Size, KalshiAccepts(r, a, n)
          PROVE  OP!OrderNext \/ UNCHANGED OP!orderVars
      <3>1. /\ posted[r] /\ filled[r] = 0 /\ order[r] = "none" /\ n \in Nat
            /\ filled[r] + n <= Size
        BY <1>0, <2>5 DEF KalshiAccepts, Arrives, RefInv, ReqInv, KalshiInv
      <3>2. filled' = [filled EXCEPT ![r] = @ + n]
        BY <1>0, <2>5, <3>1 DEF KalshiAccepts, TypeOK
      <3> QED BY <2>3, <3>1, <3>2
    <2>6. ASSUME NEW a, NEW n \in PMFill, PMMatches(r, a, n)
          PROVE  OP!OrderNext \/ UNCHANGED OP!orderVars
      <3>0. n \in 0..Size
        OBVIOUS
      <3>1. posted[r] /\ filled[r] = 0 /\ r \notin Kalshi
        BY <1>0, <2>6 DEF PMMatches, Arrives, RefInv, ReqInv, PMInv
      <3>2. filled' = [filled EXCEPT ![r] = @ + n]
        BY <2>6 DEF PMMatches
      <3>3. n \in Nat /\ filled[r] + n <= Size
        BY <3>0, <3>1
      <3> QED BY <2>3, <3>1, <3>2, <3>3
    <2>7. ASSUME KalshiFills(r)
          PROVE  OP!OrderNext \/ UNCHANGED OP!orderVars
      <3>1. posted[r] /\ order[r] = "resting" /\ filled[r] + 1 <= Size
        BY <1>0, <2>7 DEF KalshiFills, RefInv, ReqInv, KalshiInv, PMInv, TypeOK
      <3>2. filled' = [filled EXCEPT ![r] = @ + 1]
        BY <2>7 DEF KalshiFills
      <3> QED BY <2>3, <3>1, <3>2
    <2>8. ASSUME KalshiExpires(r) PROVE filled' = filled
      BY <2>8 DEF KalshiExpires
    <2> QED BY <1>6, <2>2, <2>4, <2>5, <2>6, <2>7, <2>8 DEF VenueStep
  <1> QED BY <1>1, <1>2, <1>3, <1>4, <1>5, <1>6 DEF Starts

\* Every step of the engine is a step of OrderPlacement or invisible.
LEMMA StepRefines ==
    ASSUME RInv, Units = Nat, [Next]_vars
    PROVE  OP!OrderNext \/ UNCHANGED OP!orderVars
  <1>1. ASSUME Operator \/ Tick \/ UNCHANGED vars PROVE UNCHANGED OP!orderVars
    BY <1>1, IdleSteps DEF OP!orderVars, Phase
  <1> QED BY <1>1, RequestRefines DEF Next

\* The initial state of the engine is one of OrderPlacement.
LEMMA InitRefines == Init => RInv /\ OP!OrderInit
  <1>1. Init => \A r \in Req : RefInv(r)
    BY DEF Init, RefInv, Awaiting
  <1>2. Init => OP!OrderInit
    BY DEF Init, OP!OrderInit, Phase
  <1> QED BY <1>1, <1>2, InvInit DEF RInv

\* Through every retry, timeout, poll, scan, halt and cancellation the engine
\* is, to its caller, an order that is submitted once, filled within its size
\* and reported once, exactly and finally when Kalshi reports contracts
\* (ExecutionEngine.execute over both gateways' place).  Quantities are any
\* naturals.
THEOREM EngineImplementsOrderPlacement ==
    ASSUME Units = Nat
    PROVE  Spec => ImplementsOrderPlacement
  <1>1. RInv /\ [Next]_vars => RInv'
    BY RInvStep
  <1>2. RInv /\ [Next]_vars => [OP!OrderNext]_(OP!orderVars)
    BY StepRefines
  <1> QED BY <1>1, <1>2, InitRefines, PTL DEF Spec, ImplementsOrderPlacement, OP!OrderSpec
=============================================================================
