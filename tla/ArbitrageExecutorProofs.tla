----------------------- MODULE ArbitrageExecutorProofs -----------------------
(***************************************************************************)
(* Proofs about ArbitrageExecutor for any number of concurrent trades, any *)
(* volume and any quantities.                                              *)
(***************************************************************************)
EXTENDS ArbitrageExecutor, FiniteSetTheorems, TLAPS

USE ExecutorAssumption, OrderAssumption
    DEF ExecutorAssumption, OrderAssumption, orderVars, tradeVars, vars

\* The types that do not depend on counting the trades in flight.
BaseTypes ==
    /\ OrderTypeOK
    /\ pc \in [Opp -> {"new", "balance", "legs", "hedging", "done"}]
    /\ inFlight \in Int
    /\ halted \in BOOLEAN /\ stale \in BOOLEAN
    /\ loss \in Int /\ lostToday \in Int /\ lostEarly \in Int
    /\ exposed \in [Opp -> Int]
    /\ stranded \subseteq Opp

-----------------------------------------------------------------------------
(***************************************************************************)
(* Types.                                                                  *)
(***************************************************************************)

\* The orders of a trade are orders.
LEMMA OrdersOf ==
    ASSUME NEW o \in Opp
    PROVE  /\ \A l \in Leg : <<o, l>> \in Order /\ <<o, Unwind(l)>> \in Order
           /\ OverLeg(o) \in Leg /\ UnwindOrder(o) \in Order
  BY DEF Leg, Role, Unwind, OverLeg, UnwindOrder

\* Every step of an order keeps the types of the orders.
LEMMA OrderTypes ==
    ASSUME OrderTypeOK, NEW x \in Order, NEW n \in Nat,
           Submit(x, n) \/ Refuse(x) \/ Fill(x, n) \/ Report(x, n)
    PROVE  OrderTypeOK'
  BY DEF OrderTypeOK, Submit, Refuse, Fill, Report

\* The quantities the executor computes are natural numbers.
LEMMA QtyTypes ==
    ASSUME OrderTypeOK, NEW o \in Opp
    PROVE  /\ Told(o, "kalshi") \in Nat /\ Told(o, "polymarket") \in Nat
           /\ Imbalance(o) \in Int /\ Qty(o) \in Nat /\ Residual(o) \in Int
  <1>1. Told(o, "kalshi") \in Nat /\ Told(o, "polymarket") \in Nat
    BY OrdersOf DEF OrderTypeOK, Told, Leg
  <1>2. report[UnwindOrder(o)] \in Nat
    BY OrdersOf DEF OrderTypeOK
  <1>3. Imbalance(o) \in Int
    BY <1>1 DEF Imbalance
  <1>4. Qty(o) \in Nat
    BY <1>3 DEF Qty, Abs
  <1> QED BY <1>1, <1>2, <1>3, <1>4 DEF Residual

\* An unwind never asks for more than the imbalance.
LEMMA UnwindSizeBound ==
    ASSUME OrderTypeOK, NEW o \in Opp
    PROVE  UnwindSize(o) \in 0..Qty(o)
  <1>1. Qty(o) \in Nat
    BY QtyTypes
  <1>2. Qty(o) % Contract \in 0..Qty(o)
    BY <1>1, Z3
  <1> QED BY <1>1, <1>2 DEF UnwindSize

\* What AfterLegs and Unwound book and record keeps the types.
LEMMA BookTypes ==
    ASSUME BaseTypes, NEW o \in Opp
    PROVE  /\ Book(o) => loss' \in Int /\ lostToday' \in Int /\ lostEarly' \in Int
           /\ Unwound(o) => /\ halted' \in BOOLEAN /\ stranded' \subseteq Opp
                            /\ exposed' \in [Opp -> Int]
           /\ AfterLegs(o) =>
                 /\ pc' \in [Opp -> {"new", "balance", "legs", "hedging", "done"}]
                 /\ inFlight' \in Int
                 /\ loss' \in Int /\ lostToday' \in Int /\ lostEarly' \in Int
                 /\ exposed' \in [Opp -> Int]
                 /\ halted' = halted /\ stale' = stale /\ stranded' = stranded
  <1>1. Qty(o) \in Nat /\ Residual(o) \in Int
    BY QtyTypes DEF BaseTypes
  <1>2. Book(o) => loss' \in Int /\ lostToday' \in Int /\ lostEarly' \in Int
    BY DEF Book, BaseTypes
  <1>3. Unwound(o) => /\ halted' \in BOOLEAN /\ stranded' \subseteq Opp
                      /\ exposed' \in [Opp -> Int]
    BY <1>1 DEF Unwound, BaseTypes
  <1>4. AfterLegs(o) =>
           /\ pc' \in [Opp -> {"new", "balance", "legs", "hedging", "done"}]
           /\ inFlight' \in Int
           /\ loss' \in Int /\ lostToday' \in Int /\ lostEarly' \in Int
           /\ exposed' \in [Opp -> Int]
           /\ halted' = halted /\ stale' = stale /\ stranded' = stranded
    BY <1>1, <1>2 DEF AfterLegs, BaseTypes
  <1> QED BY <1>2, <1>3, <1>4

\* Cancelling the pending legs keeps the types of the orders.
LEMMA CancelTypes ==
    ASSUME OrderTypeOK, NEW o \in Opp, CancelPending(o)
    PROVE  OrderTypeOK'
  BY DEF OrderTypeOK, CancelPending

\* Resetting the daily loss keeps its types.
LEMMA ResetTypes ==
    ASSUME BaseTypes, ResetLoss
    PROVE  loss' \in Int /\ stale' = FALSE
  <1>1. loss \in Int /\ 0 \in Int
    BY DEF BaseTypes
  <1>2. LossNow \in Int
    BY <1>1, Zenon DEF LossNow
  <1> QED BY <1>2 DEF ResetLoss

\* Every step of a trade keeps the types.
LEMMA TradeTypes ==
    ASSUME BaseTypes, NEW o \in Opp, TradeStep(o)
    PROVE  BaseTypes'
  <1>1. CASE Rejected(o)
    <2>1. loss' \in Int /\ stale' \in BOOLEAN
      <3>1. CASE UNCHANGED <<loss, stale>>
        BY <3>1 DEF BaseTypes
      <3>2. CASE ResetLoss
        BY <3>2, ResetTypes
      <3> QED BY <1>1, <3>1, <3>2 DEF Rejected
    <2>2. pc' \in [Opp -> {"new", "balance", "legs", "hedging", "done"}]
      BY <1>1 DEF Rejected, BaseTypes
    <2> QED BY <1>1, <2>1, <2>2, Zenon DEF Rejected, BaseTypes, OrderTypeOK
  <1>2. CASE Preflight(o)
    <2>1. loss' \in Int /\ stale' \in BOOLEAN
      BY <1>2, ResetTypes DEF Preflight
    <2>2. pc' \in [Opp -> {"new", "balance", "legs", "hedging", "done"}]
      BY <1>2 DEF Preflight, BaseTypes
    <2> QED BY <1>2, <2>1, <2>2, Zenon DEF Preflight, BaseTypes, OrderTypeOK
  <1>3. CASE InsufficientBalance(o)
    BY <1>3 DEF InsufficientBalance, BaseTypes, OrderTypeOK
  <1>4. CASE Launch(o)
    BY <1>4 DEF Launch, BaseTypes, OrderTypeOK
  <1>5. CASE LegsDone(o)
    BY <1>5, BookTypes DEF LegsDone, BaseTypes, OrderTypeOK
  <1>6. CASE Timeout(o)
    BY <1>6, BookTypes, CancelTypes DEF Timeout, BaseTypes
  <1>7. CASE UnwindPosts(o)
    <2>1. UnwindSize(o) \in Nat
      BY UnwindSizeBound, QtyTypes DEF BaseTypes
    <2>2. OrderTypeOK'
      BY <1>7, <2>1, OrderTypes, OrdersOf DEF UnwindPosts, BaseTypes
    <2> QED BY <1>7, <2>2 DEF UnwindPosts, BaseTypes
  <1>8. CASE UnwindRefused(o)
    <2>1. OrderTypeOK'
      BY <1>8, OrderTypes, OrdersOf DEF UnwindRefused, BaseTypes
    <2> QED BY <1>8, <2>1 DEF UnwindRefused, BaseTypes
  <1>9. CASE HedgeDone(o)
    BY <1>9, BookTypes DEF HedgeDone, BaseTypes, OrderTypeOK
  <1> QED BY <1>1, <1>2, <1>3, <1>4, <1>5, <1>6, <1>7, <1>8, <1>9 DEF TradeStep

\* Every step of a leg's task keeps the types.
LEMMA LegTypes ==
    ASSUME BaseTypes, NEW o \in Opp, NEW l \in Leg, LegStep(o, l)
    PROVE  BaseTypes'
  <1>1. <<o, l>> \in Order /\ Volume \in Nat
    BY OrdersOf
  <1>2. OrderTypeOK'
    BY <1>1, OrderTypes DEF LegStep, LegPosts, LegRefused, BreakerTrips, BaseTypes
  <1> QED BY <1>2 DEF LegStep, LegPosts, LegRefused, BreakerTrips, BaseTypes

\* Every step keeps the types.
LEMMA TypeStep ==
    ASSUME BaseTypes, [Next]_vars
    PROVE  BaseTypes'
  <1>1. ASSUME NEW x \in Order, NEW n \in Units, OrderFills(x, n) \/ OrderReports(x, n)
        PROVE  BaseTypes'
    <2>1. OrderTypeOK'
      BY <1>1, OrderTypes DEF OrderFills, OrderReports, BaseTypes
    <2> QED BY <1>1, <2>1 DEF OrderFills, OrderReports, BaseTypes
  <1>2. CASE OperatorHalts \/ OperatorResumes \/ Midnight
    <2>1. CASE OperatorHalts \/ OperatorResumes
      BY <2>1, Zenon DEF OperatorHalts, OperatorResumes, BaseTypes, OrderTypeOK
    <2>2. CASE Midnight
      <3>1. lostToday' \in Int /\ lostEarly' \in Int
        BY <2>2 DEF Midnight
      <3> QED BY <2>2, <3>1, Zenon DEF Midnight, BaseTypes, OrderTypeOK
    <2> QED BY <1>2, <2>1, <2>2
  <1>3. CASE UNCHANGED vars
    BY <1>3 DEF BaseTypes, OrderTypeOK
  <1> QED BY <1>1, <1>2, <1>3, TradeTypes, LegTypes DEF Next

-----------------------------------------------------------------------------
(***************************************************************************)
(* The in-flight count and the halt.                                       *)
(***************************************************************************)
InLegs == {o \in Opp : pc[o] = "legs"}

\* The trades with legs out are finitely many, and no more than the trades.
LEMMA InLegsFinite ==
    IsFiniteSet(InLegs) /\ Cardinality(InLegs) \in Nat /\ Cardinality(InLegs) <= Cardinality(Opp)
  <1>1. InLegs \subseteq Opp
    BY DEF InLegs
  <1> QED BY <1>1, FS_Subset, FS_CardinalityType

\* One trade launching adds one, one trade's legs being over removes one.
LEMMA LegsCount ==
    ASSUME BaseTypes, NEW o \in Opp, NEW v \in {"new", "balance", "legs", "hedging", "done"},
           pc' = [pc EXCEPT ![o] = v]
    PROVE  /\ pc[o] # "legs" /\ v = "legs" => Cardinality(InLegs') = Cardinality(InLegs) + 1
           /\ pc[o] = "legs" /\ v # "legs" => Cardinality(InLegs') = Cardinality(InLegs) - 1
           /\ pc[o] # "legs" /\ v # "legs" => InLegs' = InLegs
  <1>1. ASSUME pc[o] # "legs", v = "legs"
        PROVE  InLegs' = InLegs \cup {o} /\ o \notin InLegs
    BY <1>1 DEF InLegs, BaseTypes
  <1>2. ASSUME pc[o] = "legs", v # "legs"
        PROVE  InLegs' = InLegs \ {o} /\ o \in InLegs
    BY <1>2 DEF InLegs, BaseTypes
  <1>3. ASSUME pc[o] # "legs", v # "legs"
        PROVE  InLegs' = InLegs
    BY <1>3 DEF InLegs, BaseTypes
  <1>4. IsFiniteSet(InLegs) /\ Cardinality(InLegs) \in Nat
    BY InLegsFinite
  <1>5. o \notin InLegs => Cardinality(InLegs \cup {o}) = Cardinality(InLegs) + 1
    BY <1>4, FS_AddElement
  <1>6. o \in InLegs => Cardinality(InLegs \ {o}) = Cardinality(InLegs) - 1
    BY <1>4, FS_RemoveElement
  <1> QED BY <1>1, <1>2, <1>3, <1>5, <1>6

\* The slot counter stays equal to the number of trades with legs out.
LEMMA CountStep ==
    ASSUME BaseTypes, InFlightExact, [Next]_vars
    PROVE  InFlightExact'
  <1>0. inFlight = Cardinality(InLegs) /\ Cardinality(InLegs) \in Nat
    BY InLegsFinite DEF InFlightExact, InLegs
  <1>1. SUFFICES inFlight' = Cardinality(InLegs')
    BY DEF InFlightExact, InLegs
  <1>2. ASSUME UNCHANGED <<pc, inFlight>>
        PROVE  inFlight' = Cardinality(InLegs')
    <2>1. InLegs' = InLegs
      BY <1>2 DEF InLegs
    <2> QED BY <1>0, <1>2, <2>1
  <1>3. ASSUME NEW o \in Opp, TradeStep(o)
        PROVE  inFlight' = Cardinality(InLegs')
    <2>1. CASE Rejected(o) \/ Preflight(o) \/ InsufficientBalance(o) \/ HedgeDone(o)
      <3>1. \E v \in {"balance", "done"} : pc' = [pc EXCEPT ![o] = v]
        BY <2>1 DEF Rejected, Preflight, InsufficientBalance, HedgeDone
      <3>2. pc[o] # "legs" /\ inFlight' = inFlight
        BY <2>1 DEF Rejected, Preflight, InsufficientBalance, HedgeDone
      <3> QED BY <3>1, <3>2, <1>0, LegsCount
    <2>2. CASE Launch(o)
      BY <2>2, <1>0, LegsCount DEF Launch
    <2>3. CASE LegsDone(o) \/ Timeout(o)
      <3>1. pc[o] = "legs" /\ inFlight' = inFlight - 1
        BY <2>3 DEF LegsDone, Timeout, AfterLegs
      <3>2. \E v \in {"hedging", "done"} : pc' = [pc EXCEPT ![o] = v]
        BY <2>3 DEF LegsDone, Timeout, AfterLegs
      <3> QED BY <3>1, <3>2, <1>0, LegsCount
    <2>4. CASE UnwindPosts(o) \/ UnwindRefused(o)
      BY <2>4, <1>2 DEF UnwindPosts, UnwindRefused
    <2> QED BY <1>3, <2>1, <2>2, <2>3, <2>4 DEF TradeStep
  <1>4. ASSUME NEW o \in Opp, NEW l \in Leg, LegStep(o, l)
        PROVE  inFlight' = Cardinality(InLegs')
    BY <1>2, <1>4 DEF LegStep, LegPosts, LegRefused, BreakerTrips
  <1>5. ASSUME NEW x \in Order, NEW n \in Units, OrderFills(x, n) \/ OrderReports(x, n)
        PROVE  inFlight' = Cardinality(InLegs')
    BY <1>2, <1>5 DEF OrderFills, OrderReports
  <1>6. CASE OperatorHalts \/ OperatorResumes \/ Midnight \/ UNCHANGED vars
    BY <1>2, <1>6 DEF OperatorHalts, OperatorResumes, Midnight
  <1> QED BY <1>3, <1>4, <1>5, <1>6 DEF Next

\* A stranded position implies a halt.
StrandedHalts == stranded # {} => halted

\* Only the operator's resume lifts the halt, and it forgets the stranded.
LEMMA StrandedStep ==
    ASSUME BaseTypes, StrandedHalts, [Next]_vars
    PROVE  StrandedHalts'
  <1>1. ASSUME NEW o \in Opp, TradeStep(o)
        PROVE  StrandedHalts'
    <2>1. CASE HedgeDone(o)
      BY <1>1, <2>1, Zenon DEF HedgeDone, Unwound, StrandedHalts
    <2>2. CASE LegsDone(o) \/ Timeout(o)
      BY <2>2 DEF LegsDone, Timeout, AfterLegs, StrandedHalts
    <2>3. CASE Rejected(o) \/ Preflight(o) \/ InsufficientBalance(o) \/ Launch(o)
      BY <2>3 DEF Rejected, Preflight, InsufficientBalance, Launch, StrandedHalts
    <2>4. CASE UnwindPosts(o) \/ UnwindRefused(o)
      BY <2>4 DEF UnwindPosts, UnwindRefused, StrandedHalts
    <2> QED BY <1>1, <2>1, <2>2, <2>3, <2>4 DEF TradeStep
  <1>2. ASSUME NEW o \in Opp, NEW l \in Leg, LegStep(o, l)
        PROVE  StrandedHalts'
    BY <1>2 DEF LegStep, LegPosts, LegRefused, BreakerTrips, StrandedHalts
  <1>3. ASSUME NEW x \in Order, NEW n \in Units, OrderFills(x, n) \/ OrderReports(x, n)
        PROVE  StrandedHalts'
    BY <1>3 DEF OrderFills, OrderReports, StrandedHalts
  <1>4. CASE OperatorHalts \/ OperatorResumes \/ Midnight \/ UNCHANGED vars
    BY <1>4 DEF OperatorHalts, OperatorResumes, Midnight, StrandedHalts
  <1> QED BY <1>1, <1>2, <1>3, <1>4 DEF Next

-----------------------------------------------------------------------------
\* What the counting and halting theorems need of a state.
CountInv == BaseTypes /\ InFlightExact /\ StrandedHalts

\* No trade has its legs out at the start.
LEMMA CountInit ==
    ASSUME Init
    PROVE  CountInv
  <1>1. BaseTypes
    <2>1. OrderTypeOK
      BY DEF Init, OrderInit, OrderTypeOK
    <2>2. /\ inFlight \in Int /\ loss \in Int /\ lostToday \in Int /\ lostEarly \in Int
          /\ exposed \in [Opp -> Int]
          /\ pc \in [Opp -> {"new", "balance", "legs", "hedging", "done"}]
      BY DEF Init
    <2>3. halted \in BOOLEAN /\ stale \in BOOLEAN /\ stranded \subseteq Opp
      BY Zenon DEF Init
    <2> QED BY <2>1, <2>2, <2>3 DEF BaseTypes
  <1>2. InLegs = {}
    BY DEF Init, InLegs
  <1>3. inFlight = Cardinality(InLegs)
    BY <1>2, FS_EmptySet DEF Init
  <1> QED BY <1>1, <1>3 DEF Init, CountInv, InFlightExact, InLegs, StrandedHalts

\* The conjunction of types, the slot count and the halt is inductive.
LEMMA CountInvariant == Spec => []CountInv
  <1>1. Init => CountInv
    BY CountInit
  <1>2. CountInv /\ [Next]_vars => CountInv'
    BY TypeStep, CountStep, StrandedStep DEF CountInv
  <1> QED BY <1>1, <1>2, PTL DEF Spec

\* The executor's state has its types in every behaviour; in particular the
\* in-flight counter never goes below zero or above the number of trades.
THEOREM TypeCorrect == Spec => []TypeOK
  <1>1. CountInv => TypeOK
    <2> SUFFICES ASSUME CountInv PROVE TypeOK
      OBVIOUS
    <2>1. inFlight = Cardinality(InLegs)
      BY DEF CountInv, InFlightExact, InLegs
    <2>2. Cardinality(Opp) \in Nat
      BY FS_CardinalityType
    <2>3. inFlight \in 0..Cardinality(Opp)
      BY <2>1, <2>2, InLegsFinite
    <2> QED BY <2>3 DEF CountInv, BaseTypes, TypeOK
  <1> QED BY <1>1, CountInvariant, PTL

\* However many trades run at once, the in-flight counter is the number of
\* trades with legs out (_run_arbitrage's try/finally).
THEOREM InFlightCounted == Spec => []InFlightExact
  <1>1. CountInv => InFlightExact
    BY DEF CountInv
  <1> QED BY <1>1, CountInvariant, PTL

\* While a failed unwind is unresolved no trade posts a leg (_hedge trips the
\* kill switch and execute() asks it last, when the leg's task starts).
THEOREM StrandedStops == Spec => StrandedStopsTrading
  <1> DEFINE Quiet ==
        \A o \in Opp, l \in Leg :
            phase[<<o, l>>] = "idle" /\ phase'[<<o, l>>] = "working" => stranded = {}
  <1>1. CountInv /\ [Next]_vars => [Quiet]_vars
    <2> SUFFICES ASSUME CountInv, Next,
                        NEW o \in Opp, NEW l \in Leg,
                        phase[<<o, l>>] = "idle", phase'[<<o, l>>] = "working"
                 PROVE  stranded = {}
      OBVIOUS
    <2>0. <<o, l>> \in Order /\ phase \in [Order -> {"idle", "working", "reported", "abandoned"}]
      BY OrdersOf DEF CountInv, BaseTypes, OrderTypeOK
    <2>1. ASSUME NEW p \in Opp, TradeStep(p)
          PROVE  FALSE
      <3>1. CASE UnwindPosts(p) \/ UnwindRefused(p)
        <4>1. UnwindOrder(p) # <<o, l>>
          BY DEF UnwindOrder, Unwind, OverLeg, Leg
        <4>2. phase'[<<o, l>>] = phase[<<o, l>>]
          BY <2>0, <3>1, <4>1 DEF UnwindPosts, UnwindRefused, Submit, Refuse
        <4> QED BY <4>2
      <3>2. CASE Timeout(p)
        BY <2>0, <3>2 DEF Timeout, CancelPending
      <3>3. CASE ~(Timeout(p) \/ UnwindPosts(p) \/ UnwindRefused(p))
        <4>1. UNCHANGED orderVars
          BY <2>1, <3>3 DEF TradeStep, Rejected, Preflight, InsufficientBalance, Launch,
                            LegsDone, HedgeDone
        <4> QED BY <4>1
      <3> QED BY <3>1, <3>2, <3>3
    <2>2. ASSUME NEW p \in Opp, NEW m \in Leg, LegStep(p, m)
          PROVE  ~halted
      <3>1. CASE LegPosts(p, m)
        BY <3>1 DEF LegPosts
      <3>2. CASE LegRefused(p, m) \/ BreakerTrips(p, m)
        <4>1. <<p, m>> \in Order
          BY OrdersOf
        <4>2. \E v \in {"reported"} : phase' = [phase EXCEPT ![<<p, m>>] = v]
          BY <3>2 DEF LegRefused, BreakerTrips, Refuse, Report
        <4> QED BY <2>0, <4>1, <4>2
      <3> QED BY <2>2, <3>1, <3>2 DEF LegStep
    <2>3. ASSUME NEW x \in Order, NEW n \in Units, OrderFills(x, n) \/ OrderReports(x, n)
          PROVE  FALSE
      BY <2>0, <2>3 DEF OrderFills, OrderReports, Fill, Report
    <2>4. CASE OperatorHalts \/ OperatorResumes \/ Midnight
      BY <2>4 DEF OperatorHalts, OperatorResumes, Midnight
    <2> QED BY <2>1, <2>2, <2>3, <2>4 DEF Next, CountInv, StrandedHalts
  <1> QED BY <1>1, CountInvariant, PTL DEF Spec, StrandedStopsTrading

-----------------------------------------------------------------------------
(***************************************************************************)
(* Hedging: HedgeInv is inductive.                                         *)
(***************************************************************************)
TradeInv(o) == LegsInv(o) /\ UnwindInv(o) /\ RecordInv(o)

\* Every step of an order keeps what holds of every order.
LEMMA OrderInvSteps ==
    ASSUME OrderTypeOK, \A y \in Order : OrderInv(y), NEW x \in Order, NEW n \in Nat,
           Submit(x, n) \/ Refuse(x) \/ Fill(x, n) \/ Report(x, n)
    PROVE  \A y \in Order : OrderInv(y)'
  BY DEF OrderTypeOK, OrderInv, Submit, Refuse, Fill, Report

\* So does every step of the executor.
LEMMA OrderInvNext ==
    ASSUME BaseTypes, \A y \in Order : OrderInv(y), [Next]_vars
    PROVE  \A y \in Order : OrderInv(y)'
  <1>0. OrderTypeOK /\ 0 \in Nat
    BY DEF BaseTypes
  <1>1. ASSUME UNCHANGED orderVars
        PROVE  \A y \in Order : OrderInv(y)'
    BY <1>1 DEF OrderInv
  <1>2. ASSUME NEW o \in Opp, TradeStep(o)
        PROVE  \A y \in Order : OrderInv(y)'
    <2>1. CASE UnwindPosts(o)
      <3>1. UnwindSize(o) \in Nat /\ UnwindOrder(o) \in Order
        BY <1>0, UnwindSizeBound, QtyTypes, OrdersOf
      <3> QED BY <1>0, <2>1, <3>1, OrderInvSteps DEF UnwindPosts
    <2>2. CASE UnwindRefused(o)
      BY <1>0, <2>2, OrdersOf, OrderInvSteps DEF UnwindRefused
    <2>3. CASE Timeout(o)
      BY <1>0, <2>3 DEF Timeout, CancelPending, OrderInv, OrderTypeOK
    <2>4. CASE ~(Timeout(o) \/ UnwindPosts(o) \/ UnwindRefused(o))
      BY <1>1, <1>2, <2>4 DEF TradeStep, Rejected, Preflight, InsufficientBalance, Launch,
                              LegsDone, HedgeDone
    <2> QED BY <2>1, <2>2, <2>3, <2>4
  <1>3. ASSUME NEW o \in Opp, NEW l \in Leg, LegStep(o, l)
        PROVE  \A y \in Order : OrderInv(y)'
    <2>1. <<o, l>> \in Order /\ Volume \in Nat
      BY OrdersOf
    <2> QED BY <1>0, <1>3, <2>1, OrderInvSteps DEF LegStep, LegPosts, LegRefused, BreakerTrips
  <1>4. ASSUME NEW x \in Order, NEW n \in Units, OrderFills(x, n) \/ OrderReports(x, n)
        PROVE  \A y \in Order : OrderInv(y)'
    BY <1>0, <1>4, OrderInvSteps DEF OrderFills, OrderReports
  <1>5. CASE OperatorHalts \/ OperatorResumes \/ Midnight \/ UNCHANGED vars
    BY <1>1, <1>5 DEF OperatorHalts, OperatorResumes, Midnight
  <1> QED BY <1>2, <1>3, <1>4, <1>5 DEF Next

\* What the invariant says of a trade depends on the trade's own state.
LEMMA Frame ==
    ASSUME NEW o \in Opp, TradeInv(o),
           pc'[o] = pc[o], exposed'[o] = exposed[o],
           \A r \in Role : /\ phase'[<<o, r>>] = phase[<<o, r>>]
                           /\ size'[<<o, r>>] = size[<<o, r>>]
                           /\ report'[<<o, r>>] = report[<<o, r>>]
    PROVE  TradeInv(o)'
  <1>1. \A l \in Leg : l \in Role /\ Unwind(l) \in Role
    BY DEF Role
  <1>2. OverLeg(o) \in Leg /\ "kalshi" \in Leg /\ "polymarket" \in Leg
    BY DEF OverLeg, Leg
  <1>3. Imbalance(o)' = Imbalance(o)
    BY <1>1, <1>2 DEF Imbalance, Told
  <1>4. Qty(o)' = Qty(o) /\ OverLeg(o)' = OverLeg(o)
    BY <1>3 DEF Qty, OverLeg
  <1>5. UnwindOrder(o)' = UnwindOrder(o)
    BY <1>4 DEF UnwindOrder
  <1>6. /\ phase'[UnwindOrder(o)] = phase[UnwindOrder(o)]
        /\ size'[UnwindOrder(o)] = size[UnwindOrder(o)]
        /\ report'[UnwindOrder(o)] = report[UnwindOrder(o)]
    BY <1>1, <1>2 DEF UnwindOrder
  <1>7. Residual(o)' = Residual(o)
    BY <1>4, <1>5, <1>6 DEF Residual
  <1>8. LegsInv(o)'
    BY <1>1 DEF TradeInv, LegsInv
  <1>9. UnwindInv(o)'
    BY <1>1, <1>4, <1>5, <1>6 DEF TradeInv, UnwindInv
  <1>10. RecordInv(o)'
    BY <1>4, <1>5, <1>6, <1>7 DEF TradeInv, RecordInv
  <1> QED BY <1>8, <1>9, <1>10 DEF TradeInv

\* The imbalance and the order that unwinds it depend on the legs' reports.
LEMMA SameReports ==
    ASSUME NEW o \in Opp, \A l \in Leg : report'[<<o, l>>] = report[<<o, l>>]
    PROVE  Qty(o)' = Qty(o) /\ OverLeg(o)' = OverLeg(o) /\ UnwindOrder(o)' = UnwindOrder(o)
  <1>1. Imbalance(o)' = Imbalance(o)
    BY DEF Imbalance, Told, Leg
  <1> QED BY <1>1 DEF Qty, OverLeg, UnwindOrder

\* Before the hedge the trade has no unwind.
LEMMA NoUnwindYet ==
    ASSUME NEW o \in Opp, \A y \in Order : OrderInv(y), UnwindInv(o), pc[o] \notin {"hedging", "done"}
    PROVE  /\ \A l \in Leg : phase[<<o, Unwind(l)>>] = "idle"
           /\ phase[UnwindOrder(o)] = "idle"
           /\ size[UnwindOrder(o)] = 0 /\ report[UnwindOrder(o)] = 0
  <1>1. \A l \in Leg : phase[<<o, Unwind(l)>>] = "idle"
    BY DEF UnwindInv
  <1>2. phase[UnwindOrder(o)] = "idle" /\ UnwindOrder(o) \in Order
    BY <1>1, OrdersOf DEF UnwindOrder
  <1> QED BY <1>1, <1>2 DEF OrderInv

\* Before its legs are out the trade reported nothing: rejecting it strands
\* nothing.
LEMMA RejectStep ==
    ASSUME BaseTypes, \A y \in Order : OrderInv(y), NEW o \in Opp, TradeInv(o),
           pc[o] \in {"new", "balance"}, pc' = [pc EXCEPT ![o] = "done"],
           UNCHANGED <<orderVars, exposed>>
    PROVE  TradeInv(o)'
  <1>0. OrderTypeOK /\ pc'[o] = "done"
    BY DEF BaseTypes
  <1>1. \A l \in Leg : phase[<<o, l>>] = "idle" /\ report[<<o, l>>] = 0
    BY OrdersOf DEF TradeInv, LegsInv, OrderInv
  <1>2. Qty(o) = 0
    BY <1>1 DEF Qty, Imbalance, Told, Abs, Leg
  <1>3. /\ Qty(o)' = Qty(o) /\ UnwindOrder(o)' = UnwindOrder(o)
    BY SameReports
  <1>4. /\ \A l \in Leg : phase[<<o, Unwind(l)>>] = "idle"
        /\ phase[UnwindOrder(o)] = "idle"
        /\ size[UnwindOrder(o)] = 0 /\ report[UnwindOrder(o)] = 0
    BY NoUnwindYet DEF TradeInv
  <1>5. LegsInv(o)'
    BY <1>0, <1>1 DEF LegsInv
  <1>6. UnwindInv(o)'
    BY <1>2, <1>3, <1>4 DEF UnwindInv
  <1>7. Residual(o)' = 0 /\ exposed'[o] = 0
    BY <1>0, <1>2, <1>3, <1>4 DEF Residual, TradeInv, RecordInv
  <1>8. RecordInv(o)'
    BY <1>0, <1>3, <1>4, <1>7 DEF RecordInv
  <1> QED BY <1>5, <1>6, <1>8 DEF TradeInv

\* Moving towards the legs changes nothing the invariant speaks of.
LEMMA ForwardStep ==
    ASSUME BaseTypes, \A y \in Order : OrderInv(y), NEW o \in Opp, TradeInv(o),
           pc[o] \in {"new", "balance"}, NEW v \in {"balance", "legs"},
           pc' = [pc EXCEPT ![o] = v],
           UNCHANGED <<orderVars, exposed>>
    PROVE  TradeInv(o)'
  <1>0. pc'[o] = v
    BY DEF BaseTypes
  <1>1. \A l \in Leg : phase[<<o, l>>] = "idle"
    BY DEF TradeInv, LegsInv
  <1>2. /\ Qty(o)' = Qty(o) /\ UnwindOrder(o)' = UnwindOrder(o)
    BY SameReports
  <1>3. \A l \in Leg : phase[<<o, Unwind(l)>>] = "idle"
    BY NoUnwindYet DEF TradeInv
  <1>4. LegsInv(o)'
    BY <1>0, <1>1 DEF LegsInv
  <1>5. UnwindInv(o)'
    BY <1>2, <1>3 DEF UnwindInv, TradeInv
  <1>6. RecordInv(o)'
    BY <1>0 DEF RecordInv, TradeInv
  <1> QED BY <1>4, <1>5, <1>6 DEF TradeInv

\* When the legs are over none of them is left working, and dust is recorded.
LEMMA LegsOverStep ==
    ASSUME BaseTypes, \A y \in Order : OrderInv(y), NEW o \in Opp, TradeInv(o),
           LegsDone(o) \/ Timeout(o)
    PROVE  TradeInv(o)'
  <1>0. /\ OrderTypeOK /\ pc[o] = "legs" /\ AfterLegs(o)
        /\ pc \in [Opp -> {"new", "balance", "legs", "hedging", "done"}]
        /\ exposed \in [Opp -> Int] /\ Qty(o) \in Nat
    BY QtyTypes DEF BaseTypes, LegsDone, Timeout
  <1>1. report' = report /\ size' = size
    BY DEF LegsDone, Timeout, CancelPending
  <1>2. \A l \in Leg : phase'[<<o, l>>] # "working"
    <2>1. CASE LegsDone(o)
      BY <2>1 DEF LegsDone, Answered
    <2>2. CASE Timeout(o)
      BY <2>2, OrdersOf DEF Timeout, CancelPending
    <2> QED BY <2>1, <2>2
  <1>3. \A l \in Leg : phase'[<<o, Unwind(l)>>] = phase[<<o, Unwind(l)>>]
    <2>1. CASE LegsDone(o)
      BY <2>1 DEF LegsDone
    <2>2. CASE Timeout(o)
      <3>1. \A l \in Leg : <<o, Unwind(l)>> \in Order /\ Unwind(l) \notin Leg
        BY OrdersOf DEF Unwind, Leg
      <3> QED BY <2>2, <3>1 DEF Timeout, CancelPending
    <2> QED BY <2>1, <2>2
  <1>4. Qty(o)' = Qty(o) /\ UnwindOrder(o)' = UnwindOrder(o)
    BY <1>1, SameReports
  <1>5. /\ \A l \in Leg : phase[<<o, Unwind(l)>>] = "idle"
        /\ size[UnwindOrder(o)] = 0 /\ report[UnwindOrder(o)] = 0
    BY <1>0, NoUnwindYet DEF TradeInv
  <1>6. phase'[UnwindOrder(o)] = "idle"
    BY <1>3, <1>5, OrdersOf DEF UnwindOrder
  <1>7. pc'[o] \in {"hedging", "done"}
    BY <1>0 DEF AfterLegs
  <1>8. LegsInv(o)'
    BY <1>2, <1>7 DEF LegsInv
  <1>9. UnwindInv(o)'
    BY <1>0, <1>1, <1>3, <1>4, <1>5 DEF UnwindInv
  <1>10. Residual(o)' = Qty(o)
    BY <1>0, <1>1, <1>4, <1>5 DEF Residual
  <1>11. pc'[o] # "done" => exposed'[o] = 0
    BY <1>0 DEF AfterLegs, TradeInv, RecordInv
  <1>12. pc'[o] = "done" => exposed'[o] = Qty(o)
    BY <1>0 DEF AfterLegs
  <1>13. RecordInv(o)'
    BY <1>4, <1>6, <1>10, <1>11, <1>12 DEF RecordInv
  <1> QED BY <1>8, <1>9, <1>13 DEF TradeInv

\* The unwind goes out for at most the imbalance, on the over-filled leg, or
\* is refused.
LEMMA UnwindStep ==
    ASSUME BaseTypes, \A y \in Order : OrderInv(y), NEW o \in Opp, TradeInv(o),
           UnwindPosts(o) \/ UnwindRefused(o)
    PROVE  TradeInv(o)'
  <1>0. /\ OrderTypeOK /\ pc[o] = "hedging" /\ pc' = pc /\ exposed' = exposed /\ report' = report
        /\ UnwindOrder(o) \in Order /\ OverLeg(o) \in Leg
        /\ UnwindSize(o) \in 0..Qty(o) /\ Qty(o) \in Nat
    BY QtyTypes, OrdersOf, UnwindSizeBound
       DEF BaseTypes, UnwindPosts, UnwindRefused, Submit, Refuse
  <1>a. \A y \in Order : y # UnwindOrder(o) => phase'[y] = phase[y]
    BY <1>0 DEF UnwindPosts, UnwindRefused, Submit, Refuse, OrderTypeOK
  <1>1. \A l \in Leg : phase'[<<o, l>>] = phase[<<o, l>>]
    <2>1. \A l \in Leg : UnwindOrder(o) # <<o, l>>
      BY DEF UnwindOrder, Unwind, OverLeg, Leg
    <2> QED BY <1>a, <2>1, OrdersOf
  <1>2. \A l \in Leg : l # OverLeg(o) => phase'[<<o, Unwind(l)>>] = phase[<<o, Unwind(l)>>]
    <2>1. \A l \in Leg : l # OverLeg(o) => UnwindOrder(o) # <<o, Unwind(l)>>
      BY DEF UnwindOrder, Unwind, OverLeg, Leg
    <2> QED BY <1>a, <2>1, OrdersOf
  <1>3. Qty(o)' = Qty(o) /\ OverLeg(o)' = OverLeg(o) /\ UnwindOrder(o)' = UnwindOrder(o)
    BY <1>0, SameReports
  <1>4. size'[UnwindOrder(o)] <= Qty(o)
    BY <1>0 DEF UnwindPosts, UnwindRefused, Submit, Refuse, TradeInv, UnwindInv, OrderTypeOK
  <1>5. LegsInv(o)'
    BY <1>0, <1>1 DEF LegsInv, TradeInv
  <1>6. UnwindInv(o)'
    BY <1>0, <1>2, <1>3, <1>4 DEF UnwindInv, TradeInv
  <1>7. RecordInv(o)'
    BY <1>0 DEF RecordInv, TradeInv
  <1> QED BY <1>5, <1>6, <1>7 DEF TradeInv

\* The hedge's outcome records what the unwind reported missing, unless it is
\* within the tolerance.
LEMMA HedgeDoneStep ==
    ASSUME BaseTypes, NEW o \in Opp, TradeInv(o), HedgeDone(o)
    PROVE  TradeInv(o)'
  <1>0. /\ OrderTypeOK /\ pc[o] = "hedging" /\ pc'[o] = "done" /\ UNCHANGED orderVars
        /\ phase[UnwindOrder(o)] = "reported"
        /\ Qty(o) \in Nat /\ Residual(o) \in Int /\ exposed \in [Opp -> Int]
    BY QtyTypes DEF BaseTypes, HedgeDone
  <1>1. Qty(o)' = Qty(o) /\ OverLeg(o)' = OverLeg(o) /\ UnwindOrder(o)' = UnwindOrder(o)
    BY <1>0, SameReports
  <1>2. Residual(o)' = Residual(o)
    BY <1>0, <1>1 DEF Residual
  <1>3. exposed'[o] = Residual(o) \/ (exposed'[o] = 0 /\ Residual(o) * 100 <= Qty(o))
    BY <1>0 DEF HedgeDone, Unwound, TradeInv, RecordInv
  <1>4. LegsInv(o)'
    BY <1>0 DEF LegsInv, TradeInv
  <1>5. UnwindInv(o)'
    BY <1>0, <1>1 DEF UnwindInv, TradeInv
  <1>6. RecordInv(o)'
    BY <1>0, <1>1, <1>2, <1>3 DEF RecordInv
  <1> QED BY <1>4, <1>5, <1>6 DEF TradeInv

\* A leg's task only acts while the legs are out.
LEMMA LegStepInv ==
    ASSUME BaseTypes, \A y \in Order : OrderInv(y), NEW o \in Opp, TradeInv(o),
           pc[o] = "legs", UNCHANGED <<pc, exposed>>,
           \A l \in Leg : /\ phase'[<<o, Unwind(l)>>] = phase[<<o, Unwind(l)>>]
                          /\ size'[<<o, Unwind(l)>>] = size[<<o, Unwind(l)>>]
                          /\ report'[<<o, Unwind(l)>>] = report[<<o, Unwind(l)>>],
           OrderTypeOK'
    PROVE  TradeInv(o)'
  <1>1. \A l \in Leg : /\ phase[<<o, Unwind(l)>>] = "idle"
                       /\ size[<<o, Unwind(l)>>] = 0
    BY NoUnwindYet, OrdersOf DEF TradeInv, OrderInv
  <1>2. Qty(o)' \in Nat
    <2>1. Told(o, "kalshi")' \in Nat /\ Told(o, "polymarket")' \in Nat
      BY OrdersOf DEF OrderTypeOK, Told, Leg
    <2>2. Imbalance(o)' \in Int
      BY <2>1 DEF Imbalance
    <2> QED BY <2>2 DEF Qty, Abs
  <1>3. size'[UnwindOrder(o)'] = 0
    <2>1. OverLeg(o)' \in Leg
      BY DEF OverLeg, Leg
    <2> QED BY <1>1, <2>1 DEF UnwindOrder
  <1>4. LegsInv(o)'
    BY DEF LegsInv
  <1>5. UnwindInv(o)'
    BY <1>1, <1>2, <1>3 DEF UnwindInv
  <1>6. RecordInv(o)'
    BY DEF RecordInv, TradeInv
  <1> QED BY <1>4, <1>5, <1>6 DEF TradeInv

\* Every step keeps what the invariant says of every trade.
LEMMA TradeInvNext ==
    ASSUME BaseTypes, \A y \in Order : OrderInv(y), NEW o \in Opp, TradeInv(o), [Next]_vars
    PROVE  TradeInv(o)'
  <1>0. OrderTypeOK /\ OrderTypeOK'
    BY TypeStep DEF BaseTypes
  <1>a. \A r \in Role : <<o, r>> \in Order
    OBVIOUS
  <1>1. ASSUME UNCHANGED <<pc, exposed, orderVars>>
        PROVE  TradeInv(o)'
    BY <1>1, Frame
  <1>2. CASE TradeStep(o)
    <2>1. CASE Rejected(o) \/ InsufficientBalance(o)
      BY <2>1, RejectStep DEF Rejected, InsufficientBalance
    <2>2. CASE Preflight(o)
      BY <2>2, ForwardStep DEF Preflight
    <2>3. CASE Launch(o)
      BY <2>3, ForwardStep DEF Launch
    <2> QED BY <1>2, <2>1, <2>2, <2>3, LegsOverStep, UnwindStep, HedgeDoneStep DEF TradeStep
  <1>3. ASSUME NEW p \in Opp, p # o, TradeStep(p)
        PROVE  TradeInv(o)'
    <2>1. pc'[o] = pc[o]
      <3>1. CASE UnwindPosts(p) \/ UnwindRefused(p)
        BY <3>1 DEF UnwindPosts, UnwindRefused
      <3>2. CASE ~(UnwindPosts(p) \/ UnwindRefused(p))
        <4>1. \E v : pc' = [pc EXCEPT ![p] = v]
          BY <1>3, <3>2 DEF TradeStep, Rejected, Preflight, InsufficientBalance, Launch,
                            LegsDone, Timeout, AfterLegs, HedgeDone
        <4> QED BY <1>3, <4>1 DEF BaseTypes
      <3> QED BY <3>1, <3>2
    <2>2. exposed'[o] = exposed[o]
      BY <1>3 DEF TradeStep, Rejected, Preflight, InsufficientBalance, Launch,
                  LegsDone, Timeout, AfterLegs, HedgeDone, Unwound, UnwindPosts, UnwindRefused,
                  BaseTypes
    <2>3. \A r \in Role : /\ phase'[<<o, r>>] = phase[<<o, r>>]
                          /\ size'[<<o, r>>] = size[<<o, r>>]
                          /\ report'[<<o, r>>] = report[<<o, r>>]
      <3>1. CASE UnwindPosts(p) \/ UnwindRefused(p)
        <4>1. \A r \in Role : UnwindOrder(p) # <<o, r>>
          BY <1>3 DEF UnwindOrder
        <4> QED BY <1>0, <1>a, <3>1, <4>1, OrdersOf
                DEF UnwindPosts, UnwindRefused, Submit, Refuse, OrderTypeOK
      <3>2. CASE Timeout(p)
        BY <1>a, <1>3, <3>2 DEF Timeout, CancelPending
      <3>3. CASE ~(Timeout(p) \/ UnwindPosts(p) \/ UnwindRefused(p))
        BY <1>3, <3>3 DEF TradeStep, Rejected, Preflight, InsufficientBalance, Launch,
                          LegsDone, HedgeDone
      <3> QED BY <3>1, <3>2, <3>3
    <2> QED BY <2>1, <2>2, <2>3, Frame
  <1>4. ASSUME NEW p \in Opp, NEW l \in Leg, LegStep(p, l)
        PROVE  TradeInv(o)'
    <2>1. pc[p] = "legs" /\ pc' = pc /\ exposed' = exposed /\ <<p, l>> \in Order
      BY <1>4, OrdersOf DEF LegStep, LegPosts, LegRefused, BreakerTrips
    <2>2. \A y \in Order : y # <<p, l>> => /\ phase'[y] = phase[y]
                                           /\ size'[y] = size[y]
                                           /\ report'[y] = report[y]
      BY <1>0, <1>4 DEF LegStep, LegPosts, LegRefused, BreakerTrips, Submit, Refuse, Report,
                        OrderTypeOK
    <2>3. CASE p = o
      <3>1. \A m \in Leg : <<o, Unwind(m)>> \in Order /\ <<o, Unwind(m)>> # <<p, l>>
        BY OrdersOf DEF Unwind, Leg
      <3> QED BY <1>0, <2>1, <2>2, <2>3, <3>1, LegStepInv
    <2>4. CASE p # o
      BY <1>a, <2>1, <2>2, <2>4, Frame
    <2> QED BY <2>3, <2>4
  <1>5. ASSUME NEW x \in Order, NEW n \in Units, OrderFills(x, n)
        PROVE  TradeInv(o)'
    BY <1>5, Frame DEF OrderFills, Fill
  <1>6. ASSUME NEW x \in Order, NEW n \in Units, OrderReports(x, n)
        PROVE  TradeInv(o)'
    <2>1. pc' = pc /\ exposed' = exposed /\ size' = size /\ phase[x] = "working"
      BY <1>6 DEF OrderReports, Report
    <2>2. \A y \in Order : y # x => phase'[y] = phase[y] /\ report'[y] = report[y]
      BY <1>0, <1>6 DEF OrderReports, Report, OrderTypeOK
    <2>3. CASE \A r \in Role : x # <<o, r>>
      BY <1>a, <2>1, <2>2, <2>3, Frame
    <2>4. ASSUME NEW l \in Leg, x = <<o, l>>
          PROVE  TradeInv(o)'
      <3>1. pc[o] = "legs"
        BY <2>1, <2>4 DEF TradeInv, LegsInv
      <3>2. \A m \in Leg : <<o, Unwind(m)>> \in Order /\ <<o, Unwind(m)>> # x
        BY <2>4, OrdersOf DEF Unwind, Leg
      <3> QED BY <1>0, <2>1, <2>2, <3>1, <3>2, LegStepInv
    <2>5. ASSUME NEW l \in Leg, x = <<o, Unwind(l)>>
          PROVE  TradeInv(o)'
      <3>1. l = OverLeg(o) /\ pc[o] \in {"hedging", "done"}
        BY <2>1, <2>5 DEF TradeInv, UnwindInv
      <3>2. x = UnwindOrder(o)
        BY <2>5, <3>1 DEF UnwindOrder
      <3>3. pc[o] = "hedging"
        BY <2>1, <3>1, <3>2 DEF TradeInv, RecordInv
      <3>4. \A m \in Leg : /\ phase'[<<o, m>>] = phase[<<o, m>>]
                           /\ report'[<<o, m>>] = report[<<o, m>>]
        <4>1. \A m \in Leg : <<o, m>> \in Order /\ <<o, m>> # x
          BY <2>5, OrdersOf DEF Unwind, Leg
        <4> QED BY <2>2, <4>1
      <3>5. Qty(o)' = Qty(o) /\ OverLeg(o)' = OverLeg(o) /\ UnwindOrder(o)' = UnwindOrder(o)
        BY <3>4, SameReports
      <3>6. \A m \in Leg : m # l => phase'[<<o, Unwind(m)>>] = phase[<<o, Unwind(m)>>]
        <4>1. \A m \in Leg : m # l => Unwind(m) # Unwind(l)
          BY DEF Unwind, Leg
        <4>2. \A m \in Leg : m # l => <<o, Unwind(m)>> # x
          BY <2>5, <4>1
        <4> QED BY <2>2, <4>2, OrdersOf
      <3>7. LegsInv(o)'
        BY <2>1, <3>4 DEF TradeInv, LegsInv
      <3>8. UnwindInv(o)'
        BY <2>1, <3>1, <3>5, <3>6 DEF TradeInv, UnwindInv
      <3>9. RecordInv(o)'
        BY <2>1, <3>3 DEF TradeInv, RecordInv
      <3> QED BY <3>7, <3>8, <3>9 DEF TradeInv
    <2>6. \A r \in Role : \E l \in Leg : r = l \/ r = Unwind(l)
      BY DEF Role
    <2> QED BY <2>3, <2>4, <2>5, <2>6
  <1>7. CASE OperatorHalts \/ OperatorResumes \/ Midnight \/ UNCHANGED vars
    BY <1>1, <1>7 DEF OperatorHalts, OperatorResumes, Midnight
  <1> QED BY <1>2, <1>3, <1>4, <1>5, <1>6, <1>7 DEF Next

-----------------------------------------------------------------------------
\* The inductive invariant, with the types it needs.
HedgeIInv == BaseTypes /\ HedgeInv

\* HedgeInv holds at the start and every step of every trade, order and
\* operator keeps it.
LEMMA HedgeInvariant == Spec => []HedgeIInv
  <1>1. Init => HedgeIInv
    <2> SUFFICES ASSUME Init PROVE HedgeIInv
      OBVIOUS
    <2>1. BaseTypes
      BY CountInit DEF CountInv
    <2>2. \A x \in Order : OrderInv(x) /\ phase[x] = "idle" /\ size[x] = 0 /\ report[x] = 0
      BY DEF Init, OrderInit, OrderInv
    <2>3. ASSUME NEW o \in Opp
          PROVE  LegsInv(o) /\ UnwindInv(o) /\ RecordInv(o)
      <3>1. pc[o] = "new" /\ exposed[o] = 0
        BY DEF Init
      <3>2. Qty(o) \in Nat /\ UnwindOrder(o) \in Order
        BY <2>1, QtyTypes, OrdersOf DEF BaseTypes
      <3>3. \A l \in Leg : phase[<<o, l>>] = "idle" /\ phase[<<o, Unwind(l)>>] = "idle"
        BY <2>2, OrdersOf
      <3>4. LegsInv(o)
        BY <3>3 DEF LegsInv
      <3>5. UnwindInv(o)
        <4>1. size[UnwindOrder(o)] <= Qty(o)
          BY <2>2, <3>2
        <4> QED BY <3>3, <4>1, Zenon DEF UnwindInv
      <3> QED BY <3>1, <3>4, <3>5 DEF RecordInv
    <2> QED BY <2>1, <2>2, <2>3 DEF HedgeIInv, HedgeInv
  <1>2. HedgeIInv /\ [Next]_vars => HedgeIInv'
    <2> SUFFICES ASSUME HedgeIInv, [Next]_vars PROVE HedgeIInv'
      OBVIOUS
    <2>1. BaseTypes /\ \A x \in Order : OrderInv(x)
      BY DEF HedgeIInv, HedgeInv
    <2>2. BaseTypes' /\ \A x \in Order : OrderInv(x)'
      BY <2>1, TypeStep, OrderInvNext
    <2>3. \A o \in Opp : TradeInv(o)'
      <3> TAKE o \in Opp
      <3>1. TradeInv(o)
        BY DEF HedgeIInv, HedgeInv, TradeInv
      <3> QED BY <2>1, <3>1, TradeInvNext
    <2> QED BY <2>2, <2>3 DEF HedgeIInv, HedgeInv, TradeInv
  <1> QED BY <1>1, <1>2, PTL DEF Spec

\* The quantities of a trade, and what its unwinds can have filled.
LEMMA UnwindFills ==
    ASSUME HedgeIInv, NEW o \in Opp
    PROVE  /\ \A r \in Role : filled[<<o, r>>] \in Nat /\ report[<<o, r>>] \in Nat
           /\ Imbalance(o) \in Int /\ Qty(o) \in Nat
           /\ filled[UnwindOrder(o)] \in 0..Qty(o)
           /\ \A l \in Leg : l # OverLeg(o) =>
                 filled[<<o, Unwind(l)>>] = 0 /\ report[<<o, Unwind(l)>>] = 0
  <1>0. OrderTypeOK /\ OrderInv(UnwindOrder(o)) /\ UnwindInv(o)
    BY OrdersOf DEF HedgeIInv, HedgeInv, BaseTypes
  <1>1. \A r \in Role : filled[<<o, r>>] \in Nat /\ report[<<o, r>>] \in Nat
    BY <1>0 DEF OrderTypeOK
  <1>2. Imbalance(o) \in Int /\ Qty(o) \in Nat
    BY <1>0, QtyTypes
  <1>3. filled[UnwindOrder(o)] \in 0..Qty(o)
    BY <1>0, <1>2, OrdersOf DEF OrderTypeOK, OrderInv, UnwindInv
  <1>4. ASSUME NEW l \in Leg, l # OverLeg(o)
        PROVE  filled[<<o, Unwind(l)>>] = 0 /\ report[<<o, Unwind(l)>>] = 0
    <2>1. phase[<<o, Unwind(l)>>] = "idle" /\ <<o, Unwind(l)>> \in Order
      BY <1>0, <1>4, OrdersOf DEF UnwindInv
    <2>2. OrderInv(<<o, Unwind(l)>>)
      BY <2>1 DEF HedgeIInv, HedgeInv
    <2> QED BY <1>0, <2>1, <2>2 DEF OrderInv, OrderTypeOK
  <1> QED BY <1>1, <1>2, <1>3, <1>4

\* What is unmatched when the legs' reports are exact: the imbalance less what
\* the one unwind filled, never beyond flat.
LEMMA ExposureIs ==
    ASSUME HedgeIInv, NEW o \in Opp, \A l \in Leg : Exact(<<o, l>>)
    PROVE  /\ Imbalance(o) > 0 => Exposure(o) = Imbalance(o) - filled[UnwindOrder(o)]
           /\ Imbalance(o) <= 0 => Exposure(o) = Imbalance(o) + filled[UnwindOrder(o)]
           /\ Imbalance(o) > 0 => Qty(o) = Imbalance(o)
           /\ Imbalance(o) <= 0 => Qty(o) = -Imbalance(o)
  <1>0. /\ \A r \in Role : filled[<<o, r>>] \in Nat /\ report[<<o, r>>] \in Nat
        /\ Imbalance(o) \in Int
        /\ \A l \in Leg : l # OverLeg(o) => filled[<<o, Unwind(l)>>] = 0
    BY UnwindFills
  <1>1. Imbalance(o) = filled[<<o, "kalshi">>] - filled[<<o, "polymarket">>]
    BY DEF Exact, Imbalance, Told, Leg
  <1>2. {"kalshi", "polymarket", "unwind_kalshi", "unwind_polymarket"} \subseteq Role
    BY DEF Role, Leg, Unwind
  <1>3. CASE Imbalance(o) > 0
    <2>1. filled[<<o, "unwind_polymarket">>] = 0 /\ UnwindOrder(o) = <<o, "unwind_kalshi">>
      BY <1>0, <1>3 DEF OverLeg, UnwindOrder, Unwind, Leg
    <2> QED BY <1>0, <1>1, <1>2, <1>3, <2>1 DEF Exposure, Qty, Abs
  <1>4. CASE Imbalance(o) <= 0
    <2>1. filled[<<o, "unwind_kalshi">>] = 0 /\ UnwindOrder(o) = <<o, "unwind_polymarket">>
      BY <1>0, <1>4 DEF OverLeg, UnwindOrder, Unwind, Leg
    <2>2. Imbalance(o) < 0 \/ Imbalance(o) = 0
      BY <1>0, <1>4
    <2> QED BY <1>0, <1>1, <1>2, <1>4, <2>1, <2>2 DEF Exposure, Qty, Abs
  <1> QED BY <1>0, <1>3, <1>4

\* In every behaviour, whatever the venues fill and whenever, the unwind moves
\* a trade whose legs reported exactly towards flat and never through it.
THEOREM UnwindReduces == Spec => []UnwindOnlyReduces
  <1>1. HedgeIInv => UnwindOnlyReduces
    <2> SUFFICES ASSUME HedgeIInv, NEW o \in Opp, \A l \in Leg : Exact(<<o, l>>)
                 PROVE  /\ Imbalance(o) >= 0 => Exposure(o) \in 0..Imbalance(o)
                        /\ Imbalance(o) <= 0 => -Exposure(o) \in 0..(-Imbalance(o))
      BY DEF UnwindOnlyReduces
    <2> QED BY UnwindFills, ExposureIs
  <1> QED BY <1>1, HedgeInvariant, PTL

\* When a trade is over and its orders reported exactly, the exposure on record
\* is the real one, or nothing is recorded and at most 1% of the imbalance is
\* left (_hedge, _record_residual_exposure).
THEOREM ExposureRecorded == Spec => []ExposureKnown
  <1>1. HedgeIInv => ExposureKnown
    <2> SUFFICES ASSUME HedgeIInv, NEW o \in Opp, pc[o] = "done",
                        \A r \in Role : Exact(<<o, r>>)
                 PROVE  \/ Abs(Exposure(o)) = exposed[o]
                        \/ exposed[o] = 0 /\ Abs(Exposure(o)) * 100 <= Qty(o)
      BY DEF ExposureKnown
    <2>1. \A l \in Leg : Exact(<<o, l>>)
      BY DEF Role
    <2>2. UnwindOrder(o) = <<o, Unwind(OverLeg(o))>> /\ Unwind(OverLeg(o)) \in Role
      BY DEF UnwindOrder, OverLeg, Role, Leg
    <2>3. Residual(o) = Qty(o) - filled[UnwindOrder(o)]
      BY <2>2 DEF Residual, Exact
    <2>4. Abs(Exposure(o)) = Residual(o)
      BY <2>1, <2>3, UnwindFills, ExposureIs DEF Abs
    <2>5. exposed[o] = Residual(o) \/ (exposed[o] = 0 /\ Residual(o) * 100 <= Qty(o))
      BY DEF HedgeIInv, HedgeInv, RecordInv
    <2> QED BY <2>4, <2>5
  <1> QED BY <1>1, HedgeInvariant, PTL

-----------------------------------------------------------------------------
(***************************************************************************)
(* The daily loss.                                                         *)
(***************************************************************************)

\* Until the day's first pre-flight everything booked is early; from then on
\* the executor's accumulator is what has been booked since.
LossInv ==
    /\ stale => lostToday = lostEarly
    /\ ~stale => loss = lostToday - lostEarly

LossIInv == BaseTypes /\ LossInv

\* Booking a trade keeps the accounts in step.
LEMMA BookStep ==
    ASSUME BaseTypes, LossInv, NEW o \in Opp, Book(o), stale' = stale
    PROVE  LossInv'
  <1>1. CASE UNCHANGED <<loss, lostToday, lostEarly>>
    BY <1>1 DEF LossInv
  <1>2. ASSUME NEW net \in Nets, loss' = loss - net, lostToday' = lostToday - net,
               lostEarly' = IF stale THEN lostEarly - net ELSE lostEarly
        PROVE  LossInv'
    BY <1>2 DEF LossInv, BaseTypes
  <1> QED BY <1>1, <1>2 DEF Book

\* The pre-flight's daily reset keeps the accounts in step.
LEMMA ResetStep ==
    ASSUME BaseTypes, LossInv, ResetLoss, UNCHANGED <<lostToday, lostEarly>>
    PROVE  LossInv'
  BY DEF ResetLoss, LossNow, LossInv, BaseTypes

\* Every step keeps the accounts in step.
LEMMA LossStep ==
    ASSUME LossIInv, [Next]_vars
    PROVE  LossIInv'
  <1>0. BaseTypes /\ LossInv /\ BaseTypes'
    BY TypeStep DEF LossIInv
  <1>1. ASSUME UNCHANGED <<loss, stale, lostToday, lostEarly>>
        PROVE  LossInv'
    BY <1>0, <1>1 DEF LossInv
  <1>2. ASSUME NEW o \in Opp, TradeStep(o)
        PROVE  LossInv'
    <2>1. CASE Rejected(o) \/ Preflight(o)
      BY <1>0, <1>1, <2>1, ResetStep DEF Rejected, Preflight
    <2>2. CASE InsufficientBalance(o) \/ Launch(o) \/ UnwindPosts(o) \/ UnwindRefused(o)
      BY <1>1, <2>2 DEF InsufficientBalance, Launch, UnwindPosts, UnwindRefused
    <2>3. CASE LegsDone(o) \/ Timeout(o)
      BY <1>0, <1>1, <2>3, BookStep DEF LegsDone, Timeout, AfterLegs
    <2>4. CASE HedgeDone(o)
      BY <1>0, <2>4, BookStep DEF HedgeDone
    <2> QED BY <1>2, <2>1, <2>2, <2>3, <2>4 DEF TradeStep
  <1>3. ASSUME NEW o \in Opp, NEW l \in Leg, LegStep(o, l)
        PROVE  LossInv'
    BY <1>1, <1>3 DEF LegStep, LegPosts, LegRefused, BreakerTrips
  <1>4. ASSUME NEW x \in Order, NEW n \in Units, OrderFills(x, n) \/ OrderReports(x, n)
        PROVE  LossInv'
    BY <1>1, <1>4 DEF OrderFills, OrderReports
  <1>5. CASE OperatorHalts \/ OperatorResumes \/ UNCHANGED vars
    <2>1. loss' = loss /\ lostToday' = lostToday /\ lostEarly' = lostEarly /\ stale' = stale
      BY <1>5 DEF OperatorHalts, OperatorResumes
    <2> QED BY <1>0, <1>1, <2>1 DEF LossIInv
  <1>6. CASE Midnight
    <2>1. stale' = TRUE /\ lostToday' = lostEarly'
      BY <1>6 DEF Midnight
    <2> QED BY <1>0, <2>1 DEF LossInv, LossIInv
  <1> QED BY <1>0, <1>2, <1>3, <1>4, <1>5, <1>6 DEF Next, LossIInv

\* No trade passes the pre-flight checks on a day whose booked trades have lost
\* the limit, apart from what the day's first check forgets.
THEOREM LossLimited == Spec => LossLimitHolds
  <1> DEFINE Allowed ==
        \A o \in Opp :
            pc[o] = "new" /\ pc'[o] = "balance" => lostToday - lostEarly < LossLimit
  <1>1. Init => LossIInv
    BY CountInit DEF LossIInv, CountInv, Init, LossInv
  <1>2. LossIInv /\ [Next]_vars => LossIInv'
    BY LossStep
  <1>3. LossIInv /\ [Next]_vars => [Allowed]_vars
    <2> SUFFICES ASSUME LossIInv, Next, NEW o \in Opp, pc[o] = "new", pc'[o] = "balance"
                 PROVE  lostToday - lostEarly < LossLimit
      OBVIOUS
    <2>0. pc \in [Opp -> {"new", "balance", "legs", "hedging", "done"}]
      BY DEF LossIInv, BaseTypes
    <2>1. ASSUME NEW p \in Opp, TradeStep(p), ~Preflight(p)
          PROVE  FALSE
      <3>1. CASE UnwindPosts(p) \/ UnwindRefused(p)
        BY <3>1 DEF UnwindPosts, UnwindRefused
      <3>2. CASE ~(UnwindPosts(p) \/ UnwindRefused(p))
        <4>1. \E v \in {"legs", "hedging", "done"} : pc' = [pc EXCEPT ![p] = v]
          BY <2>1, <3>2 DEF TradeStep, Rejected, InsufficientBalance, Launch,
                            LegsDone, Timeout, AfterLegs, HedgeDone
        <4> QED BY <2>0, <4>1
      <3> QED BY <3>1, <3>2
    <2>2. ASSUME NEW p \in Opp, Preflight(p)
          PROVE  lostToday - lostEarly < LossLimit
      <3>1. LossNow < LossLimit
        BY <2>2 DEF Preflight
      <3>2. lostToday - lostEarly = LossNow
        BY DEF LossIInv, LossInv, BaseTypes, LossNow
      <3> QED BY <3>1, <3>2
    <2>3. ASSUME UNCHANGED pc
          PROVE  FALSE
      BY <2>3
    <2>4. ASSUME NEW p \in Opp, NEW l \in Leg, LegStep(p, l)
          PROVE  FALSE
      BY <2>3, <2>4 DEF LegStep, LegPosts, LegRefused, BreakerTrips
    <2>5. ASSUME NEW x \in Order, NEW n \in Units, OrderFills(x, n) \/ OrderReports(x, n)
          PROVE  FALSE
      BY <2>3, <2>5 DEF OrderFills, OrderReports
    <2>6. ~(OperatorHalts \/ OperatorResumes \/ Midnight)
      BY <2>3 DEF OperatorHalts, OperatorResumes, Midnight
    <2> QED BY <2>1, <2>2, <2>4, <2>5, <2>6 DEF Next
  <1> QED BY <1>1, <1>2, <1>3, PTL DEF Spec, LossLimitHolds
=============================================================================
