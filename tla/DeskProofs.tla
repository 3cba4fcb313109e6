---------------------------- MODULE DeskProofs ----------------------------
(***************************************************************************)
(* Proofs about what stands beside the trades: the books (ConfirmedPnL)    *)
(* for any deals, the circuit breaker (CircuitBreaker) for any callers,    *)
(* thresholds and timeouts, the operations controller (Controller) for any *)
(* lanes, jobs and tasks, and the operator's controls (OperatorControls)   *)
(* for any orders of the two venues.                                       *)
(***************************************************************************)
EXTENDS ConfirmedPnL, CircuitBreaker, BreakerProofs, Controller, OperatorControls, SequenceTheorems, TLAPS

-----------------------------------------------------------------------------
(***************************************************************************)
(* The tracker.  Every operation touches one execution; what it does to it *)
(* is named by a postcondition of the trackers before and after.           *)
(***************************************************************************)
Accounting == {"complementary", "same_outcome"}
Source == {"exchange", "paper"}
FillRecord == [size : Nat, notional : Nat, fee : Nat]
Execution == [strategy : Accounting, source : Source, fill : [Leg -> FillRecord],
              confirmed : [Leg -> BOOLEAN], settled : BOOLEAN]
Tracker(t) == t = [exec |-> t.exec, ids |-> t.ids] /\ t.exec \in [DOMAIN t.exec -> Execution]
Holds(t, id) == Tracker(t) /\ id \in DOMAIN t.exec

Touches(t, u, id) ==
    /\ Tracker(u) /\ DOMAIN u.exec = DOMAIN t.exec \cup {id}
    /\ \A x \in DOMAIN t.exec \ {id} : u.exec[x] = t.exec[x]
Registered(t, u, id, strategy) ==
    /\ Touches(t, u, id) /\ u.ids = t.ids
    /\ IF Has(t, id) THEN u = t ELSE u.exec[id] = NewExecution(strategy)
Replaced(t, u, id, x, ids) == Touches(t, u, id) /\ u.ids = ids /\ u.exec[id] = x
Confirmed(t, u, id, leg) ==
    /\ Touches(t, u, id) /\ u.ids = t.ids
    /\ u.exec[id] = [t.exec[id] EXCEPT !.confirmed[leg] = TRUE]
Recorded(t, u, id, leg, fid, fill) ==
    /\ Touches(t, u, id) /\ u.ids \subseteq t.ids \cup ({fid} \ {None})
    /\ u.exec[id].strategy = t.exec[id].strategy /\ u.exec[id].settled = t.exec[id].settled
    /\ \A l \in Leg \ {leg} : u.exec[id].fill[l] = t.exec[id].fill[l]
    /\ fill.size > 0 /\ fid \notin t.ids => u.exec[id].fill[leg] = AddFill(t.exec[id].fill[leg], fill)
Settles_(t, u, id) ==
    /\ Touches(t, u, id) /\ u.ids = t.ids
    /\ u.exec[id].strategy = t.exec[id].strategy /\ u.exec[id].source = t.exec[id].source
    /\ u.exec[id].fill = t.exec[id].fill /\ u.exec[id].confirmed = t.exec[id].confirmed
    /\ HasConfirmedLegs(t.exec[id]) => u.exec[id].settled = TRUE

KeptBut(x, y, leg) ==
    /\ y.strategy = x.strategy /\ y.source = x.source /\ y.fill = x.fill /\ y.settled = x.settled
    /\ y.confirmed[leg] = TRUE /\ \A l \in Leg \ {leg} : y.confirmed[l] = x.confirmed[l]

\* Touching an execution twice touches it.
LEMMA TouchesTwice ==
    ASSUME NEW t, NEW u, NEW v, NEW id, Touches(t, u, id), Touches(u, v, id)
    PROVE  Touches(t, v, id)
  BY DEF Touches

\* A touched tracker holds the execution.
LEMMA TouchedIsHeld ==
    ASSUME NEW t, NEW u, NEW id, Touches(t, u, id)
    PROVE  Holds(u, id)
  BY DEF Touches, Holds

\* A tracker with one execution replaced.
LEMMA Replacing ==
    ASSUME NEW t, NEW id, Holds(t, id), NEW x \in Execution, NEW ids, NEW u,
           u = [t EXCEPT !.exec[id] = x, !.ids = ids]
    PROVE  Replaced(t, u, id, x, ids)
  <1>1. u = [exec |-> [t.exec EXCEPT ![id] = x], ids |-> ids]
    BY DEF Holds, Tracker
  <1>2. u.exec = [t.exec EXCEPT ![id] = x] /\ u.ids = ids /\ u = [exec |-> u.exec, ids |-> u.ids]
    BY <1>1
  <1>3. u.exec \in [DOMAIN t.exec -> Execution] /\ u.exec[id] = x /\ \A e \in DOMAIN t.exec \ {id} : u.exec[e] = t.exec[e]
    BY <1>2 DEF Holds, Tracker
  <1>4. DOMAIN u.exec = DOMAIN t.exec
    BY <1>3
  <1> QED BY <1>2, <1>3, <1>4 DEF Touches, Holds, Tracker, Replaced

\* Registering an id the tracker has not seen makes an execution without fills.
LEMMA Registers ==
    ASSUME NEW t, Tracker(t), NEW id, NEW strategy \in Accounting
    PROVE  Registered(t, RegisterExecution(t, id, strategy), id, strategy)
  <1>0. \E u : u = RegisterExecution(t, id, strategy)
    OBVIOUS
  <1>1. PICK u : u = RegisterExecution(t, id, strategy)
    BY <1>0
  <1>2. CASE Has(t, id)
    <2>1. u = t
      BY <1>1, <1>2 DEF RegisterExecution
    <2>2. Registered(t, u, id, strategy)
      BY <1>2, <2>1 DEF Registered, Has, Tracker, Touches
    <2> QED BY <1>1, <2>2
  <1>3. CASE ~Has(t, id)
    <2> DEFINE D == DOMAIN t.exec \cup {id}
    <2>1. PICK exec : exec = [x \in D |-> IF x = id THEN NewExecution(strategy) ELSE t.exec[x]]
      OBVIOUS
    <2>2. NewExecution(strategy) \in Execution
      BY DEF NewExecution, Execution, NoFill, FillRecord, Source
    <2>3. u = [exec |-> exec, ids |-> t.ids]
      BY <1>1, <1>3, <2>1 DEF RegisterExecution, Tracker
    <2>4. exec \in [D -> Execution] /\ exec[id] = NewExecution(strategy)
      BY <1>3, <2>1, <2>2 DEF Tracker, Has
    <2>5. \A x \in DOMAIN t.exec \ {id} : exec[x] = t.exec[x]
      BY <2>1
    <2>6. u.exec = exec /\ u.ids = t.ids /\ DOMAIN exec = D
      BY <2>1, <2>3
    <2>7. Registered(t, u, id, strategy)
      BY <1>3, <2>3, <2>4, <2>5, <2>6 DEF Touches, Tracker, Registered
    <2> QED BY <1>1, <2>7
  <1> QED BY <1>2, <1>3

\* Confirming a leg changes that mark only.
LEMMA Confirms ==
    ASSUME NEW t, NEW id, Holds(t, id), NEW leg \in Leg
    PROVE  Confirmed(t, MarkLegConfirmed(t, id, leg), id, leg)
  <1>1. PICK x : x = t.exec[id]
    OBVIOUS
  <1>2. PICK y : y = [x EXCEPT !.confirmed[leg] = TRUE]
    OBVIOUS
  <1>3. PICK u : u = MarkLegConfirmed(t, id, leg)
    OBVIOUS
  <1>4. y \in Execution
    BY <1>1, <1>2 DEF Execution, Holds, Tracker
  <1>5. u = [t EXCEPT !.exec[id] = y, !.ids = t.ids]
    BY <1>1, <1>2, <1>3 DEF MarkLegConfirmed, Holds, Tracker
  <1>6. Replaced(t, u, id, y, t.ids)
    BY <1>4, <1>5, Replacing
  <1>7. Confirmed(t, u, id, leg)
    BY <1>1, <1>2, <1>6 DEF Replaced, Confirmed
  <1> QED BY <1>3, <1>7

\* What a confirmed leg leaves alone.
LEMMA ConfirmedKeeps ==
    ASSUME NEW t, NEW u, NEW id, NEW leg \in Leg, Holds(t, id), Confirmed(t, u, id, leg)
    PROVE  KeptBut(t.exec[id], u.exec[id], leg)
  <1>1. PICK x : x = t.exec[id]
    OBVIOUS
  <1>2. x \in Execution /\ u.exec[id] = [x EXCEPT !.confirmed[leg] = TRUE]
    BY <1>1 DEF Confirmed, Holds, Tracker
  <1>3. KeptBut(x, [x EXCEPT !.confirmed[leg] = TRUE], leg)
    BY <1>2 DEF Execution, KeptBut
  <1> QED BY <1>1, <1>2, <1>3

\* A recorded fill is added to its leg, unless it is empty or its id is known.
LEMMA Records ==
    ASSUME NEW t, NEW id, Holds(t, id), NEW leg \in Leg, NEW fid, NEW fill \in FillRecord,
           NEW source \in Source, NEW confirm \in BOOLEAN
    PROVE  Recorded(t, RecordFill(t, id, leg, fid, fill, source, confirm), id, leg, fid, fill)
  <1>1. PICK x : x = t.exec[id]
    OBVIOUS
  <1>2. PICK y : y = [x EXCEPT !.fill[leg] = AddFill(x.fill[leg], fill), !.source = source]
    OBVIOUS
  <1>3. PICK s : s = [t EXCEPT !.exec[id] = y, !.ids = t.ids \cup ({fid} \ {None})]
    OBVIOUS
  <1>4. PICK u : u = RecordFill(t, id, leg, fid, fill, source, confirm)
    OBVIOUS
  <1>5. x \in Execution
    BY <1>1 DEF Holds, Tracker
  <1>6. CASE fill.size <= 0 \/ fid \in t.ids
    <2>1. u = t
      BY <1>4, <1>6 DEF RecordFill
    <2>2. ~(fill.size > 0 /\ fid \notin t.ids)
      BY <1>6 DEF FillRecord
    <2>3. Recorded(t, u, id, leg, fid, fill)
      BY <2>1, <2>2 DEF Recorded, Touches, Tracker, Holds
    <2> QED BY <1>4, <2>3
  <1>7. CASE ~(fill.size <= 0 \/ fid \in t.ids)
    <2>1. AddFill(x.fill[leg], fill) \in FillRecord
      BY <1>5 DEF AddFill, FillRecord, Execution
    <2>2. /\ y \in Execution /\ y.strategy = x.strategy /\ y.settled = x.settled
          /\ y.fill[leg] = AddFill(x.fill[leg], fill)
          /\ \A l \in Leg \ {leg} : y.fill[l] = x.fill[l]
      BY <1>2, <1>5, <2>1 DEF Execution
    <2>3. Replaced(t, s, id, y, t.ids \cup ({fid} \ {None}))
      BY <1>3, <2>2, Replacing
    <2>4. Recorded(t, s, id, leg, fid, fill) /\ Holds(s, id)
      BY <1>1, <2>2, <2>3, TouchedIsHeld DEF Replaced, Recorded
    <2>5. u = (IF confirm THEN MarkLegConfirmed(s, id, leg) ELSE s)
      BY <1>1, <1>2, <1>3, <1>4, <1>7, Zenon DEF RecordFill
    <2>6. CASE confirm
      <3>1. Confirmed(s, u, id, leg)
        BY <2>4, <2>5, <2>6, Confirms
      <3>2. Touches(t, u, id)
        BY <2>4, <3>1, TouchesTwice DEF Recorded, Confirmed
      <3>3. KeptBut(s.exec[id], u.exec[id], leg)
        BY <2>4, <3>1, ConfirmedKeeps
      <3>4. Recorded(t, u, id, leg, fid, fill)
        BY <2>4, <3>1, <3>2, <3>3 DEF Recorded, Confirmed, KeptBut
      <3> QED BY <1>4, <3>4
    <2>7. CASE ~confirm
      BY <1>4, <2>4, <2>5, <2>7
    <2> QED BY <2>6, <2>7
  <1> QED BY <1>6, <1>7

\* Settling keeps everything but the mark, and settles an execution whose legs are confirmed.
LEMMA Settling ==
    ASSUME NEW t, NEW id, Holds(t, id), NEW need \in BOOLEAN
    PROVE  Settles_(t, MarkSettled(t, id, need), id)
  <1>1. PICK x : x = t.exec[id]
    OBVIOUS
  <1>2. PICK y : y = [x EXCEPT !.settled = TRUE]
    OBVIOUS
  <1>3. PICK u : u = MarkSettled(t, id, need)
    OBVIOUS
  <1>4. /\ y \in Execution
        /\ y.strategy = x.strategy /\ y.source = x.source /\ y.fill = x.fill /\ y.confirmed = x.confirmed
        /\ y.settled = TRUE
    BY <1>1, <1>2 DEF Execution, Holds, Tracker
  <1>5. CASE need /\ ~HasConfirmedLegs(x)
    <2>1. u = t
      BY <1>1, <1>3, <1>5 DEF MarkSettled
    <2>2. Settles_(t, u, id)
      BY <1>1, <1>5, <2>1 DEF Settles_, Touches, Holds, Tracker
    <2> QED BY <1>3, <2>2
  <1>6. CASE ~(need /\ ~HasConfirmedLegs(x))
    <2>1. u = [t EXCEPT !.exec[id] = y, !.ids = t.ids]
      BY <1>1, <1>2, <1>3, <1>6 DEF MarkSettled, Holds, Tracker
    <2>2. Replaced(t, u, id, y, t.ids)
      BY <1>4, <2>1, Replacing
    <2>3. Settles_(t, u, id)
      BY <1>1, <1>4, <2>2 DEF Replaced, Settles_
    <2> QED BY <1>3, <2>3
  <1> QED BY <1>5, <1>6
\* Marking both legs of a confirmed receipt keeps its fills, its accounting and its settlement.
Marked(t, u, id, confirm) ==
    /\ Touches(t, u, id) /\ u.ids = t.ids
    /\ u.exec[id].strategy = t.exec[id].strategy /\ u.exec[id].fill = t.exec[id].fill
    /\ u.exec[id].settled = t.exec[id].settled
    /\ confirm => HasConfirmedLegs(u.exec[id])

\* What a receipt does to a tracker.
FreshFills(t, fill, fid) ==
    /\ \A l \in Leg : fill[l].size > 0 /\ fid[l] \notin t.ids
    /\ fid["sell"] = None \/ fid["sell"] # fid["buy"]
Receipted(t, u, id, strategy, fill, fid, confirm, settle) ==
    /\ Touches(t, u, id)
    /\ u.ids \subseteq t.ids \cup ({fid["buy"], fid["sell"]} \ {None})
    /\ confirm => HasConfirmedLegs(u.exec[id])
    /\ ~settle /\ u.exec[id].settled = TRUE => Has(t, id) /\ t.exec[id].settled = TRUE
    /\ ~Has(t, id) /\ FreshFills(t, fill, fid) =>
         /\ u.exec[id].strategy = strategy
         /\ \A l \in Leg : u.exec[id].fill[l] = AddFill(NoFill, fill[l])

\* Both legs are marked, one after the other.
LEMMA Marks ==
    ASSUME NEW t, NEW id, Holds(t, id), NEW confirm \in BOOLEAN,
           NEW u, u = IF confirm THEN MarkLegConfirmed(MarkLegConfirmed(t, id, "buy"), id, "sell") ELSE t
    PROVE  Marked(t, u, id, confirm)
  <1>1. CASE ~confirm
    <2>1. u = t
      BY <1>1
    <2> QED BY <1>1, <2>1 DEF Marked, Touches, Holds
  <1>2. CASE confirm
    <2>1. PICK s : s = MarkLegConfirmed(t, id, "buy")
      OBVIOUS
    <2>2. u = MarkLegConfirmed(s, id, "sell")
      BY <1>2, <2>1, Zenon
    <2>3. Confirmed(t, s, id, "buy")
      BY <2>1, Confirms DEF Leg
    <2>4. Holds(s, id) /\ Touches(t, s, id) /\ s.ids = t.ids
      BY <2>3, TouchedIsHeld DEF Confirmed
    <2>5. Confirmed(s, u, id, "sell")
      BY <2>2, <2>4, Confirms DEF Leg
    <2>6. Touches(t, u, id) /\ u.ids = t.ids
      BY <2>4, <2>5, TouchesTwice DEF Confirmed
    <2>7. KeptBut(t.exec[id], s.exec[id], "buy")
      BY <2>3, ConfirmedKeeps DEF Leg
    <2>8. KeptBut(s.exec[id], u.exec[id], "sell")
      BY <2>4, <2>5, ConfirmedKeeps DEF Leg
    <2>9. HasConfirmedLegs(u.exec[id])
      BY <2>7, <2>8 DEF KeptBut, HasConfirmedLegs, Leg
    <2> QED BY <2>6, <2>7, <2>8, <2>9 DEF Marked, KeptBut
  <1> QED BY <1>1, <1>2

\* A receipt registers its execution, adds a fill to each leg, and confirms or settles as it is told.
LEMMA Receipts ==
    ASSUME NEW t, Tracker(t), NEW id, NEW strategy \in Accounting, NEW source \in Source,
           NEW fill \in [Leg -> FillRecord], NEW fid, NEW confirm \in BOOLEAN, NEW settle \in BOOLEAN
    PROVE  Receipted(t, RecordExecutionReceipt(t, id, strategy, source, fill, fid, confirm, settle),
                     id, strategy, fill, fid, confirm, settle)
  <1>1. PICK t1 : t1 = RegisterExecution(t, id, strategy)
    OBVIOUS
  <1>2. PICK t2 : t2 = RecordFill(t1, id, "buy", fid["buy"], fill["buy"], source, confirm)
    OBVIOUS
  <1>3. PICK t3 : t3 = RecordFill(t2, id, "sell", fid["sell"], fill["sell"], source, confirm)
    OBVIOUS
  <1>4. PICK t4 : t4 = IF confirm THEN MarkLegConfirmed(MarkLegConfirmed(t3, id, "buy"), id, "sell") ELSE t3
    OBVIOUS
  <1>5. PICK u : u = IF settle THEN MarkSettled(t4, id, confirm) ELSE t4
    OBVIOUS
  <1>6. u = RecordExecutionReceipt(t, id, strategy, source, fill, fid, confirm, settle)
    BY <1>1, <1>2, <1>3, <1>4, <1>5, Zenon DEF RecordExecutionReceipt
  <1>7. Registered(t, t1, id, strategy)
    BY <1>1, Registers
  <1>8. Touches(t, t1, id) /\ t1.ids = t.ids /\ Holds(t1, id)
    BY <1>7, TouchedIsHeld DEF Registered
  <1>9. fill["buy"] \in FillRecord /\ fill["sell"] \in FillRecord /\ "buy" \in Leg /\ "sell" \in Leg
    BY DEF Leg
  <1>10. Recorded(t1, t2, id, "buy", fid["buy"], fill["buy"])
    BY <1>2, <1>8, <1>9, Records
  <1>11. Touches(t, t2, id) /\ Holds(t2, id)
    BY <1>8, <1>10, TouchesTwice, TouchedIsHeld DEF Recorded
  <1>12. Recorded(t2, t3, id, "sell", fid["sell"], fill["sell"])
    BY <1>3, <1>9, <1>11, Records
  <1>13. Touches(t, t3, id) /\ Holds(t3, id)
    BY <1>11, <1>12, TouchesTwice, TouchedIsHeld DEF Recorded
  <1>14. Marked(t3, t4, id, confirm)
    BY <1>4, <1>13, Marks
  <1>15. Touches(t, t4, id) /\ Holds(t4, id)
    BY <1>13, <1>14, TouchesTwice, TouchedIsHeld DEF Marked
  <1>16. u = t4 \/ (settle /\ Settles_(t4, u, id))
    BY <1>5, <1>15, Settling
  <1>17. /\ Touches(t, u, id) /\ u.ids = t4.ids
         /\ u.exec[id].strategy = t4.exec[id].strategy /\ u.exec[id].fill = t4.exec[id].fill
         /\ u.exec[id].confirmed = t4.exec[id].confirmed
         /\ ~settle => u.exec[id].settled = t4.exec[id].settled
    <2>1. CASE u = t4
      BY <1>15, <2>1
    <2>2. CASE settle /\ Settles_(t4, u, id)
      BY <1>15, <2>2, TouchesTwice DEF Settles_
    <2> QED BY <1>16, <2>1, <2>2
  <1>18. u.ids \subseteq t.ids \cup ({fid["buy"], fid["sell"]} \ {None})
    BY <1>8, <1>10, <1>12, <1>14, <1>17 DEF Recorded, Marked
  <1>19. confirm => HasConfirmedLegs(u.exec[id])
    BY <1>14, <1>17 DEF Marked, HasConfirmedLegs
  <1>20. /\ u.exec[id].strategy = t1.exec[id].strategy
         /\ ~settle => u.exec[id].settled = t1.exec[id].settled
    BY <1>10, <1>12, <1>14, <1>17 DEF Recorded, Marked
  <1>21. IF Has(t, id) THEN t1 = t ELSE t1.exec[id] = NewExecution(strategy)
    BY <1>7 DEF Registered
  <1>22. ASSUME ~settle, u.exec[id].settled = TRUE
         PROVE  Has(t, id) /\ t.exec[id].settled = TRUE
    BY <1>20, <1>21, <1>22 DEF NewExecution
  <1>23. ASSUME ~Has(t, id), FreshFills(t, fill, fid)
         PROVE  /\ u.exec[id].strategy = strategy
                /\ \A l \in Leg : u.exec[id].fill[l] = AddFill(NoFill, fill[l])
    <2>1. t1.exec[id].strategy = strategy /\ \A l \in Leg : t1.exec[id].fill[l] = NoFill
      BY <1>21, <1>23 DEF NewExecution
    <2>2. t2.exec[id].fill["buy"] = AddFill(NoFill, fill["buy"]) /\ t2.exec[id].fill["sell"] = NoFill
      BY <1>8, <1>9, <1>10, <1>23, <2>1 DEF Recorded, FreshFills, Leg
    <2>3. fid["sell"] \notin t2.ids
      BY <1>8, <1>9, <1>10, <1>23 DEF Recorded, FreshFills
    <2>4. /\ t3.exec[id].fill["sell"] = AddFill(NoFill, fill["sell"])
          /\ t3.exec[id].fill["buy"] = AddFill(NoFill, fill["buy"])
      BY <1>9, <1>12, <1>23, <2>2, <2>3 DEF Recorded, FreshFills, Leg
    <2>5. u.exec[id].fill = t3.exec[id].fill
      BY <1>14, <1>17 DEF Marked
    <2> QED BY <1>20, <2>1, <2>4, <2>5 DEF Leg
  <1>24. Receipted(t, u, id, strategy, fill, fid, confirm, settle)
    BY <1>17, <1>18, <1>19, <1>22, <1>23 DEF Receipted
  <1> QED BY <1>6, <1>24
-----------------------------------------------------------------------------
(***************************************************************************)
(* What a tracker of executions with deals d looks like.                   *)
(***************************************************************************)
FillIdsOf(t) == ((Exec \cap DOMAIN t.exec) \X Leg) \cup {<<"shared">>}

RightEntry(d, x) ==
    /\ x.strategy = d.strategy /\ d.volume > 0
    /\ \A l \in Leg : x.fill[l].size = d.volume /\ x.fill[l].notional = d.price[l] * d.volume

Books_(d, t) ==
    /\ Tracker(t) /\ t.ids \subseteq FillIdsOf(t)
    /\ \A e \in Exec \cap DOMAIN t.exec :
        d[e] \in Deal /\ (d[e].ids # "shared" => RightEntry(d[e], t.exec[e]))

\* What a receipt of an execution's deal does to a tracker.
Entered(t, u, e, settle) ==
    /\ Touches(t, u, e) /\ HasConfirmedLegs(u.exec[e])
    /\ ~settle => ~(u.exec[e].settled = TRUE)

\* Deals do not change: what was booked stays right when another execution gets its deal.
LEMMA DealsStand ==
    ASSUME NEW d, NEW t, Books_(d, t), NEW c, \A e \in Exec : d[e] \in Deal => c[e] = d[e]
    PROVE  Books_(c, t)
  BY DEF Books_

\* The size and notional of a leg that carries one fill.
LEMMA OneFill ==
    ASSUME NEW price \in Nat, NEW size \in Nat, NEW fee \in Nat
    PROVE  /\ FillOf(price, size, fee) \in FillRecord
           /\ FillOf(price, size, fee).size = size
           /\ AddFill(NoFill, FillOf(price, size, fee)).size = size
           /\ AddFill(NoFill, FillOf(price, size, fee)).notional = price * size
  <1>1. price * size \in Nat
    OBVIOUS
  <1> QED BY <1>1 DEF FillOf, FillRecord, AddFill, NoFill

\* What the executor may return, field by field.
LEMMA DealFields ==
    ASSUME NEW d \in Deal
    PROVE  /\ d # None /\ d.strategy \in Accounting /\ d.source \in Source /\ d.volume \in Nat
           /\ \A l \in Leg : d.price[l] \in Nat /\ d.fee[l] \in Nat
           /\ d.ids \in {"own", "none", "shared"} /\ d.residual \in BOOLEAN
  BY PnLAssumption DEF Accounting, Source

\* Booking an execution for the first time enters its deal.
LEMMA FirstReceipt ==
    ASSUME NEW e \in Exec, deal[e] \in Deal, deal[e].volume > 0,
           NEW t, Books_(deal, t), ~Has(t, e), NEW source \in Source, NEW settle \in BOOLEAN
    PROVE  \E u : /\ u = RecordExecutionReceipt(t, e, deal[e].strategy, source, Fills(e), FillIds(e), TRUE, settle)
                  /\ Entered(t, u, e, settle) /\ Books_(deal, u)
  <1>1. PICK d : d = deal[e]
    OBVIOUS
  <1>2. PICK fill : fill = Fills(e)
    OBVIOUS
  <1>3. PICK fid : fid = FillIds(e)
    OBVIOUS
  <1>4. PICK u : u = RecordExecutionReceipt(t, e, d.strategy, source, fill, fid, TRUE, settle)
    OBVIOUS
  <1>5. d \in Deal /\ d.volume > 0
    BY <1>1
  <1>6. /\ d # None /\ d.strategy \in Accounting /\ d.volume \in Nat
        /\ \A l \in Leg : d.price[l] \in Nat /\ d.fee[l] \in Nat
    BY <1>5, DealFields
  <1>7. fill = [l \in Leg |-> FillOf(d.price[l], d.volume, d.fee[l])]
    BY <1>1, <1>2 DEF Fills
  <1>8. /\ fill \in [Leg -> FillRecord]
        /\ \A l \in Leg : /\ fill[l].size = d.volume
                          /\ AddFill(NoFill, fill[l]).size = d.volume
                          /\ AddFill(NoFill, fill[l]).notional = d.price[l] * d.volume
    <2>1. \A l \in Leg : /\ FillOf(d.price[l], d.volume, d.fee[l]) \in FillRecord
                         /\ FillOf(d.price[l], d.volume, d.fee[l]).size = d.volume
                         /\ AddFill(NoFill, FillOf(d.price[l], d.volume, d.fee[l])).size = d.volume
                         /\ AddFill(NoFill, FillOf(d.price[l], d.volume, d.fee[l])).notional = d.price[l] * d.volume
      BY <1>6, OneFill, Zenon
    <2> QED BY ONLY <1>7, <2>1
  <1>9. Receipted(t, u, e, d.strategy, fill, fid, TRUE, settle)
    BY <1>4, <1>6, <1>8, Receipts DEF Books_
  <1>10. \A l \in Leg : fid[l] \in {None, <<"shared">>, <<e, l>>}
    BY <1>3 DEF FillIds
  <1>11. d.ids # "shared" => \A l \in Leg : fid[l] \in {None, <<e, l>>}
    BY <1>1, <1>3 DEF FillIds
  <1>12. Touches(t, u, e) /\ u.ids \subseteq t.ids \cup ({fid["buy"], fid["sell"]} \ {None})
    BY <1>9 DEF Receipted
  <1>13. DOMAIN u.exec = DOMAIN t.exec \cup {e} /\ Tracker(u)
    BY <1>12 DEF Touches
  <1>14. u.ids \subseteq FillIdsOf(u)
    <2>1. t.ids \subseteq FillIdsOf(u)
      BY <1>13 DEF FillIdsOf, Books_
    <2>2. \A l \in Leg : fid[l] # None => fid[l] \in FillIdsOf(u)
      BY <1>10, <1>13 DEF FillIdsOf
    <2> QED BY <1>12, <2>1, <2>2 DEF Leg
  <1>15. d.ids # "shared" => FreshFills(t, fill, fid)
    <2> SUFFICES ASSUME d.ids # "shared" PROVE FreshFills(t, fill, fid)
      OBVIOUS
    <2>1. \A l \in Leg : fid[l] \notin t.ids
      <3> TAKE l \in Leg
      <3>1. fid[l] \in {None, <<e, l>>}
        BY <1>11
      <3>2. <<e, l>> # <<"shared">>
        OBVIOUS
      <3>3. e \notin DOMAIN t.exec
        BY DEF Has
      <3>4. <<e, l>> \notin FillIdsOf(t)
        BY <3>2, <3>3 DEF FillIdsOf
      <3>5. None \notin FillIdsOf(t)
        BY PnLAssumption DEF FillIdsOf
      <3> QED BY <3>1, <3>4, <3>5 DEF Books_
    <2>2. fid["sell"] = None \/ fid["sell"] # fid["buy"]
      BY <1>11, PnLAssumption DEF Leg
    <2> QED BY <1>5, <1>8, <2>1, <2>2 DEF FreshFills
  <1>16. d.ids # "shared" => RightEntry(d, u.exec[e])
    BY <1>5, <1>8, <1>9, <1>15 DEF RightEntry, Receipted, Leg
  <1>17. Books_(deal, u)
    BY <1>1, <1>5, <1>12, <1>13, <1>14, <1>16 DEF Books_, Touches
  <1>18. Entered(t, u, e, settle)
    BY <1>9 DEF Receipted, Entered
  <1> QED BY <1>1, <1>2, <1>3, <1>4, <1>17, <1>18

\* A residual leg is on a record of its own.
LEMMA ResidualKeeps ==
    ASSUME NEW d, NEW e \in Exec, NEW t, Books_(d, t)
    PROVE  /\ Books_(d, RecordResidualExposure(t, e))
           /\ \A x \in Exec : Has(RecordResidualExposure(t, e), x) => Has(t, x)
  <1>1. PICK id : id = Residual(e)
    OBVIOUS
  <1>2. PICK fill : fill = [buy |-> FillOf(1, 1, 0), sell |-> NoFill]
    OBVIOUS
  <1>3. PICK fid : fid = [l \in Leg |-> None]
    OBVIOUS
  <1>4. PICK u : u = RecordExecutionReceipt(t, id, "same_outcome", "exchange", fill, fid, FALSE, FALSE)
    OBVIOUS
  <1>5. u = RecordResidualExposure(t, e)
    BY <1>1, <1>2, <1>3, <1>4, Zenon DEF RecordResidualExposure
  <1>6. fill \in [Leg -> FillRecord]
    BY <1>2 DEF Leg, FillOf, NoFill, FillRecord
  <1>7. Receipted(t, u, id, "same_outcome", fill, fid, FALSE, FALSE)
    BY <1>4, <1>6, Receipts DEF Books_, Accounting, Source
  <1>8. Touches(t, u, id) /\ u.ids \subseteq t.ids
    BY <1>3, <1>7 DEF Receipted, Leg
  <1>9. id \notin Exec
    BY <1>1, PnLAssumption DEF Residual
  <1>10. Exec \cap DOMAIN u.exec = Exec \cap DOMAIN t.exec
    BY <1>8, <1>9 DEF Touches
  <1>11. Books_(d, u)
    BY <1>8, <1>9, <1>10 DEF Books_, Touches, FillIdsOf
  <1> QED BY <1>5, <1>10, <1>11 DEF Has
-----------------------------------------------------------------------------
(***************************************************************************)
(* The ledger: every execution is on one row at most, and has its deal.    *)
(***************************************************************************)
Line == Exec \cup {"torn", "garbage"}
Rows(d, s) ==
    /\ s \in Seq(Line)
    /\ \A i \in DOMAIN s : s[i] \in Exec => d[s[i]] \in Deal
    /\ \A i, j \in DOMAIN s : s[i] = s[j] /\ s[i] \in Exec => i = j

\* A row added at the end, in place of a torn one if there is one.
LEMMA RowAdded ==
    ASSUME NEW s, NEW d, Rows(d, s), NEW line \in Line,
           NEW c, \A e \in Exec : d[e] \in Deal => c[e] = d[e],
           line \in Exec => c[line] \in Deal /\ d[line] \notin Deal,
           NEW r, r = IF s # <<>> /\ Last(s) = "torn" THEN Front(s) \o <<"garbage">> ELSE Append(s, line)
    PROVE  Rows(c, r)
  <1>1. \A i \in DOMAIN s : s[i] \in Exec => c[s[i]] \in Deal /\ s[i] # line
    BY DEF Rows
  <1>2. CASE s # <<>> /\ Last(s) = "torn"
    <2>1. PICK n \in Nat : n = Len(s) - 1
      <3>1. s \in Seq(Line)
        BY DEF Rows
      <3>2. Len(s) \in Nat /\ Len(s) # 0
        BY <1>2, <3>1, EmptySeq, LenProperties
      <3>3. Len(s) - 1 \in Nat
        BY <3>2
      <3> QED BY <3>3
    <2>2. r = SubSeq(s, 1, n) \o <<"garbage">>
      BY <1>2, <2>1 DEF Front
    <2>3. SubSeq(s, 1, n) \in Seq(Line) /\ Len(SubSeq(s, 1, n)) = n /\ \A i \in 1..n : SubSeq(s, 1, n)[i] = s[i]
      BY <2>1 DEF Rows
    <2>4. r \in Seq(Line) /\ Len(r) = n + 1 /\ r[n + 1] = "garbage" /\ \A i \in 1..n : r[i] = s[i]
      <3>1. PICK q \in Seq(Line) : q = SubSeq(s, 1, n)
        BY <2>3
      <3>2. PICK x \in Line : x = "garbage"
        BY DEF Line
      <3>3. r = Append(q, x)
        BY <2>2, <3>1, <3>2, AppendIsConcat
      <3>4. Len(q) = n /\ \A i \in 1..n : q[i] = s[i]
        BY <2>3, <3>1
      <3>5. Append(q, x) \in Seq(Line) /\ Len(Append(q, x)) = Len(q) + 1 /\ Append(q, x)[Len(q) + 1] = x
        BY AppendProperties
      <3>6. \A i \in 1..Len(q) : Append(q, x)[i] = q[i]
        BY AppendProperties
      <3> QED BY <3>2, <3>3, <3>4, <3>5, <3>6
    <2>5. DOMAIN r = 1..n + 1 /\ DOMAIN s = 1..n + 1 /\ "garbage" \notin Exec
      BY <2>1, <2>4, PnLAssumption DEF Rows
    <2>6. \A i \in DOMAIN r : r[i] \in Exec => i \in 1..n /\ r[i] = s[i] /\ i \in DOMAIN s
      <3> TAKE i \in DOMAIN r
      <3> HAVE r[i] \in Exec
      <3>1. r[n + 1] \notin Exec
        BY <2>4, <2>5
      <3>2. i \in 1..n
        BY <2>1, <2>5, <3>1
      <3>3. i \in DOMAIN s
        BY <2>1, <2>5, <3>2
      <3> QED BY <2>4, <3>2, <3>3
    <2> QED BY <1>1, <2>4, <2>6 DEF Rows
  <1>3. CASE ~(s # <<>> /\ Last(s) = "torn")
    <2>1. r = Append(s, line)
      BY <1>3
    <2> USE DEF Rows
    <2>2. r \in Seq(Line) /\ Len(r) = Len(s) + 1 /\ r[Len(s) + 1] = line /\ \A i \in 1..Len(s) : r[i] = s[i]
      <3>1. s \in Seq(Line)
        OBVIOUS
      <3> HIDE DEF Rows
      <3> QED BY ONLY <2>1, <3>1, AppendProperties, line \in Line
    <2>3. DOMAIN r = 1..Len(s) + 1 /\ DOMAIN s = 1..Len(s) /\ Len(s) \in Nat
      BY <2>2 DEF Rows
    <2>4. \A i \in DOMAIN r : i \in DOMAIN s \/ i = Len(s) + 1
      BY <2>3
    <2> QED BY <1>1, <2>2, <2>3, <2>4 DEF Rows
  <1> QED BY <1>2, <1>3

\* Deals do not change: the rows stay right when another execution gets its deal.
LEMMA RowsStand ==
    ASSUME NEW d, NEW s, Rows(d, s), NEW c, \A e \in Exec : d[e] \in Deal => c[e] = d[e]
    PROVE  Rows(c, s)
  BY DEF Rows

\* The rows that are left when the first is read.
LEMMA RowRead ==
    ASSUME NEW d, NEW s, Rows(d, s), s # <<>>
    PROVE  /\ Head(s) \in Line /\ (Head(s) \in Exec => d[Head(s)] \in Deal)
           /\ Rows(d, Tail(s))
           /\ \A i \in DOMAIN Tail(s) :
                /\ \E j \in DOMAIN s : Tail(s)[i] = s[j]
                /\ Tail(s)[i] \in Exec => Tail(s)[i] # Head(s)
  <1>1. s \in Seq(Line) /\ Len(s) \in Nat \ {0} /\ Head(s) = s[1] /\ 1 \in DOMAIN s
    BY DEF Rows
  <1>2. Tail(s) \in Seq(Line) /\ Len(Tail(s)) = Len(s) - 1 /\ \A i \in 1..Len(s) - 1 : Tail(s)[i] = s[i + 1]
    BY <1>1
  <1>3. DOMAIN Tail(s) = 1..Len(s) - 1 /\ DOMAIN s = 1..Len(s)
    BY <1>1, <1>2
  <1>4. \A i \in DOMAIN Tail(s) : i + 1 \in DOMAIN s /\ Tail(s)[i] = s[i + 1] /\ i + 1 # 1 /\ i \in Nat
    BY <1>1, <1>2, <1>3
  <1> QED BY <1>1, <1>2, <1>4 DEF Rows

\* An entry's profit is exact: the shares of its matched contracts are its notionals.
LEMMA EntryIsCash ==
    ASSUME NEW e \in Exec, deal[e] \in Deal, NEW x \in Execution, RightEntry(deal[e], x)
    PROVE  Gross(x) = deal[e].volume * CashPerContract(e)
  <1>1. PICK d : d = deal[e]
    OBVIOUS
  <1>2. PICK v : v = d.volume
    OBVIOUS
  <1>3. PICK b : b = d.price["buy"]
    OBVIOUS
  <1>4. PICK s : s = d.price["sell"]
    OBVIOUS
  <1>5. v \in Nat /\ v > 0 /\ b \in Nat /\ s \in Nat /\ d.strategy \in Accounting
    BY <1>1, <1>2, <1>3, <1>4, DealFields DEF RightEntry, Leg
  <1>6. /\ x.fill["buy"].size = v /\ x.fill["sell"].size = v /\ x.strategy = d.strategy
        /\ x.fill["buy"].notional = b * v /\ x.fill["sell"].notional = s * v
    BY <1>1, <1>2, <1>3, <1>4 DEF RightEntry, Leg
  <1>7. Matched(x) = v
    BY <1>6 DEF Matched
  <1>8. \A a \in Nat : (a * v * v) \div v = a * v
    BY <1>5
  <1>9. Share(x, "buy", x.fill["buy"].notional) = b * v /\ Share(x, "sell", x.fill["sell"].notional) = s * v
    BY <1>5, <1>6, <1>7, <1>8 DEF Share
  <1>10. PICK won \in Int : won = IF outcome = "yes" THEN Par ELSE 0
    BY PnLAssumption
  <1>11. Par \in Int
    BY PnLAssumption
  <1>12. CASE d.strategy = "complementary"
    <2>1. Gross(x) = Par * v - b * v - s * v
      BY <1>5, <1>6, <1>7, <1>9, <1>12 DEF Gross
    <2>2. CashPerContract(e) = (-b) + (-s) + won + (Par - won)
      <3>1. Pays(e, "buy") = won /\ Pays(e, "sell") = Par - won
        <4>1. deal[e].strategy = "complementary"
          BY <1>1, <1>12
        <4>2. Pays(e, "buy") = IF outcome = "yes" THEN Par ELSE 0
          BY Zenon DEF Pays
        <4>3. Pays(e, "sell") = Par - (IF outcome = "yes" THEN Par ELSE 0)
          BY <4>1, Zenon DEF Pays
        <4> QED BY <1>10, <4>2, <4>3
      <3> QED BY <1>1, <1>3, <1>4, <1>12, <3>1 DEF CashPerContract
    <2>3. CashPerContract(e) = Par - b - s
      BY <1>5, <1>10, <1>11, <2>2
    <2>4. v * (Par - b - s) = Par * v - b * v - s * v
      BY <1>5, <1>11
    <2> QED BY <1>1, <1>2, <2>1, <2>3, <2>4
  <1>13. CASE d.strategy = "same_outcome"
    <2>1. Gross(x) = s * v - b * v
      BY <1>5, <1>6, <1>7, <1>9, <1>13 DEF Gross
    <2>2. CashPerContract(e) = (-b) + s + won + (-won)
      BY <1>1, <1>3, <1>4, <1>10, <1>13 DEF CashPerContract, Pays
    <2>3. CashPerContract(e) = s - b
      BY <1>5, <1>10, <2>2
    <2>4. v * (s - b) = s * v - b * v
      BY <1>5
    <2> QED BY <1>1, <1>2, <2>1, <2>3, <2>4
  <1> QED BY <1>5, <1>12, <1>13 DEF Accounting
-----------------------------------------------------------------------------
(***************************************************************************)
(* The inductive invariant: the books of the trading process and of the    *)
(* reconcile command, and where the command's loop stands.                 *)
(***************************************************************************)
RunRecord == [pc : {"idle", "load", "buy", "sell", "kalshi", "polymarket", "done"}, mode : Mode,
        lines : Seq(Line), queue : Seq(Exec), kalshi : BOOLEAN, clean : BOOLEAN, late : BOOLEAN]

BooksInv ==
    /\ deal \in [Exec -> Deal \cup {None}] /\ booked \subseteq Exec
    /\ Books_(deal, mem) /\ \A e \in Exec : Has(mem, e) => e \in booked
    /\ Rows(deal, ledger)
ReplayInv ==
    /\ run \in RunRecord
    /\ Books_(deal, rec) /\ DOMAIN rec.exec \subseteq Exec
    /\ Rows(deal, run.lines)
    /\ \A i \in DOMAIN run.lines : run.lines[i] \notin DOMAIN rec.exec

Resolved == \A v \in Venue : stage[v] = "resolved"
IsSettled(e) == rec.exec[e].settled = TRUE
InQueue(q, e) == \E i \in DOMAIN q : q[i] = e
Queued(q, t) == \A i \in DOMAIN q : q[i] \in DOMAIN t.exec

\* What is settled is resolved, and what a clean late run has not settled it has yet to visit.
LoopInv ==
    /\ stage \in [Venue -> {"open", "closed", "resolved"}]
    /\ \A e \in DOMAIN rec.exec : HasConfirmedLegs(rec.exec[e])
    /\ \A e \in DOMAIN rec.exec : IsSettled(e) => Resolved
    /\ Queued(run.queue, rec)
    /\ run.kalshi => stage["kalshi"] = "resolved"
    /\ run.late => Resolved /\ run.pc # "load"
    /\ run.pc \in {"buy", "sell", "kalshi", "polymarket"} => run.queue # <<>>
    /\ run.pc \in {"idle", "done"} => run.queue = <<>>
    /\ run.pc = "load" => \A e \in DOMAIN rec.exec : InQueue(run.queue, e)
    /\ Settles(run.mode) /\ run.late /\ run.clean =>
         /\ run.pc = "polymarket" => run.kalshi
         /\ \A e \in DOMAIN rec.exec : IsSettled(e) \/ InQueue(run.queue, e)
PnLInv == BooksInv /\ ReplayInv /\ LoopInv

\* An empty tracker has nothing to get wrong.
LEMMA EmptyBooks ==
    ASSUME NEW d
    PROVE  Books_(d, EmptyTracker) /\ DOMAIN EmptyTracker.exec = {}
  BY DEF Books_, Tracker, EmptyTracker, FillIdsOf

\* Nothing is booked at first.
LEMMA PnLInits == PnLInit => PnLInv
  <1> SUFFICES ASSUME PnLInit PROVE PnLInv
    OBVIOUS
  <1>1. DOMAIN rec.exec = {} /\ Books_(deal, mem) /\ Books_(deal, rec) /\ DOMAIN mem.exec = {}
    BY EmptyBooks DEF PnLInit
  <1>2. Rows(deal, <<>>)
    BY DEF Rows
  <1>3. run = Idle /\ Idle \in RunRecord /\ run.lines = <<>> /\ run.queue = <<>> /\ run.pc = "idle" /\ ~run.kalshi /\ ~run.late
    BY DEF PnLInit, Idle, RunRecord, Mode
  <1>4. BooksInv
    BY <1>1, <1>2 DEF PnLInit, BooksInv, Has
  <1>5. ReplayInv
    BY <1>1, <1>2, <1>3 DEF ReplayInv
  <1>6. LoopInv
    BY <1>1, <1>3 DEF PnLInit, LoopInv, Queued
  <1> QED BY <1>4, <1>5, <1>6 DEF PnLInv

\* A step that leaves the command alone, and no deal changes, leaves its part of the invariant alone.
LEMMA CommandStands ==
    ASSUME ReplayInv, LoopInv, UNCHANGED <<stage, rec, run>>, \A e \in Exec : deal[e] \in Deal => deal'[e] = deal[e]
    PROVE  ReplayInv' /\ LoopInv'
  <1>1. ReplayInv'
    BY DealsStand, RowsStand DEF ReplayInv
  <1>2. LoopInv'
    BY DEF LoopInv, Resolved, IsSettled, Queued, InQueue, Settles
  <1> QED BY <1>1, <1>2

\* A line appended to the ledger.
LEMMA Appends ==
    ASSUME Rows(deal, ledger), NEW line \in Line, Append_(line), \A e \in Exec : deal[e] \in Deal => deal'[e] = deal[e],
           line \in Exec => deal'[line] \in Deal /\ deal[line] \notin Deal
    PROVE  Rows(deal, ledger)'
  <1>1. Rows(deal', ledger')
    BY RowAdded DEF Append_
  <1> QED BY <1>1

\* Capturing gives an execution its deal and its row.
LEMMA CapturesKeeps ==
    ASSUME PnLInv, NEW e \in Exec, Captures(e)
    PROVE  PnLInv'
  <1>1. BooksInv /\ ReplayInv /\ LoopInv
    BY DEF PnLInv
  <1>2. PICK d \in Deal : /\ deal' = [deal EXCEPT ![e] = d]
                          /\ mem' = IF d.residual THEN RecordResidualExposure(mem, e) ELSE mem
    BY DEF Captures
  <1>3. deal[e] = None /\ None \notin Deal /\ UNCHANGED <<booked, stage, rec, run>>
    BY PnLAssumption DEF Captures
  <1>4. deal' \in [Exec -> Deal \cup {None}] /\ deal'[e] = d
    BY <1>1, <1>2 DEF BooksInv
  <1>5. \A x \in Exec : deal[x] \in Deal => deal'[x] = deal[x]
    BY <1>1, <1>2, <1>3 DEF BooksInv
  <1>6. Books_(deal, mem) /\ Rows(deal, ledger) /\ \A x \in Exec : Has(mem, x) => x \in booked
    BY <1>1 DEF BooksInv
  <1>7. Books_(deal', mem)
    BY <1>5, <1>6, DealsStand
  <1>8. Books_(deal', mem') /\ \A x \in Exec : Has(mem', x) => Has(mem, x)
    BY <1>2, <1>7, ResidualKeeps
  <1>9. Rows(deal', ledger')
    <2>1. CASE UNCHANGED ledger
      BY <1>5, <1>6, <2>1, RowsStand
    <2>2. CASE Append_(e)
      BY <1>3, <1>4, <1>5, <1>6, <2>2, Appends DEF Line
    <2> QED BY <2>1, <2>2 DEF Captures
  <1>10. BooksInv'
    BY <1>1, <1>3, <1>4, <1>6, <1>8, <1>9 DEF BooksInv
  <1> QED BY <1>1, <1>3, <1>5, <1>10, CommandStands DEF PnLInv

\* Booking enters the deal of an execution that was not booked before.
LEMMA BooksKeeps ==
    ASSUME PnLInv, NEW e \in Exec, Books(e)
    PROVE  PnLInv'
  <1>1. BooksInv /\ ReplayInv /\ LoopInv
    BY DEF PnLInv
  <1>2. deal[e] \in Deal /\ ~Has(mem, e) /\ UNCHANGED <<deal, ledger, stage, rec, run>> /\ booked' = booked \cup {e}
    BY <1>1 DEF Books, BooksInv
  <1>3. deal[e].volume \in Nat /\ deal[e].source \in Source /\ (deal[e].source # "exchange") \in BOOLEAN
    BY <1>2, DealFields
  <1>4. Books_(deal, mem') /\ DOMAIN mem'.exec \subseteq DOMAIN mem.exec \cup {e}
    <2>1. CASE deal[e].volume = 0
      BY <1>1, <2>1 DEF Books, BooksInv
    <2>2. CASE deal[e].volume > 0
      <3>1. PICK u : /\ u = RecordExecutionReceipt(mem, e, deal[e].strategy, deal[e].source, Fills(e), FillIds(e), TRUE,
                                                   deal[e].source # "exchange")
                     /\ Entered(mem, u, e, deal[e].source # "exchange") /\ Books_(deal, u)
        BY <1>1, <1>2, <1>3, <2>2, FirstReceipt DEF BooksInv
      <3>2. mem' = u
        <4>1. deal[e].volume # 0
          BY <1>3, <2>2
        <4>2. mem' = BookReceipt(e)
          BY <4>1, Zenon DEF Books
        <4> QED BY <3>1, <4>2, Zenon DEF BookReceipt
      <3> QED BY <3>1, <3>2 DEF Entered, Touches
    <2> QED BY <1>3, <2>1, <2>2
  <1>5. BooksInv'
    BY <1>1, <1>2, <1>4 DEF BooksInv, Has
  <1> QED BY <1>1, <1>2, <1>5, CommandStands DEF PnLInv

\* A restart books nothing more for what it had not booked.
LEMMA RestartsKeeps ==
    ASSUME PnLInv, Restarts
    PROVE  PnLInv'
  <1>1. BooksInv /\ ReplayInv /\ LoopInv /\ UNCHANGED <<stage, rec, run>>
    BY DEF PnLInv, Restarts
  <1>2. Books_(deal', mem') /\ DOMAIN mem'.exec = {} /\ booked' \subseteq Exec
    BY EmptyBooks DEF Restarts
  <1>3. Rows(deal, ledger) /\ deal \in [Exec -> Deal \cup {None}]
    BY <1>1 DEF BooksInv
  <1>4. /\ deal' \in [Exec -> Deal \cup {None}] /\ Rows(deal', ledger')
        /\ \A x \in Exec : deal[x] \in Deal => deal'[x] = deal[x]
    <2>1. CASE UNCHANGED <<deal, ledger>>
      BY <1>3, <2>1
    <2>2. ASSUME NEW e \in Exec, NEW d \in Deal, deal[e] = None, deal' = [deal EXCEPT ![e] = d], Append_("torn")
          PROVE  /\ deal' \in [Exec -> Deal \cup {None}] /\ Rows(deal', ledger')
                 /\ \A x \in Exec : deal[x] \in Deal => deal'[x] = deal[x]
      <3>1. deal' \in [Exec -> Deal \cup {None}] /\ \A x \in Exec : deal[x] \in Deal => deal'[x] = deal[x]
        BY <1>3, <2>2, PnLAssumption
      <3>2. "torn" \in Line /\ "torn" \notin Exec
        BY PnLAssumption DEF Line
      <3> QED BY <1>3, <2>2, <3>1, <3>2, Appends
    <2> QED BY <2>1, <2>2 DEF Restarts
  <1>5. BooksInv'
    BY <1>2, <1>4 DEF BooksInv, Has
  <1> QED BY <1>1, <1>4, <1>5, CommandStands DEF PnLInv

\* A step of the command leaves the trading process's books alone.
LEMMA BooksStand ==
    ASSUME BooksInv, UNCHANGED <<deal, booked, mem, ledger>>
    PROVE  BooksInv'
  BY DEF BooksInv

\* Membership of a queue and of its tail.
LEMMA TailOfQueue ==
    ASSUME NEW q \in Seq(Exec), q # <<>>
    PROVE  /\ Tail(q) \in Seq(Exec) /\ \A i \in DOMAIN Tail(q) : \E j \in DOMAIN q : Tail(q)[i] = q[j]
           /\ Head(q) \in Exec /\ \E i \in DOMAIN q : Head(q) = q[i]
           /\ \A e : InQueue(q, e) => e = Head(q) \/ InQueue(Tail(q), e)
  <1>1. Len(q) \in Nat \ {0} /\ Head(q) = q[1] /\ DOMAIN q = 1..Len(q)
    OBVIOUS
  <1>2. Tail(q) \in Seq(Exec) /\ Len(Tail(q)) = Len(q) - 1 /\ \A i \in 1..Len(q) - 1 : Tail(q)[i] = q[i + 1]
    BY HeadTailProperties
  <1>3. DOMAIN Tail(q) = 1..Len(q) - 1
    BY <1>1, <1>2
  <1>4. \A i \in DOMAIN Tail(q) : i + 1 \in DOMAIN q /\ Tail(q)[i] = q[i + 1]
    BY <1>1, <1>2, <1>3
  <1>5. \A i \in DOMAIN q : i = 1 \/ (i - 1 \in DOMAIN Tail(q) /\ Tail(q)[i - 1] = q[i])
    BY <1>1, <1>2, <1>3
  <1>6. \A i \in DOMAIN Tail(q) : \E j \in DOMAIN q : Tail(q)[i] = q[j]
    BY <1>4
  <1>7. ASSUME NEW e, InQueue(q, e)
        PROVE  e = Head(q) \/ InQueue(Tail(q), e)
    <2>1. PICK i \in DOMAIN q : q[i] = e
      BY <1>7 DEF InQueue
    <2> QED BY <1>1, <1>5, <2>1 DEF InQueue
  <1>8. 1 \in DOMAIN q
    BY <1>1
  <1> QED BY <1>1, <1>2, <1>6, <1>7, <1>8

\* A queue with one more execution.
LEMMA Enqueued ==
    ASSUME NEW q \in Seq(Exec), NEW e \in Exec
    PROVE  /\ Append(q, e) \in Seq(Exec)
           /\ \A i \in DOMAIN Append(q, e) : Append(q, e)[i] = e \/ \E j \in DOMAIN q : Append(q, e)[i] = q[j]
           /\ InQueue(Append(q, e), e) /\ \A x : InQueue(q, x) => InQueue(Append(q, e), x)
  <1>1. PICK r : r = Append(q, e)
    OBVIOUS
  <1>2. /\ r \in Seq(Exec) /\ Len(r) = Len(q) + 1 /\ \A i \in 1..Len(q) : r[i] = q[i]
        /\ r[Len(q) + 1] = e
    BY <1>1, AppendProperties
  <1>3. DOMAIN r = 1..Len(q) + 1 /\ DOMAIN q = 1..Len(q) /\ Len(q) \in Nat
    BY <1>2
  <1>4. Len(q) + 1 \in DOMAIN r /\ DOMAIN q \subseteq DOMAIN r
    BY <1>3
  <1>5. \A i \in DOMAIN r : i = Len(q) + 1 \/ i \in DOMAIN q
    BY <1>3
  <1> QED BY <1>1, <1>2, <1>3, <1>4, <1>5 DEF InQueue

\* The command starts from an empty tracker and the ledger as it stands.
LEMMA LoadsKeeps ==
    ASSUME PnLInv, NEW m \in Mode, Loads(m)
    PROVE  PnLInv'
  <1>1. BooksInv /\ UNCHANGED <<deal, booked, mem, ledger>>
    BY DEF PnLInv, Loads
  <1>2. rec' = EmptyTracker /\ Rows(deal', ledger)
    BY <1>1 DEF Loads, BooksInv
  <1>3. /\ run' \in RunRecord /\ run'.lines = ledger /\ run'.queue = <<>> /\ run'.pc = "load"
        /\ ~run'.kalshi /\ ~run'.late
    <2>1. Idle \in RunRecord /\ Idle.queue = <<>> /\ ~Idle.kalshi /\ ~Idle.late
      BY DEF Idle, RunRecord, Mode
    <2>2. run' = [Idle EXCEPT !.pc = "load", !.mode = m, !.lines = ledger]
      BY DEF Loads
    <2> QED BY <1>2, <2>1, <2>2 DEF RunRecord, Rows
  <1>4. Books_(deal', rec') /\ DOMAIN rec'.exec = {}
    BY <1>2, EmptyBooks
  <1>5. ReplayInv'
    BY <1>2, <1>3, <1>4 DEF ReplayInv
  <1>6. stage' \in [Venue -> {"open", "closed", "resolved"}]
    BY DEF PnLInv, LoopInv, Loads
  <1>7. LoopInv'
    BY <1>3, <1>4, <1>6 DEF LoopInv, Queued
  <1> QED BY <1>1, <1>5, <1>7, BooksStand DEF PnLInv

\* A line of the ledger that is a receipt enters the deal of its execution, last in the queue.
LEMMA TrackerFromCaptureKeeps ==
    ASSUME PnLInv, TrackerFromCapture
    PROVE  PnLInv'
  <1>1. BooksInv /\ ReplayInv /\ LoopInv /\ UNCHANGED <<deal, booked, mem, ledger, stage>>
    BY DEF PnLInv, TrackerFromCapture
  <1>2. PICK line : line = Head(run.lines)
    OBVIOUS
  <1>3. /\ run.pc = "load" /\ run.lines # <<>>
        /\ rec' = (IF Receipt(line) THEN RecordLine(rec, line) ELSE rec)
        /\ run' = [run EXCEPT !.lines = Tail(run.lines),
                              !.queue = IF Receipt(line) /\ ~Has(rec, line) THEN Append(run.queue, line)
                                        ELSE run.queue]
    BY <1>2, Zenon DEF TrackerFromCapture
  <1>4. run \in RunRecord /\ Rows(deal, run.lines) /\ Books_(deal, rec) /\ DOMAIN rec.exec \subseteq Exec
    BY <1>1 DEF ReplayInv
  <1>5. /\ line \in Line /\ (line \in Exec => deal[line] \in Deal)
        /\ Rows(deal, Tail(run.lines))
        /\ \A i \in DOMAIN Tail(run.lines) :
             /\ \E j \in DOMAIN run.lines : Tail(run.lines)[i] = run.lines[j]
             /\ Tail(run.lines)[i] \in Exec => Tail(run.lines)[i] # line
    <2>1. PICK s : s = run.lines
      OBVIOUS
    <2>2. Rows(deal, s) /\ s # <<>> /\ line = Head(s)
      BY <1>2, <1>3, <1>4, <2>1
    <2>3. /\ Head(s) \in Line /\ (Head(s) \in Exec => deal[Head(s)] \in Deal) /\ Rows(deal, Tail(s))
          /\ \A i \in DOMAIN Tail(s) :
               /\ \E j \in DOMAIN s : Tail(s)[i] = s[j]
               /\ Tail(s)[i] \in Exec => Tail(s)[i] # Head(s)
      BY <2>2, RowRead
    <2> QED BY <2>1, <2>2, <2>3
  <1>6. \A i \in DOMAIN Tail(run.lines) :
          Tail(run.lines)[i] \in Exec => Tail(run.lines)[i] \notin DOMAIN rec.exec /\ Tail(run.lines)[i] # line
    BY <1>1, <1>5 DEF ReplayInv
  <1>7. line \notin DOMAIN rec.exec
    <2>1. 1 \in DOMAIN run.lines /\ line = run.lines[1]
      BY <1>2, <1>3, <1>4 DEF Rows
    <2> QED BY <1>1, <2>1 DEF ReplayInv
  <1>8. CASE ~Receipt(line)
    <2>1. rec' = rec /\ run' = [run EXCEPT !.lines = Tail(run.lines), !.queue = run.queue]
      BY <1>3, <1>8
    <2>2. /\ run' \in RunRecord /\ run'.lines = Tail(run.lines) /\ run'.queue = run.queue /\ run'.pc = run.pc
          /\ run'.mode = run.mode /\ run'.kalshi = run.kalshi /\ run'.late = run.late /\ run'.clean = run.clean
      BY <1>4, <1>5, <2>1 DEF RunRecord, Rows
    <2>3. ReplayInv'
      BY <1>1, <1>4, <1>5, <1>6, <2>1, <2>2 DEF ReplayInv
    <2>4. LoopInv'
      BY <1>1, <2>1, <2>2 DEF LoopInv, Resolved, IsSettled, Queued, Settles
    <2> QED BY <1>1, <2>3, <2>4, BooksStand DEF PnLInv
  <1>9. CASE Receipt(line)
    <2>1. line \in Exec /\ deal[line] \in Deal /\ deal[line].volume > 0 /\ ~Has(rec, line)
      BY <1>5, <1>7, <1>9 DEF Receipt, Has
    <2>2. PICK u : /\ u = RecordExecutionReceipt(rec, line, deal[line].strategy, "exchange", Fills(line), FillIds(line), TRUE, FALSE)
                   /\ Entered(rec, u, line, FALSE) /\ Books_(deal, u)
      BY <1>4, <2>1, FirstReceipt DEF Source
    <2>3. rec' = u
      <3>1. rec' = RecordLine(rec, line)
        BY <1>3, <1>9
      <3> QED BY <2>2, <3>1, Zenon DEF RecordLine
    <2>4. run' = [run EXCEPT !.lines = Tail(run.lines), !.queue = Append(run.queue, line)]
      BY <1>3, <1>9, <2>1
    <2>5. run.queue \in Seq(Exec)
      BY <1>4 DEF RunRecord
    <2>6. Append(run.queue, line) \in Seq(Exec)
      BY <2>1, <2>5, Enqueued
    <2>7. /\ run' \in RunRecord /\ run'.lines = Tail(run.lines) /\ run'.queue = Append(run.queue, line) /\ run'.pc = run.pc
          /\ run'.mode = run.mode /\ run'.kalshi = run.kalshi /\ run'.late = run.late /\ run'.clean = run.clean
      BY <1>4, <1>5, <2>4, <2>6 DEF RunRecord, Rows
    <2>8. /\ DOMAIN rec'.exec = DOMAIN rec.exec \cup {line} /\ \A x \in DOMAIN rec.exec \ {line} : rec'.exec[x] = rec.exec[x]
          /\ HasConfirmedLegs(rec'.exec[line]) /\ ~(rec'.exec[line].settled = TRUE)
      BY <2>2, <2>3 DEF Entered, Touches
    <2>9. ReplayInv'
      BY <1>1, <1>4, <1>5, <1>6, <2>1, <2>2, <2>3, <2>7, <2>8 DEF ReplayInv
    <2>10. Queued(run'.queue, rec')
      <3>1. Queued(run.queue, rec)
        BY <1>1 DEF LoopInv
      <3>2. \A i \in DOMAIN run'.queue : run'.queue[i] = line \/ \E j \in DOMAIN run.queue : run'.queue[i] = run.queue[j]
        BY <2>1, <2>5, <2>7, Enqueued
      <3> QED BY <2>8, <3>1, <3>2 DEF Queued
    <2>11. InQueue(run'.queue, line) /\ \A x : InQueue(run.queue, x) => InQueue(run'.queue, x)
      BY <2>1, <2>5, <2>7, Enqueued
    <2>12. \A x \in DOMAIN rec'.exec : HasConfirmedLegs(rec'.exec[x])
      BY <1>1, <2>8 DEF LoopInv
    <2>13. \A x \in DOMAIN rec'.exec : rec'.exec[x].settled = TRUE => Resolved'
      BY <1>1, <2>8 DEF LoopInv, IsSettled, Resolved
    <2>14. \A x \in DOMAIN rec'.exec : InQueue(run'.queue, x)
      BY <1>1, <1>3, <2>8, <2>11 DEF LoopInv
    <2>15. run'.pc = "load" /\ ~run'.late /\ (run'.kalshi => stage'["kalshi"] = "resolved")
      BY <1>1, <1>3, <1>4, <2>7 DEF LoopInv, RunRecord
    <2>16. LoopInv'
      BY <1>1, <2>10, <2>12, <2>13, <2>14, <2>15 DEF LoopInv, IsSettled
    <2> QED BY <1>1, <2>9, <2>16, BooksStand DEF PnLInv
  <1> QED BY <1>8, <1>9

\* The tracker keeps its executions and what they are worth; what it settles is resolved.
Amends(t, u) ==
    /\ \A d : Books_(d, t) => Books_(d, u)
    /\ DOMAIN u.exec = DOMAIN t.exec
    /\ \A x \in DOMAIN t.exec :
         /\ HasConfirmedLegs(t.exec[x]) => HasConfirmedLegs(u.exec[x])
         /\ t.exec[x].settled = TRUE => u.exec[x].settled = TRUE

AsGood(x, y) ==
    /\ y.strategy = x.strategy
    /\ \A l \in Leg : y.fill[l].size = x.fill[l].size /\ y.fill[l].notional = x.fill[l].notional
    /\ HasConfirmedLegs(x) => HasConfirmedLegs(y)
    /\ x.settled = TRUE => y.settled = TRUE

\* An entry that keeps its accounting, its sizes and its notionals is as right as it was.
LEMMA EntryAmended ==
    ASSUME NEW t, NEW u, NEW id, NEW y, Holds(t, id), Replaced(t, u, id, y, t.ids),
           AsGood(t.exec[id], y)
    PROVE  Amends(t, u)
  <1>1. /\ Tracker(u) /\ DOMAIN u.exec = DOMAIN t.exec /\ u.ids = t.ids /\ u.exec[id] = y
        /\ \A x \in DOMAIN t.exec \ {id} : u.exec[x] = t.exec[x]
    BY DEF Replaced, Touches, Holds
  <1>2. ASSUME NEW d, Books_(d, t)
        PROVE  Books_(d, u)
    <2>1. ASSUME NEW e \in Exec \cap DOMAIN t.exec
          PROVE  d[e] \in Deal /\ (d[e].ids # "shared" => RightEntry(d[e], u.exec[e]))
      <3>1. CASE e = id
        BY <1>1, <1>2, <2>1, <3>1 DEF Books_, RightEntry, AsGood
      <3>2. CASE e # id
        BY <1>1, <1>2, <2>1, <3>2 DEF Books_
      <3> QED BY <3>1, <3>2
    <2> QED BY <1>1, <1>2, <2>1 DEF Books_, FillIdsOf
  <1>3. \A x \in DOMAIN t.exec :
          /\ HasConfirmedLegs(t.exec[x]) => HasConfirmedLegs(u.exec[x])
          /\ t.exec[x].settled = TRUE => u.exec[x].settled = TRUE
    BY <1>1 DEF AsGood
  <1> QED BY <1>1, <1>2, <1>3 DEF Amends

FeeSet(t, u, id, leg, fee) == u = [t EXCEPT !.exec[id].fill[leg].fee = fee]
SettlesNone(t, u) == \A x \in DOMAIN t.exec : u.exec[x].settled = TRUE => t.exec[x].settled = TRUE

\* A fee from the venue changes the fee of one leg.
LEMMA FeeApplied ==
    ASSUME NEW t, NEW id, Holds(t, id), NEW leg \in Leg, NEW fee \in Nat, NEW u, FeeSet(t, u, id, leg, fee)
    PROVE  Amends(t, u) /\ SettlesNone(t, u)
  <1>1. PICK x : x = t.exec[id]
    OBVIOUS
  <1>2. PICK y : y = [x EXCEPT !.fill[leg].fee = fee]
    OBVIOUS
  <1>3. /\ y \in Execution
        /\ y.strategy = x.strategy /\ y.confirmed = x.confirmed /\ y.settled = x.settled
        /\ \A l \in Leg : y.fill[l].size = x.fill[l].size /\ y.fill[l].notional = x.fill[l].notional
    <2>1. x \in Execution
      BY <1>1 DEF Holds, Tracker
    <2>2. PICK f : f = [x.fill EXCEPT ![leg] = [x.fill[leg] EXCEPT !.fee = fee]]
      OBVIOUS
    <2>3. /\ f \in [Leg -> FillRecord]
          /\ \A l \in Leg : f[l].size = x.fill[l].size /\ f[l].notional = x.fill[l].notional
      BY <2>1, <2>2 DEF Execution, FillRecord
    <2>4. y = [x EXCEPT !.fill = f]
      BY <1>2, <2>1, <2>2 DEF Execution
    <2> QED BY <2>1, <2>3, <2>4 DEF Execution
  <1>4. u = [t EXCEPT !.exec[id] = y, !.ids = t.ids]
    BY <1>1, <1>2 DEF FeeSet, Holds, Tracker
  <1>5. Replaced(t, u, id, y, t.ids)
    BY <1>3, <1>4, Replacing
  <1>6. Amends(t, u)
    <2>1. AsGood(x, y)
      BY <1>3 DEF AsGood, HasConfirmedLegs
    <2> QED BY <1>1, <1>5, <2>1, EntryAmended
  <1>7. \A e \in DOMAIN t.exec : u.exec[e].settled = TRUE => t.exec[e].settled = TRUE
    BY <1>1, <1>3, <1>5 DEF Replaced, Touches
  <1> QED BY <1>6, <1>7 DEF SettlesNone

\* Settling an execution amends the tracker and settles it when its legs are confirmed.
LEMMA SettlingAmends ==
    ASSUME NEW t, NEW id, Holds(t, id), NEW u, u = MarkSettled(t, id, TRUE)
    PROVE  /\ Amends(t, u)
           /\ HasConfirmedLegs(t.exec[id]) => u.exec[id].settled = TRUE
           /\ \A x \in DOMAIN t.exec \ {id} : u.exec[x].settled = TRUE => t.exec[x].settled = TRUE
  <1>1. Settles_(t, u, id)
    BY Settling
  <1>2. Touches(t, u, id) /\ Tracker(u)
    BY <1>1 DEF Settles_, Touches
  <1>3. PICK y : y = u.exec[id]
    OBVIOUS
  <1>4. Replaced(t, u, id, y, t.ids)
    BY <1>1, <1>3 DEF Settles_, Replaced
  <1>5. /\ y.strategy = t.exec[id].strategy /\ y.fill = t.exec[id].fill /\ y.confirmed = t.exec[id].confirmed
        /\ HasConfirmedLegs(t.exec[id]) => y.settled = TRUE
    BY <1>1, <1>3 DEF Settles_
  <1>6. t.exec[id].settled = TRUE => y.settled = TRUE
    <2>1. PICK x : x = t.exec[id]
      OBVIOUS
    <2>2. CASE ~HasConfirmedLegs(x)
      BY <1>3, <2>1, <2>2 DEF MarkSettled
    <2>3. CASE HasConfirmedLegs(x)
      BY <1>5, <2>1, <2>3
    <2> QED BY <2>2, <2>3
  <1>7. Amends(t, u)
    <2>1. AsGood(t.exec[id], y)
      BY <1>5, <1>6 DEF AsGood, HasConfirmedLegs
    <2> QED BY <1>4, <2>1, EntryAmended
  <1> QED BY <1>2, <1>3, <1>5, <1>7 DEF Touches

\* Where the loop goes.
Moved(r, s, q) ==
    /\ s \in RunRecord /\ s.queue = q
    /\ s.lines = r.lines /\ s.mode = r.mode /\ s.kalshi = r.kalshi /\ s.clean = r.clean /\ s.late = r.late
    /\ s.pc \in {"buy", "kalshi", "done"} /\ (s.pc = "done" <=> q = <<>>)

\* The loop ends with an empty queue only.
LEMMA Going ==
    ASSUME NEW r \in RunRecord, NEW q \in Seq(Exec)
    PROVE  Moved(r, GoTo(r, q), q)
  BY DEF GoTo, RunRecord, Moved, Fetches

\* A step of the loop over the queue.
Visits ==
    /\ UNCHANGED <<deal, booked, mem, ledger, stage>>
    /\ run.pc # "load" /\ run' \in RunRecord
    /\ run'.lines = run.lines /\ run'.mode = run.mode /\ run'.late = run.late
    /\ run'.pc \in {"buy", "sell", "kalshi", "polymarket", "done"} /\ (run'.pc = "done" <=> run'.queue = <<>>)
    /\ run'.queue = run.queue \/ (run.queue # <<>> /\ run'.queue = Tail(run.queue))
    /\ run'.kalshi => stage["kalshi"] = "resolved"
    /\ run'.clean => run.clean
    /\ Amends(rec, rec')
    /\ \A e \in DOMAIN rec.exec : rec'.exec[e].settled = TRUE => IsSettled(e) \/ Resolved
    /\ Settles(run.mode) /\ run.late /\ run'.clean =>
         /\ run'.pc = "polymarket" => run'.kalshi
         /\ run'.queue # run.queue => rec'.exec[Head(run.queue)].settled = TRUE

\* Such a step keeps the invariant.
LEMMA VisitsKeeps ==
    ASSUME PnLInv, Visits
    PROVE  PnLInv'
  <1>1. BooksInv /\ ReplayInv /\ LoopInv
    BY DEF PnLInv
  <1>2. BooksInv'
    BY <1>1, BooksStand DEF Visits
  <1>3. DOMAIN rec'.exec = DOMAIN rec.exec /\ Books_(deal', rec')
    BY <1>1 DEF Visits, Amends, ReplayInv
  <1>4. ReplayInv'
    BY <1>1, <1>3 DEF ReplayInv, Visits
  <1>5. PICK q \in Seq(Exec) : q = run.queue
    BY <1>1 DEF ReplayInv, RunRecord
  <1>6. Queued(q, rec) /\ (run'.queue = q \/ (q # <<>> /\ run'.queue = Tail(q)))
    BY <1>1, <1>5 DEF LoopInv, Visits
  <1>7. Queued(run'.queue, rec')
    <2>1. CASE run'.queue = q
      BY <1>3, <1>6, <2>1 DEF Queued
    <2>2. CASE q # <<>> /\ run'.queue = Tail(q)
      <3>1. \A i \in DOMAIN Tail(q) : \E j \in DOMAIN q : Tail(q)[i] = q[j]
        BY <2>2, TailOfQueue
      <3> QED BY <1>3, <1>6, <2>2, <3>1 DEF Queued
    <2> QED BY <1>6, <2>1, <2>2
  <1>8. \A e \in DOMAIN rec.exec : InQueue(q, e) => InQueue(run'.queue, e) \/ (run'.queue # q /\ e = Head(q))
    <2>1. CASE run'.queue = q
      BY <2>1
    <2>2. CASE run'.queue # q
      <3>1. q # <<>> /\ run'.queue = Tail(q)
        BY <1>6, <2>2
      <3>2. \A e : InQueue(q, e) => e = Head(q) \/ InQueue(Tail(q), e)
        BY <3>1, TailOfQueue
      <3> QED BY <2>2, <3>1, <3>2
    <2> QED BY <2>1, <2>2
  <1>9. ASSUME Settles(run'.mode), run'.late, run'.clean
        PROVE  /\ run'.pc = "polymarket" => run'.kalshi
               /\ \A e \in DOMAIN rec'.exec : rec'.exec[e].settled = TRUE \/ InQueue(run'.queue, e)
    <2>1. Settles(run.mode) /\ run.late /\ run.clean
      BY <1>9 DEF Visits
    <2>2. \A e \in DOMAIN rec.exec : IsSettled(e) \/ InQueue(q, e)
      BY <1>1, <1>5, <2>1 DEF LoopInv
    <2>3. /\ run'.pc = "polymarket" => run'.kalshi
          /\ run'.queue # q => rec'.exec[Head(q)].settled = TRUE
      BY <1>5, <1>9, <2>1 DEF Visits
    <2>4. \A e \in DOMAIN rec.exec : IsSettled(e) => rec'.exec[e].settled = TRUE
      BY DEF Visits, Amends, IsSettled
    <2> QED BY <1>3, <1>8, <2>2, <2>3, <2>4
  <1>10. Resolved' <=> Resolved
    BY DEF Visits, Resolved
  <1>11. \A e \in DOMAIN rec'.exec : HasConfirmedLegs(rec'.exec[e]) /\ (rec'.exec[e].settled = TRUE => Resolved')
    <2>1. \A e \in DOMAIN rec.exec : HasConfirmedLegs(rec.exec[e]) /\ (IsSettled(e) => Resolved)
      BY <1>1 DEF LoopInv
    <2> QED BY <1>3, <1>10, <2>1 DEF Visits, Amends
  <1>12. /\ stage' \in [Venue -> {"open", "closed", "resolved"}]
         /\ run'.kalshi => stage'["kalshi"] = "resolved"
         /\ run'.late => Resolved' /\ run'.pc # "load"
         /\ run'.pc \in {"buy", "sell", "kalshi", "polymarket"} => run'.queue # <<>>
         /\ run'.pc \in {"idle", "done"} => run'.queue = <<>>
         /\ run'.pc # "load"
    BY <1>1, <1>10 DEF LoopInv, Visits
  <1>13. LoopInv'
    BY <1>7, <1>9, <1>11, <1>12 DEF LoopInv, IsSettled
  <1> QED BY <1>2, <1>4, <1>13 DEF PnLInv

\* The execution the loop is at is in the tracker.
LEMMA CurIsHeld ==
    ASSUME PnLInv, run.queue # <<>>
    PROVE  Holds(rec, Cur) /\ Cur \in Exec /\ HasConfirmedLegs(rec.exec[Cur])
  <1>1. PICK q \in Seq(Exec) : q = run.queue
    BY DEF PnLInv, ReplayInv, RunRecord
  <1>2. Head(q) \in Exec /\ \E i \in DOMAIN q : Head(q) = q[i]
    BY <1>1, TailOfQueue
  <1>3. Cur \in DOMAIN rec.exec
    BY <1>1, <1>2 DEF PnLInv, LoopInv, Queued, Cur
  <1> QED BY <1>1, <1>2, <1>3 DEF PnLInv, LoopInv, ReplayInv, Books_, Holds, Cur

\* A tracker left alone is amended by nothing.
LEMMA NothingAmended ==
    ASSUME NEW t
    PROVE  Amends(t, t)
  BY DEF Amends

\* The loop begins, over everything the ledger held or over nothing.
LEMMA ReconcilesKeeps ==
    ASSUME PnLInv, Reconciles
    PROVE  PnLInv'
  <1>1. /\ BooksInv /\ ReplayInv /\ LoopInv /\ run \in RunRecord /\ run.pc = "load"
        /\ UNCHANGED <<deal, booked, mem, ledger, stage, rec>>
    BY DEF PnLInv, Reconciles, ReplayInv
  <1>2. PICK r : r = [run EXCEPT !.late = \A v \in Venue : stage[v] = "resolved"]
    OBVIOUS
  <1>3. PICK q : q = IF run.mode = "report" THEN <<>> ELSE run.queue
    OBVIOUS
  <1>4. /\ r \in RunRecord /\ r.lines = run.lines /\ r.mode = run.mode /\ r.kalshi = run.kalshi /\ r.clean = run.clean
        /\ (r.late <=> Resolved)
    BY <1>1, <1>2 DEF RunRecord, Resolved
  <1>5. q \in Seq(Exec)
    BY <1>1, <1>3 DEF RunRecord
  <1>6. Moved(r, run', q)
    <2>1. run' = GoTo(r, q)
      BY <1>2, <1>3, Zenon DEF Reconciles
    <2> QED BY <1>4, <1>5, <2>1, Going
  <1>7. ReplayInv'
    BY <1>1, <1>4, <1>6 DEF ReplayInv, Moved
  <1>8. Queued(q, rec) /\ (Settles(run.mode) => q = run.queue)
    BY <1>1, <1>3 DEF LoopInv, Queued, Settles
  <1>9. \A e \in DOMAIN rec.exec : InQueue(run.queue, e)
    BY <1>1 DEF LoopInv
  <1>10. LoopInv'
    BY <1>1, <1>4, <1>6, <1>8, <1>9 DEF LoopInv, Moved, IsSettled, Resolved, Settles, Queued, InQueue
  <1> QED BY <1>1, <1>7, <1>10, BooksStand DEF PnLInv

\* A fee changes nothing the invariant speaks of.
LEMMA FetchesFillsKeeps ==
    ASSUME PnLInv, NEW leg \in Leg, FetchesFills(leg)
    PROVE  PnLInv'
  <1>1. ReplayInv /\ LoopInv /\ run \in RunRecord /\ run.pc = leg /\ UNCHANGED <<deal, booked, mem, ledger, stage>>
    BY DEF PnLInv, FetchesFills, ReplayInv
  <1>2. run.queue # <<>>
    BY <1>1 DEF LoopInv, Leg
  <1>3. Amends(rec, rec') /\ \A e \in DOMAIN rec.exec : rec'.exec[e].settled = TRUE => IsSettled(e)
    <2>1. CASE UNCHANGED rec
      BY <2>1, NothingAmended DEF IsSettled
    <2>2. ASSUME NEW fee \in Fee, AppliesFill(leg, fee)
          PROVE  Amends(rec, rec') /\ \A e \in DOMAIN rec.exec : rec'.exec[e].settled = TRUE => IsSettled(e)
      <3>1. fee \in Nat /\ Holds(rec, Cur)
        BY <1>2, <2>2, CurIsHeld, PnLAssumption
      <3>2. rec' = [rec EXCEPT !.exec[Cur].fill[leg].fee = fee]
        BY <2>2 DEF AppliesFill
      <3>3. Amends(rec, rec') /\ SettlesNone(rec, rec')
        <4>1. PICK id : id = Cur
          OBVIOUS
        <4>2. FeeSet(rec, rec', id, leg, fee)
          BY <3>2, <4>1, Zenon DEF FeeSet
        <4> QED BY <3>1, <4>1, <4>2, FeeApplied
      <3> QED BY <3>3 DEF IsSettled, SettlesNone
    <2> QED BY <2>1, <2>2 DEF FetchesFills
  <1>4. run' = AfterLeg(leg)
    BY DEF FetchesFills
  <1>5. Tail(run.queue) \in Seq(Exec)
    BY <1>1, <1>2 DEF RunRecord
  <1>6. \/ run' = [run EXCEPT !.pc = "sell"] \/ run' = [run EXCEPT !.pc = "kalshi"]
        \/ ~Settles(run.mode) /\ run' = GoTo(run, Tail(run.queue))
    BY <1>4, Zenon DEF AfterLeg
  <1>7. CASE run' = [run EXCEPT !.pc = "sell"] \/ run' = [run EXCEPT !.pc = "kalshi"]
    <2>1. /\ run' \in RunRecord /\ run'.pc \in {"sell", "kalshi"} /\ run'.queue = run.queue /\ run'.lines = run.lines
          /\ run'.mode = run.mode /\ run'.kalshi = run.kalshi /\ run'.clean = run.clean /\ run'.late = run.late
      BY <1>1, <1>7 DEF RunRecord
    <2>2. Visits
      BY <1>1, <1>2, <1>3, <2>1 DEF Visits, LoopInv, Leg
    <2> QED BY <2>2, VisitsKeeps
  <1>8. CASE ~Settles(run.mode) /\ run' = GoTo(run, Tail(run.queue))
    <2>1. Moved(run, run', Tail(run.queue))
      BY <1>1, <1>5, <1>8, Going
    <2>2. Visits
      BY <1>1, <1>2, <1>3, <1>8, <2>1 DEF Visits, LoopInv, Leg, Moved
    <2> QED BY <2>2, VisitsKeeps
  <1> QED BY <1>6, <1>7, <1>8

\* The first probe notes whether the market is resolved at Kalshi.
LEMMA ProbesKalshiKeeps ==
    ASSUME PnLInv, ProbesKalshi
    PROVE  PnLInv'
  <1>1. /\ ReplayInv /\ LoopInv /\ run \in RunRecord /\ run.pc = "kalshi"
        /\ UNCHANGED <<deal, booked, mem, ledger, stage, rec>>
    BY DEF PnLInv, ProbesKalshi, ReplayInv
  <1>2. PICK ok \in BOOLEAN : run' = [run EXCEPT !.pc = "polymarket", !.kalshi = ok /\ IsResolved("kalshi"),
                                                 !.clean = run.clean /\ ok]
    BY DEF ProbesKalshi
  <1>3. /\ run' \in RunRecord /\ run'.pc = "polymarket" /\ run'.queue = run.queue /\ run'.lines = run.lines
        /\ run'.mode = run.mode /\ run'.late = run.late
        /\ (run'.kalshi <=> ok /\ IsResolved("kalshi")) /\ (run'.clean <=> run.clean /\ ok)
    BY <1>1, <1>2 DEF RunRecord, IsResolved
  <1>4. run.queue # <<>> /\ Amends(rec, rec')
    BY <1>1, NothingAmended DEF LoopInv
  <1>5. run.late => IsResolved("kalshi")
    BY <1>1 DEF LoopInv, Resolved, Venue, IsResolved
  <1>6. Visits
    BY <1>1, <1>3, <1>4, <1>5 DEF Visits, LoopInv, IsResolved, IsSettled
  <1> QED BY <1>6, VisitsKeeps

\* The second probe settles the execution when both venues have resolved.
LEMMA ProbesPolymarketKeeps ==
    ASSUME PnLInv, ProbesPolymarket
    PROVE  PnLInv'
  <1>1. /\ ReplayInv /\ LoopInv /\ run \in RunRecord /\ run.pc = "polymarket"
        /\ UNCHANGED <<deal, booked, mem, ledger, stage>>
    BY DEF PnLInv, ProbesPolymarket, ReplayInv
  <1>2. PICK ok \in BOOLEAN : /\ rec' = IF run.kalshi /\ ok /\ IsResolved("polymarket")
                                        THEN MarkSettled(rec, Cur, TRUE) ELSE rec
                              /\ run' = GoTo([run EXCEPT !.clean = run.clean /\ ok], Tail(run.queue))
    BY DEF ProbesPolymarket
  <1>3. run.queue # <<>> /\ Holds(rec, Cur) /\ HasConfirmedLegs(rec.exec[Cur])
    BY <1>1, CurIsHeld DEF LoopInv
  <1>4. PICK r : r = [run EXCEPT !.clean = run.clean /\ ok]
    OBVIOUS
  <1>5. /\ r \in RunRecord /\ r.lines = run.lines /\ r.mode = run.mode /\ r.kalshi = run.kalshi
        /\ r.late = run.late /\ (r.clean <=> run.clean /\ ok)
    BY <1>1, <1>4 DEF RunRecord
  <1>6. Tail(run.queue) \in Seq(Exec)
    BY <1>1, <1>3 DEF RunRecord
  <1>7. Moved(r, run', Tail(run.queue))
    BY <1>2, <1>4, <1>5, <1>6, Going
  <1>8. /\ Amends(rec, rec') /\ \A e \in DOMAIN rec.exec : rec'.exec[e].settled = TRUE => IsSettled(e) \/ Resolved
        /\ run.kalshi /\ ok /\ IsResolved("polymarket") => rec'.exec[Cur].settled = TRUE
    <2>1. CASE run.kalshi /\ ok /\ IsResolved("polymarket")
      <3>1. rec' = MarkSettled(rec, Cur, TRUE)
        BY <1>2, <2>1
      <3>2. Resolved
        BY <1>1, <2>1 DEF LoopInv, IsResolved, Resolved, Venue
      <3>3. Amends(rec, rec') /\ (HasConfirmedLegs(rec.exec[Cur]) => rec'.exec[Cur].settled = TRUE)
        BY <1>3, <3>1, SettlingAmends
      <3> QED BY <1>3, <3>2, <3>3
    <2>2. CASE ~(run.kalshi /\ ok /\ IsResolved("polymarket"))
      <3>1. rec' = rec
        BY <1>2, <2>2
      <3> QED BY <2>2, <3>1, NothingAmended DEF IsSettled
    <2> QED BY <2>1, <2>2
  <1>9. Settles(run.mode) /\ run.late /\ run.clean /\ ok => run.kalshi /\ IsResolved("polymarket")
    BY <1>1 DEF LoopInv, Resolved, Venue, IsResolved
  <1>10. Visits
    BY <1>1, <1>3, <1>5, <1>7, <1>8, <1>9 DEF Visits, LoopInv, Moved, Cur
  <1> QED BY <1>10, VisitsKeeps

\* A market that moves has not been resolved before.
LEMMA VenueMovesKeeps ==
    ASSUME PnLInv, NEW v \in Venue, VenueMoves(v)
    PROVE  PnLInv'
  <1>1. BooksInv /\ ReplayInv /\ LoopInv /\ UNCHANGED <<deal, booked, mem, ledger, rec, run>>
    BY DEF PnLInv, VenueMoves
  <1>2. stage[v] # "resolved" /\ ~Resolved
    BY DEF VenueMoves, Resolved
  <1>3. /\ stage' \in [Venue -> {"open", "closed", "resolved"}]
        /\ \A w \in Venue : stage[w] = "resolved" => stage'[w] = "resolved"
    BY <1>1, <1>2 DEF LoopInv, VenueMoves
  <1>4. LoopInv'
    BY <1>1, <1>2, <1>3 DEF LoopInv, IsSettled, Queued, InQueue, Settles, Venue
  <1>5. ReplayInv'
    BY <1>1 DEF ReplayInv
  <1> QED BY <1>1, <1>4, <1>5, BooksStand DEF PnLInv

\* Every step keeps the invariant.
LEMMA PnLSteps == PnLInv /\ [PnLNext]_pnlVars => PnLInv'
  <1> SUFFICES ASSUME PnLInv, [PnLNext]_pnlVars PROVE PnLInv'
    OBVIOUS
  <1>1. CASE UNCHANGED pnlVars
    <2>1. UNCHANGED <<stage, rec, run>> /\ UNCHANGED <<deal, booked, mem, ledger>>
      BY <1>1 DEF pnlVars
    <2> QED BY <2>1, CommandStands, BooksStand DEF PnLInv
  <1>2. CASE \E e \in Exec : Captures(e) \/ Books(e)
    BY <1>2, CapturesKeeps, BooksKeeps
  <1>3. CASE Restarts
    BY <1>3, RestartsKeeps
  <1>4. CASE \E m \in Mode : Loads(m)
    BY <1>4, LoadsKeeps
  <1>5. CASE TrackerFromCapture \/ Reconciles
    BY <1>5, TrackerFromCaptureKeeps, ReconcilesKeeps
  <1>6. CASE \E l \in Leg : FetchesFills(l)
    BY <1>6, FetchesFillsKeeps
  <1>7. CASE ProbesKalshi \/ ProbesPolymarket
    BY <1>7, ProbesKalshiKeeps, ProbesPolymarketKeeps
  <1>8. CASE \E v \in Venue : VenueMoves(v)
    BY <1>8, VenueMovesKeeps
  <1> QED BY <1>1, <1>2, <1>3, <1>4, <1>5, <1>6, <1>7, <1>8 DEF PnLNext

\* The invariant holds in every reachable state.
LEMMA PnLInvariant == PnLSpec => []PnLInv
  BY PnLInits, PnLSteps, PTL DEF PnLSpec

\* Entries are exact.
LEMMA BooksAreCash == PnLInv => BookedIsCash
  <1> SUFFICES ASSUME PnLInv, NEW t \in {mem, rec}, NEW e \in Exec, Has(t, e), ~SharesId(e)
               PROVE  Gross(t.exec[e]) = deal[e].volume * CashPerContract(e)
    BY DEF BookedIsCash
  <1>1. Books_(deal, t)
    BY DEF PnLInv, BooksInv, ReplayInv
  <1>2. PICK x : x = t.exec[e]
    OBVIOUS
  <1>3. deal[e] \in Deal /\ RightEntry(deal[e], x) /\ x \in Execution
    BY <1>1, <1>2 DEF Books_, Has, SharesId, Tracker
  <1> QED BY <1>2, <1>3, EntryIsCash

\* What the summary lists.
LEMMA ReportsAreExact == PnLInv => ReportIsExact
  <1> SUFFICES ASSUME PnLInv PROVE ReportIsExact
    OBVIOUS
  <1>1. PICK sum : sum = Summarize(rec)
    OBVIOUS
  <1>2. sum.settled = Counted(rec) /\ sum.locked = LockedIn(rec)
    BY <1>1 DEF Summarize
  <1>3. \A e \in DOMAIN rec.exec : rec.exec[e] \in Execution /\ HasConfirmedLegs(rec.exec[e]) /\ (IsSettled(e) => Resolved)
    BY DEF PnLInv, ReplayInv, LoopInv, Books_, Tracker
  <1>4. \A e \in DOMAIN rec.exec : rec.exec[e].settled \in BOOLEAN /\ rec.exec[e].source # "simulation"
    BY <1>3 DEF Execution, Source
  <1>5. Counted(rec) # {} => Resolved
    BY <1>3, <1>4 DEF Counted, IsCounted, IsSettled
  <1>6. Counted(rec) \cup LockedIn(rec) = DOMAIN rec.exec
    BY <1>3, <1>4 DEF Counted, LockedIn, IsCounted, IsLocked
  <1>7. run.pc = "done" /\ Settles(run.mode) /\ run.late /\ run.clean => LockedIn(rec) = {}
    <2> SUFFICES ASSUME run.pc = "done", Settles(run.mode), run.late, run.clean, NEW e \in LockedIn(rec)
                 PROVE  FALSE
      OBVIOUS
    <2>1. e \in DOMAIN rec.exec /\ ~IsSettled(e)
      BY <1>4 DEF LockedIn, IsLocked, IsSettled
    <2>2. InQueue(run.queue, e) /\ run.queue = <<>>
      BY <2>1 DEF PnLInv, LoopInv
    <2> QED BY <2>2 DEF InQueue
  <1>8. /\ sum.settled # {} => \A v \in Venue : stage[v] = "resolved"
        /\ run.pc = "done" =>
            /\ sum.settled \cup sum.locked = DOMAIN rec.exec
            /\ Settles(run.mode) /\ run.late /\ run.clean => sum.locked = {}
    BY <1>2, <1>5, <1>6, <1>7 DEF Resolved
  <1> QED BY <1>1, <1>8, Zenon DEF ReportIsExact

\* What a tracker books for an execution is the cash its position makes, whatever the deal and
\* however often the process restarts or the ledger is replayed.
THEOREM BooksAreTheCash == PnLSpec => []BookedIsCash
  BY PnLInvariant, BooksAreCash, PTL

\* A finished run of the reconcile command leaves nothing out and realises nothing early.
THEOREM ReportsExactly == PnLSpec => []ReportIsExact
  BY PnLInvariant, ReportsAreExact, PTL

-----------------------------------------------------------------------------
(***************************************************************************)
(* The circuit breaker.                                                    *)
(***************************************************************************)
USE BreakerAssumption DEF BreakerAssumption

-----------------------------------------------------------------------------
(***************************************************************************)
(* Invariants of the specification.                                        *)
(***************************************************************************)

\* Every reachable state is well formed, for any number of callers.
THEOREM TypeCorrect == Spec => []TypeOK
  <1>1. Init => TypeOK
    <2>1. NewBreaker \in BreakerValue
      <3>1. /\ 0 \in 0..RecoveryTimeout /\ 0 \in 0..FailureThreshold
            /\ 0 \in 0..SuccessThreshold /\ MonitoringWindow \in 0..MonitoringWindow
        OBVIOUS
      <3> QED BY <3>1, Zenon DEF NewBreaker, BreakerValue, CircuitState
    <2>2. RecoveryTimeout \in 0..RecoveryTimeout /\ 0 \in 0..SuccessThreshold
      OBVIOUS
    <2> QED BY <2>1, <2>2, Zenon DEF Init, TypeOK, CallState
  <1>2. TypeOK /\ [Next]_vars => TypeOK'
    <2> SUFFICES ASSUME TypeOK, [Next]_vars PROVE TypeOK'
      OBVIOUS
    <2> USE DEF TypeOK
    <2>h. ASSUME NEW ok \in BOOLEAN, History(ok)
          PROVE  sinceOpen' \in 0..RecoveryTimeout /\ probed' \in 0..SuccessThreshold
      BY <2>h DEF History, Capped
    <2>1. ASSUME NEW c \in Caller, Admit(c) PROVE TypeOK'
      BY <2>1, <2>h, OperatorTypes DEF Admit, CallState
    <2>2. ASSUME NEW c \in Caller, Reject(c) PROVE TypeOK'
      BY <2>2, <2>h, OperatorTypes DEF Reject, CallState
    <2>3. ASSUME NEW c \in Caller, Succeed(c) PROVE TypeOK'
      BY <2>3, <2>h, OperatorTypes DEF Succeed, CallState
    <2>4. ASSUME NEW c \in Caller, Fail(c) PROVE TypeOK'
      BY <2>4, <2>h, OperatorTypes DEF Fail, CallState
    <2>5. ASSUME NEW c \in Caller, Cancel(c) PROVE TypeOK'
      BY <2>5 DEF Cancel, CallState
    <2>6. CASE Tick
      BY <2>6, OperatorTypes DEF Tick, Capped
    <2>7. CASE Heal
      BY <2>7 DEF Heal, CallState
    <2>8. CASE ManualReset
      BY <2>8, OperatorTypes DEF ManualReset
    <2>9. CASE UNCHANGED vars
      BY <2>9 DEF vars
    <2> QED BY <2>1, <2>2, <2>3, <2>4, <2>5, <2>6, <2>7, <2>8, <2>9 DEF Next, Calls
  <1> QED BY <1>1, <1>2, PTL DEF Spec

\* The inductive invariant.  StaysOpen is what CoolingOff rests on;
\* ThresholdsActedOn ties the breaker's own counters to the history.
BreakerInv == ThresholdsActedOn /\ StaysOpen

\* Outcomes may be recorded in any order and in any circuit state, and still
\* the breaker acts on each threshold the moment it is reached, and stays
\* open for the whole recovery timeout.
THEOREM Invariant == Spec => [](ThresholdsActedOn /\ StaysOpen)
  <1> USE DEF ThresholdsActedOn, StaysOpen
  <1>1. Init => BreakerInv
    <2> SUFFICES ASSUME Init PROVE BreakerInv
      OBVIOUS
    <2>1. breaker.state = "closed" /\ breaker.consecutive_failures = 0
      BY DEF Init, NewBreaker
    <2> QED BY <2>1 DEF Init, BreakerInv
  <1>2. TypeOK /\ BreakerInv /\ [Next]_vars => BreakerInv'
    <2> SUFFICES ASSUME TypeOK, BreakerInv, [Next]_vars PROVE BreakerInv'
      OBVIOUS
    <2> USE DEF BreakerInv
    <2>0. /\ breaker \in BreakerValue
          /\ breaker.state \in {"closed", "open", "half_open"}
          /\ breaker.changed \in 0..RecoveryTimeout
          /\ breaker.consecutive_failures \in 0..FailureThreshold
          /\ breaker.consecutive_successes \in 0..SuccessThreshold
          /\ sinceOpen \in 0..RecoveryTimeout
          /\ probed \in 0..SuccessThreshold
      <3>1. breaker \in BreakerValue
        BY DEF TypeOK
      <3> QED BY <3>1 DEF TypeOK, BreakerValue, CircuitState
    <2>a. CheckFailureRate(breaker) \in BreakerValue
      BY <2>0, OperatorTypes
    <2>1. ASSUME NEW c \in Caller, Admit(c) PROVE BreakerInv'
      <3>1. CASE breaker' = CheckFailureRate(breaker)
                 /\ breaker'.state # "open"
        BY <2>1, <3>1, <2>0, OperatorFields DEF Admit, History, Opens, HalfOpens
      <3>2. CASE /\ CheckFailureRate(breaker).state = "open"
                 /\ CheckFailureRate(breaker).changed >= RecoveryTimeout
                 /\ breaker' = TransitionToHalfOpen(CheckFailureRate(breaker))
        <4>1. breaker' .state = "half_open" /\ breaker'.consecutive_successes = 0
          BY <3>2, <2>a, OperatorFields
        <4>2. CheckFailureRate(breaker) = breaker
          BY <3>2, <2>0, OperatorFields
        <4>3. sinceOpen >= RecoveryTimeout
          BY <3>2, <4>2, <2>0
        <4>4. sinceOpen' = sinceOpen /\ probed' = 0
          BY <2>1, <4>1, <4>2, <3>2 DEF Admit, History, Opens, HalfOpens
        <4> QED BY <4>1, <4>3, <4>4, <2>0
      <3> QED BY <2>1, <3>1, <3>2 DEF Admit, Rejects, EnterCall, ShouldAttemptReset
    <2>2. ASSUME NEW c \in Caller, Reject(c) PROVE BreakerInv'
      BY <2>2, <2>0, OperatorFields DEF Reject, History, Opens, HalfOpens
    <2>3. ASSUME NEW c \in Caller, Succeed(c) PROVE BreakerInv'
      BY <2>3, <2>0, SuccessFields DEF Succeed, History, Opens, HalfOpens, Capped
    <2>4. ASSUME NEW c \in Caller, Fail(c) PROVE BreakerInv'
      BY <2>4, <2>0, FailureFields DEF Fail, History, Opens, HalfOpens, Capped
    <2>5. ASSUME NEW c \in Caller, Cancel(c) PROVE BreakerInv'
      BY <2>5 DEF Cancel
    <2>6. CASE Tick
      BY <2>6, <2>0, OperatorFields DEF Tick, Capped
    <2>7. CASE Heal
      BY <2>7 DEF Heal
    <2>8. CASE ManualReset
      BY <2>8, <2>0, OperatorFields DEF ManualReset
    <2>9. CASE UNCHANGED vars
      BY <2>9 DEF vars
    <2> QED BY <2>1, <2>2, <2>3, <2>4, <2>5, <2>6, <2>7, <2>8, <2>9 DEF Next, Calls
  <1> QED BY <1>1, <1>2, TypeCorrect, PTL DEF Spec, BreakerInv

\* call() admits nobody within recovery_timeout of the circuit opening.
THEOREM CoolingOffHolds == Spec => CoolingOff
  <1>1. TypeOK /\ StaysOpen /\ [Next]_vars =>
           [\A c \in Caller : call[c] = "idle" /\ call'[c] = "running"
                                 => sinceOpen >= RecoveryTimeout]_vars
    <2> SUFFICES ASSUME TypeOK, StaysOpen, Next, NEW c \in Caller,
                        call[c] = "idle", call'[c] = "running"
                 PROVE  sinceOpen >= RecoveryTimeout
      BY Zenon
    <2>1. breaker \in BreakerValue /\ sinceOpen \in 0..RecoveryTimeout
      BY DEF TypeOK
    <2>2. Admit(c)
      BY DEF Next, Calls, TypeOK, CallState, Admit, Reject, Succeed, Fail, Cancel,
             Tick, Heal, ManualReset
    <2>3. CASE sinceOpen < RecoveryTimeout
      <3>1. breaker.state = "open" /\ breaker.changed < RecoveryTimeout
        BY <2>3 DEF StaysOpen
      <3>2. Rejects(breaker)
        BY <2>1, <3>1 DEF Rejects, CheckFailureRate, ShouldAttemptReset, BreakerValue
      <3> QED BY <2>2, <3>2 DEF Admit
    <2> QED BY <2>1, <2>3
  <1> QED BY <1>1, TypeCorrect, Invariant, PTL DEF Spec, CoolingOff

-----------------------------------------------------------------------------
(***************************************************************************)
(* The operations controller: a pause takes hold, and a recurring job runs *)
(* once.                                                                   *)
(***************************************************************************)
HIDE BreakerAssumption DEF BreakerAssumption
USE IdsDistinct DEF IdsDistinct, Id, files, restOf

Entry == [id : Lane, status : {"queued", "running", "done"}, enabled : BOOLEAN]
Place == {"sleep", "track", "feed", "mode", "lanes", "topup", "paper"}

\* The part of the state that the proofs are about.
DeskOK ==
    /\ up \in BOOLEAN /\ mode \in {"running", "paused"}
    /\ tracked \in [Id -> {"none", "live", "dead"}]
    /\ stray \in [Id -> Nat]
    /\ queue \in Seq(Entry)
    /\ sched \in Place /\ http \in {"idle", "marked", "terminated"}
    /\ sincePause \in Nat /\ orphaned \in BOOLEAN

\* A pass that is about to launch although the mode is paused read the mode
\* before the last pause, and has started nothing since.
OvertakenOnce ==
    /\ sincePause <= 1
    /\ sched = "lanes" /\ mode = "paused" => sincePause = 0

NoStray == ~orphaned => \A j \in Paper \cup {"topup"} : stray[j] = 0

Inv == DeskOK /\ OvertakenOnce /\ NoStray

-----------------------------------------------------------------------------
(***************************************************************************)
(* Types.                                                                  *)
(***************************************************************************)

\* Rewriting the statuses of the queue keeps its type, and every id.
LEMMA QueueMap ==
    ASSUME queue \in Seq(Entry), NEW q, DOMAIN q = DOMAIN queue, q = [k \in DOMAIN queue |-> q[k]],
           \A k \in DOMAIN queue : q[k] \in Entry
    PROVE  q \in Seq(Entry)
  OBVIOUS

\* What an entry of the queue is, and stays when a field of it is set.
LEMMA EntryType ==
    ASSUME NEW e \in Entry
    PROVE  /\ e.id \in Lane
           /\ \A st \in {"queued", "running", "done"} : [e EXCEPT !.status = st] \in Entry
           /\ [e EXCEPT !.enabled = ~@] \in Entry
  <1>1. e.id \in Lane /\ e.enabled \in BOOLEAN
    BY DEF Entry
  <1>2. \A st \in {"queued", "running", "done"} : [e EXCEPT !.status = st] \in Entry
    BY DEF Entry
  <1>3. [e EXCEPT !.enabled = ~@] \in Entry
    BY DEF Entry
  <1> QED BY <1>1, <1>2, <1>3

\* A launch: the id that starts is a lane's, so no job gains a stray process.
LEMMA SpawnEffect ==
    ASSUME DeskOK, NEW i \in Id, Spawn(i), i \in Lane \/ tracked[i] # "live"
    PROVE  /\ tracked' \in [Id -> {"none", "live", "dead"}]
           /\ stray' \in [Id -> Nat]
           /\ \A j \in Paper \cup {"topup"} : stray'[j] = stray[j]
  BY DEF DeskOK, Spawn

\* The steps of the scheduler's pass.
LEMMA PassStep ==
    ASSUME Inv, Pass
    PROVE  Inv'
  <1> USE DEF Inv, At
  <1>1. CASE Reap
    <2>1. tracked' \in [Id -> {"none", "live", "dead"}]
      BY <1>1 DEF Reap, DeskOK
    <2>2. queue' \in Seq(Entry)
      <3>1. /\ DOMAIN queue' = DOMAIN queue
            /\ queue' = [k \in DOMAIN queue |-> queue'[k]]
            /\ \A k \in DOMAIN queue :
                  queue'[k] = queue[k] \/ queue'[k] = [queue[k] EXCEPT !.status = "done"]
        BY <1>1, Zenon DEF Reap
      <3>2. \A k \in DOMAIN queue : queue[k] \in Entry
        BY DEF DeskOK
      <3>3. \A k \in DOMAIN queue : queue'[k] \in Entry
        BY <3>1, <3>2, EntryType
      <3> QED BY <3>1, <3>3, QueueMap DEF DeskOK
    <2> QED BY <1>1, <2>1, <2>2 DEF Reap, DeskOK, Place, OvertakenOnce, NoStray
  <1>2. CASE TrackAndSweep
    BY <1>2 DEF TrackAndSweep, DeskOK, Place, OvertakenOnce, NoStray
  <1>3. CASE FeedCodex
    BY <1>3 DEF FeedCodex, DeskOK, Place, OvertakenOnce, NoStray
  <1>4. CASE ReadMode
    BY <1>4 DEF ReadMode, DeskOK, Place, OvertakenOnce, NoStray
  <1>5. CASE LaunchLane
    <2>1. CASE UNCHANGED <<queue, tracked, stray, sincePause>>
      BY <1>5, <2>1 DEF LaunchLane, DeskOK, Place, OvertakenOnce, NoStray
    <2>2. ASSUME NEW k \in Launchable,
                 queue' = [queue EXCEPT ![k].status = "running"], Spawn(queue[k].id),
                 sincePause' = IF mode = "paused" THEN sincePause + 1 ELSE sincePause
          PROVE  Inv'
      <3>1. k \in DOMAIN queue
        BY DEF Launchable
      <3>2. queue[k] \in Entry
        BY <3>1 DEF DeskOK
      <3>3. queue' = [queue EXCEPT ![k] = [queue[k] EXCEPT !.status = "running"]]
        BY <2>2, Zenon
      <3>4. queue' \in Seq(Entry)
        <4>1. [queue[k] EXCEPT !.status = "running"] \in Entry
          BY <3>2, EntryType
        <4> QED BY <3>1, <3>3, <4>1 DEF DeskOK
      <3>5. queue[k].id \in Lane
        BY <3>2, EntryType
      <3>6. /\ tracked' \in [Id -> {"none", "live", "dead"}]
            /\ stray' \in [Id -> Nat]
            /\ \A j \in Paper \cup {"topup"} : stray'[j] = stray[j]
        BY <2>2, <3>5, SpawnEffect
      <3> QED BY <1>5, <2>2, <3>4, <3>6 DEF LaunchLane, DeskOK, Place, OvertakenOnce, NoStray
    <2> QED BY <1>5, <2>1, <2>2 DEF LaunchLane
  <1>6. CASE TopUp
    <2>1. CASE UNCHANGED <<due, tracked, stray>>
      BY <1>6, <2>1 DEF TopUp, DeskOK, Place, OvertakenOnce, NoStray
    <2>2. CASE tracked["topup"] # "live" /\ Spawn("topup")
      <3>1. /\ tracked' \in [Id -> {"none", "live", "dead"}]
            /\ stray' \in [Id -> Nat]
            /\ \A j \in Paper \cup {"topup"} : stray'[j] = stray[j]
        BY <2>2, SpawnEffect
      <3> QED BY <1>6, <3>1 DEF TopUp, DeskOK, Place, OvertakenOnce, NoStray
    <2> QED BY <1>6, <2>1, <2>2 DEF TopUp
  <1>7. CASE PaperJobs
    <2>1. tracked' \in [Id -> {"none", "live", "dead"}]
      BY <1>7 DEF PaperJobs, DeskOK
    <2>2. stray' = stray
      BY <1>7 DEF PaperJobs, Startable, DeskOK
    <2> QED BY <1>7, <2>1, <2>2 DEF PaperJobs, DeskOK, Place, OvertakenOnce, NoStray
  <1> QED BY <1>1, <1>2, <1>3, <1>4, <1>5, <1>6, <1>7 DEF Pass

\* The steps of the HTTP threads.
LEMMA HttpStep ==
    ASSUME Inv, Http
    PROVE  Inv'
  <1> USE DEF Inv
  <1>1. CASE Run
    BY <1>1 DEF Run, DeskOK, OvertakenOnce, NoStray
  <1>0. \A k \in DOMAIN queue : queue[k] \in Entry
    BY DEF DeskOK
  <1>2. CASE Pause
    <2>1. queue' \in Seq(Entry)
      <3>1. /\ DOMAIN queue' = DOMAIN queue
            /\ queue' = [k \in DOMAIN queue |-> queue'[k]]
            /\ \A k \in DOMAIN queue :
                  queue'[k] = queue[k] \/ queue'[k] = [queue[k] EXCEPT !.status = "queued"]
        BY <1>2, Zenon DEF Pause
      <3>2. \A k \in DOMAIN queue : queue'[k] \in Entry
        BY <1>0, <3>1, EntryType
      <3> QED BY <3>1, <3>2, QueueMap DEF DeskOK
    <2> QED BY <1>2, <2>1 DEF Pause, DeskOK, OvertakenOnce, NoStray
  <1>3. CASE TerminateChildren
    BY <1>3 DEF TerminateChildren, DeskOK, OvertakenOnce, NoStray
  <1>4. CASE KillAgents
    BY <1>4 DEF KillAgents, DeskOK, OvertakenOnce, NoStray
  <1>5. ASSUME NEW l \in Lane, Enqueue(l) PROVE Inv'
    <2>1. Item(l) \in Entry
      BY DEF Item, Entry
    <2>2. queue' \in Seq(Entry)
      BY <1>5, <2>1 DEF Enqueue, DeskOK
    <2> QED BY <1>5, <2>2 DEF Enqueue, DeskOK, OvertakenOnce, NoStray
  <1>6. ASSUME NEW l \in Lane, LaneToggle(l) PROVE Inv'
    <2>1. queue' \in Seq(Entry)
      <3>1. /\ DOMAIN queue' = DOMAIN queue
            /\ queue' = [k \in DOMAIN queue |-> queue'[k]]
            /\ \A k \in DOMAIN queue :
                  queue'[k] = queue[k] \/ queue'[k] = [queue[k] EXCEPT !.enabled = ~@]
        BY <1>6, Zenon DEF LaneToggle
      <3>2. \A k \in DOMAIN queue : queue'[k] \in Entry
        BY <1>0, <3>1, EntryType
      <3> QED BY <3>1, <3>2, QueueMap DEF DeskOK
    <2> QED BY <1>6, <2>1 DEF LaneToggle, DeskOK, OvertakenOnce, NoStray
  <1> QED BY <1>1, <1>2, <1>3, <1>4, <1>5, <1>6 DEF Http

\* Processes end, time passes, and the controller dies and restarts.
LEMMA OtherSteps ==
    ASSUME Inv, Ends \/ Clock \/ Crash \/ CrashInSpawn \/ Restart \/ UNCHANGED controllerVars
    PROVE  Inv'
  <1> USE DEF Inv
  <1>1. ASSUME NEW i \in Id, ChildEnds(i) PROVE Inv'
    BY <1>1 DEF ChildEnds, DeskOK, OvertakenOnce, NoStray
  <1>2. ASSUME NEW t \in Task, AgentEnds(t) PROVE Inv'
    BY <1>2 DEF AgentEnds, DeskOK, OvertakenOnce, NoStray
  <1>3. CASE Clock
    BY <1>3 DEF Clock, DeskOK, OvertakenOnce, NoStray
  <1>4. CASE Crash
    <2>1. up' \in BOOLEAN /\ orphaned' \in BOOLEAN
      BY <1>4, Zenon DEF Crash, Dies, DeskOK
    <2> QED BY <1>4, <2>1 DEF Crash, Dies, DeskOK, Place, OvertakenOnce, NoStray
  <1>5. CASE CrashInSpawn
    <2>0. up' \in BOOLEAN /\ orphaned' \in BOOLEAN /\ orphaned'
      BY <1>5, Zenon DEF CrashInSpawn, Dies
    <2>1. PICK i \in Id :
            /\ \/ \E k \in Launchable : queue' = [queue EXCEPT ![k].status = "running"]
               \/ UNCHANGED queue
            /\ \/ UNCHANGED stray
               \/ stray' = [stray EXCEPT ![i] = @ + 1]
      BY <1>5, Zenon DEF CrashInSpawn
    <2>2. stray' \in [Id -> Nat]
      BY <2>1 DEF DeskOK
    <2>3. queue' \in Seq(Entry)
      <3>1. ASSUME NEW k \in Launchable, queue' = [queue EXCEPT ![k].status = "running"]
            PROVE  queue' \in Seq(Entry)
        <4>1. k \in DOMAIN queue
          BY DEF Launchable
        <4>2. queue[k] \in Entry
          BY <4>1 DEF DeskOK
        <4>3. queue' = [queue EXCEPT ![k] = [queue[k] EXCEPT !.status = "running"]]
          BY <3>1, Zenon
        <4>4. [queue[k] EXCEPT !.status = "running"] \in Entry
          BY <4>2, EntryType
        <4> QED BY <4>1, <4>3, <4>4 DEF DeskOK
      <3> QED BY <2>1, <3>1 DEF DeskOK
    <2> QED BY <1>5, <2>0, <2>2, <2>3 DEF CrashInSpawn, Dies, DeskOK, Place, OvertakenOnce, NoStray
  <1>6. CASE Restart
    <2>1. up' \in BOOLEAN
      BY <1>6, Zenon DEF Restart
    <2>2. tracked' \in [Id -> {"none", "live", "dead"}]
      BY <1>6 DEF Restart, DeskOK
    <2> QED BY <1>6, <2>1, <2>2 DEF Restart, DeskOK, OvertakenOnce, NoStray
  <1>7. CASE UNCHANGED controllerVars
    BY <1>7 DEF controllerVars, DeskOK, OvertakenOnce, NoStray
  <1> QED BY <1>1, <1>2, <1>3, <1>4, <1>5, <1>6, <1>7 DEF Ends

\* The invariant is inductive.
LEMMA InvStep == Inv /\ [ControllerNext]_controllerVars => Inv'
  BY PassStep, HttpStep, OtherSteps DEF ControllerNext

\* It holds initially: the controller starts paused, with nothing running.
LEMMA InvInit == ControllerInit => Inv
  <1> SUFFICES ASSUME ControllerInit PROVE Inv
    OBVIOUS
  <1>1. up \in BOOLEAN /\ orphaned \in BOOLEAN
    BY Zenon DEF ControllerInit
  <1>2. queue \in Seq(Entry)
    BY DEF ControllerInit
  <1> QED BY <1>1, <1>2 DEF ControllerInit, Inv, DeskOK, Place, OvertakenOnce, NoStray

-----------------------------------------------------------------------------
(***************************************************************************)
(* Theorems.                                                               *)
(***************************************************************************)

\* The inductive invariant holds in every reachable state.
THEOREM InvHolds == ControllerSpec => []Inv
  BY InvStep, InvInit, PTL DEF ControllerSpec

\* However RUN, PAUSE, crashes and the scheduler's pass interleave, at most
\* one lane starts after a pause (controller.py scheduler_loop, set_paused).
THEOREM PauseIsObeyed == ControllerSpec => []PauseTakesHold
  <1>1. Inv => PauseTakesHold
    BY DEF Inv, OvertakenOnce, PauseTakesHold
  <1> QED BY <1>1, InvHolds, PTL

\* Unless the controller died inside a launch, no recurring job has a process
\* beside the one on record (controller.py _maybe_paper, _maybe_topup).
THEOREM JobsRunOnce == ControllerSpec => []OneInstance
  <1>1. Inv => OneInstance
    BY DEF Inv, NoStray, OneInstance
  <1> QED BY <1>1, InvHolds, PTL

-----------------------------------------------------------------------------
(***************************************************************************)
(* The operator's controls: a flatten that nothing disturbed leaves the    *)
(* account flat, for any tickers and tokens and any number of orders.      *)
(***************************************************************************)
USE OperatorAssumption DEF OperatorAssumption, Market, Proc, Kind,
    switchVars, traderVars, flattenVars

FlattenTypes ==
    /\ tripped \in [Proc -> BOOLEAN] /\ sentinel \in BOOLEAN
    /\ live \in [Kind -> [Market -> Nat]]
    /\ opened \in 0..MaxOpen /\ owned \in [Market -> Nat]
    /\ pos \in [Market -> Int] /\ seen \in [Market -> Int]
    /\ used \subseteq Kalshi \X Int
    /\ pc \in {"idle", "read", "place", "wait"}
    /\ venue \in {"kalshi", "polymarket"}
    /\ at \in Market
    /\ alone \in BOOLEAN /\ missed \in BOOLEAN

\* What the halt guarantees while a flatten that began alone runs: no trade is
\* running and none of the trader's orders is live.
Still ==
    /\ sentinel
    /\ owned = Zero
    /\ live["open"] = Zero /\ live["hedge"] = Zero

Passed(m) == venue = "polymarket" /\ m \in Kalshi

\* Market m is as flatten_all believes it to be: nothing of it is live, and
\* its position is the one read and not yet dealt with.
Known(m) ==
    /\ Over(m)
    /\ m \in VenueMarkets => pos[m] = seen[m]
    /\ m \notin VenueMarkets => seen[m] = 0
    /\ Passed(m) => pos[m] = 0

\* What has to happen in market m for its flatten order to end flat.
Closing(m) ==
    /\ seen[m] = 0
    /\ pos[m] + live["buy"][m] - live["sell"][m] = 0

MarketInv(m) ==
    /\ pc = "idle" => Over(m) /\ pos[m] = 0
    /\ pc = "read" => Over(m) /\ (Passed(m) => pos[m] = 0)
    /\ pc = "place" => Known(m)
    /\ pc = "wait" => IF m = at THEN Closing(m) /\ m \in VenueMarkets ELSE Known(m)

FlatInv ==
    /\ alone => Still
    /\ alone /\ ~missed => \A m \in Market : MarketInv(m)

OperatorInv == FlattenTypes /\ FlatInv

-----------------------------------------------------------------------------
(***************************************************************************)
(* Types.                                                                  *)
(***************************************************************************)

\* Posting n contracts keeps the books' type and changes one entry.
LEMMA PostsEffect ==
    ASSUME FlattenTypes, NEW k \in Kind, NEW m \in Market, NEW n \in Nat, Posts(k, m, n)
    PROVE  /\ live' \in [Kind -> [Market -> Nat]]
           /\ live'[k][m] = live[k][m] + n
           /\ \A j \in Kind, q \in Market : <<j, q>> # <<k, m>> => live'[j][q] = live[j][q]
           /\ \A j \in Kind : j # k => live'[j] = live[j]
  BY DEF FlattenTypes, Posts

\* What fills or expires leaves one entry smaller, and never negative.
LEMMA TakenEffect ==
    ASSUME FlattenTypes, NEW k \in Kind, NEW m \in Market, NEW n \in 1..live[k][m],
           live' = [live EXCEPT ![k][m] = @ - n]
    PROVE  /\ live' \in [Kind -> [Market -> Nat]]
           /\ live'[k][m] = live[k][m] - n
           /\ \A j \in Kind, q \in Market : <<j, q>> # <<k, m>> => live'[j][q] = live[j][q]
           /\ \A j \in Kind : j # k => live'[j] = live[j]
  <1>1. live[k][m] \in Nat /\ live[k][m] - n \in Nat
    BY DEF FlattenTypes
  <1> QED BY <1>1 DEF FlattenTypes

\* The contracts of a flatten order: the position, unsigned.
LEMMA SizeType == \A n \in Int : Size(n) \in Nat /\ UnwindKind(n) \in {"sell", "buy"}
  BY DEF Size, UnwindKind

\* A fill moves the position up or down by a whole number.
LEMMA FillType == \A k \in Kind, n \in Nat : Sign(k) * n \in Int
  BY DEF Sign

\* Tripping and resetting keep the switches' types.
LEMMA SwitchTypes ==
    ASSUME FlattenTypes, NEW p \in Proc, NEW ok \in BOOLEAN, Trip(p, ok) \/ ResetSwitch(p, ok)
    PROVE  tripped' \in [Proc -> BOOLEAN] /\ sentinel' \in BOOLEAN
  BY Zenon DEF FlattenTypes, Trip, ResetSwitch

\* Every step keeps the types.
LEMMA TypeStep ==
    ASSUME FlattenTypes, [OperatorNext]_operatorVars
    PROVE  FlattenTypes'
  <1>1. ASSUME NEW p \in Proc, Halts(p) PROVE FlattenTypes'
    BY <1>1, SwitchTypes, Zenon DEF Halts, FlattenTypes
  <1>2. CASE Resumes
    <2>1. tripped' \in [Proc -> BOOLEAN] /\ sentinel' \in BOOLEAN
      BY <1>2, SwitchTypes, Zenon DEF Resumes
    <2> QED BY <1>2, <2>1, Zenon DEF Resumes, FlattenTypes
  <1>3. CASE TraderRestarts
    <2>1. tripped' \in [Proc -> BOOLEAN]
      BY <1>3, Zenon DEF TraderRestarts, FlattenTypes
    <2>2. owned' \in [Market -> Nat]
      BY <1>3 DEF TraderRestarts, Zero
    <2> QED BY <1>3, <2>1, <2>2, Zenon DEF TraderRestarts, FlattenTypes
  <1>4. CASE OperatorRestarts
    <2>1. tripped' \in [Proc -> BOOLEAN] /\ missed' \in BOOLEAN
      BY <1>4, Zenon DEF OperatorRestarts, FlattenTypes
    <2>2. seen' \in [Market -> Int] /\ pc' = "idle"
      BY <1>4 DEF OperatorRestarts, Zero
    <2> QED BY <1>4, <2>1, <2>2, Zenon DEF OperatorRestarts, FlattenTypes
  <1>5. ASSUME NEW m \in Market, OpensOrder(m) PROVE FlattenTypes'
    <2>1. live' \in [Kind -> [Market -> Nat]]
      BY <1>5, PostsEffect DEF OpensOrder
    <2>2. opened' \in 0..MaxOpen
      BY <1>5 DEF OpensOrder, FlattenTypes
    <2> QED BY <1>5, <2>1, <2>2, Zenon DEF OpensOrder, FlattenTypes
  <1>6. ASSUME NEW m \in Market, Hedges(m) PROVE FlattenTypes'
    <2>1. live' \in [Kind -> [Market -> Nat]]
      BY <1>6, PostsEffect DEF Hedges
    <2>2. owned' \in [Market -> Nat]
      BY <1>6 DEF Hedges, FlattenTypes
    <2> QED BY <1>6, <2>1, <2>2, Zenon DEF Hedges, FlattenTypes
  <1>7. ASSUME NEW m \in Market, Matches(m) PROVE FlattenTypes'
    <2>1. owned' \in [Market -> Nat]
      BY <1>7 DEF Matches, FlattenTypes
    <2> QED BY <1>7, <2>1, Zenon DEF Matches, FlattenTypes
  <1>8. CASE FlattenStarts
    <2>1. tripped' \in [Proc -> BOOLEAN] /\ sentinel' \in BOOLEAN
      BY <1>8, SwitchTypes, Zenon DEF FlattenStarts
    <2>2. alone' \in BOOLEAN
      BY <1>8, Zenon DEF FlattenStarts
    <2> QED BY <1>8, <2>1, <2>2, Zenon DEF FlattenStarts, FlattenTypes
  <1>9. CASE Reads
    <2>1. seen' \in [Market -> Int]
      BY <1>9 DEF Reads, FlattenTypes
    <2> QED BY <1>9, <2>1, Zenon DEF Reads, FlattenTypes
  <1>10. CASE ReadFails
    BY <1>10, Zenon DEF ReadFails, FlattenTypes
  <1>11. CASE Returns
    BY <1>11, Zenon DEF Returns, FlattenTypes
  <1>12. CASE NextVenue
    BY <1>12, Zenon DEF NextVenue, FlattenTypes
  <1>13. ASSUME NEW m \in Market, Places(m) PROVE FlattenTypes'
    <2>1. live' \in [Kind -> [Market -> Nat]]
      <3>1. seen[m] \in Int
        BY DEF FlattenTypes
      <3> QED BY <1>13, <3>1, SizeType, PostsEffect DEF Places
    <2>2. seen' \in [Market -> Int] /\ used' \subseteq Kalshi \X Int
      BY <1>13 DEF Places, FlattenTypes, ClientId
    <2> QED BY <1>13, <2>1, <2>2, Zenon DEF Places, FlattenTypes
  <1>14. ASSUME NEW m \in Market, PlaceFails(m) PROVE FlattenTypes'
    <2>1. seen' \in [Market -> Int]
      BY <1>14 DEF PlaceFails, FlattenTypes
    <2> QED BY <1>14, <2>1, Zenon DEF PlaceFails, FlattenTypes
  <1>15. ASSUME NEW k \in Kind, NEW m \in Market, NEW n \in 1..live[k][m], VenueFills(k, m, n)
         PROVE  FlattenTypes'
    <2>1. live' \in [Kind -> [Market -> Nat]]
      BY <1>15, TakenEffect DEF VenueFills
    <2>2. n \in Nat
      BY DEF FlattenTypes
    <2>3. pos' \in [Market -> Int]
      BY <1>15, <2>2, FillType DEF VenueFills, FlattenTypes
    <2>4. owned' \in [Market -> Nat]
      BY <1>15, <2>2 DEF VenueFills, FlattenTypes
    <2> QED BY <1>15, <2>1, <2>3, <2>4, Zenon DEF VenueFills, FlattenTypes
  <1>16. ASSUME NEW k \in Kind, NEW m \in Market, NEW n \in 1..live[k][m], Expires(k, m, n)
         PROVE  FlattenTypes'
    <2>1. live' \in [Kind -> [Market -> Nat]]
      BY <1>16, TakenEffect DEF Expires
    <2> QED BY <1>16, <2>1, Zenon DEF Expires, FlattenTypes
  <1>17. CASE UNCHANGED operatorVars
    BY <1>17, Zenon DEF operatorVars, FlattenTypes
  <1> QED BY <1>1, <1>2, <1>3, <1>4, <1>5, <1>6, <1>7, <1>8, <1>9, <1>10, <1>11, <1>12,
             <1>13, <1>14, <1>15, <1>16, <1>17 DEF OperatorNext, FlattenStep, VenueStep
-----------------------------------------------------------------------------
(***************************************************************************)
(* The inductive invariant.                                                *)
(***************************************************************************)

\* While the sentinel lies there the trader neither opens nor, with no trade
\* running, unwinds: what a flatten began with stays so until it is resumed.
LEMMA StillStep ==
    ASSUME FlattenTypes, alone => Still, [OperatorNext]_operatorVars
    PROVE  alone' => Still'
  <1> SUFFICES ASSUME alone' PROVE Still'
    OBVIOUS
  <1>1. ASSUME NEW p \in Proc, Halts(p) PROVE Still'
    BY <1>1, Zenon DEF Halts, Trip, Still
  <1>2. CASE Resumes
    BY <1>2 DEF Resumes
  <1>3. CASE TraderRestarts
    BY <1>3 DEF TraderRestarts, Still
  <1>4. ASSUME NEW m \in Market, OpensOrder(m) PROVE Still'
    BY <1>4 DEF OpensOrder, IsActive, Still
  <1>5. ASSUME NEW m \in Market, Hedges(m) \/ Matches(m) PROVE Still'
    <2>1. alone /\ owned = Zero /\ owned[m] > 0
      BY <1>5 DEF Hedges, Matches, Still
    <2> QED BY <2>1 DEF Zero
  <1>6. CASE FlattenStarts
    BY <1>6, Zenon DEF FlattenStarts, Trip, Quiet, Still
  <1>7. CASE Reads \/ ReadFails \/ Returns \/ NextVenue \/ OperatorRestarts \/ UNCHANGED operatorVars
    BY <1>7 DEF Reads, ReadFails, Returns, NextVenue, OperatorRestarts, operatorVars, Still
  <1>8. ASSUME NEW m \in Market, Places(m) PROVE Still'
    <2>1. Size(seen[m]) \in Nat /\ UnwindKind(seen[m]) \in {"sell", "buy"}
      BY SizeType DEF FlattenTypes
    <2>2. live'["open"] = live["open"] /\ live'["hedge"] = live["hedge"]
      BY <1>8, <2>1, PostsEffect DEF Places
    <2> QED BY <1>8, <2>2 DEF Places, Still
  <1>9. ASSUME NEW m \in Market, PlaceFails(m) PROVE Still'
    BY <1>9 DEF PlaceFails, Still
  <1>10. ASSUME NEW k \in Kind, NEW m \in Market, NEW n \in 1..live[k][m],
                VenueFills(k, m, n) \/ Expires(k, m, n)
         PROVE  Still'
    <2>0. Still
      BY <1>10 DEF VenueFills, Expires
    <2>1. k \notin {"open", "hedge"}
      BY <2>0 DEF Still, Zero
    <2>2. live'["open"] = live["open"] /\ live'["hedge"] = live["hedge"]
      BY <1>10, <2>1, TakenEffect DEF VenueFills, Expires
    <2> QED BY <1>10, <2>0, <2>1, <2>2 DEF VenueFills, Expires, Still
  <1> QED BY <1>1, <1>2, <1>3, <1>4, <1>5, <1>6, <1>7, <1>8, <1>9, <1>10
          DEF OperatorNext, FlattenStep, VenueStep

\* What is known of a market depends on these variables alone.
LEMMA MarketFrame ==
    ASSUME NEW m \in Market, MarketInv(m), UNCHANGED <<pc, venue, seen, at>>,
           pos'[m] = pos[m], live'["sell"][m] = live["sell"][m],
           live'["buy"][m] = live["buy"][m]
    PROVE  MarketInv(m)'
  BY DEF MarketInv, Known, Closing, Over, Passed, VenueMarkets

\* The steps of flatten_all that read, place, wait and go on keep every market
\* as it is believed to be, unless something is missed.
LEMMA FlattenKeeps ==
    ASSUME FlattenTypes, alone => Still, alone /\ ~missed => \A m \in Market : MarketInv(m),
           FlattenStep, alone', ~missed', NEW m \in Market
    PROVE  MarketInv(m)'
  <1>1. CASE FlattenStarts
    <2>1. Quiet /\ pc' = "read" /\ venue' = "kalshi" /\ live' = live
      BY <1>1, Zenon DEF FlattenStarts
    <2>2. Over(m)'
      BY <2>1 DEF Quiet, Zero, Over
    <2> QED BY <2>1, <2>2 DEF MarketInv, Passed
  <1>8. ASSUME ~FlattenStarts PROVE alone /\ ~missed
    <2>1. CASE Returns
      BY <2>1, Zenon DEF Returns, FlattenTypes
    <2>2. ASSUME NEW q \in Market, Places(q) \/ PlaceFails(q) PROVE alone /\ ~missed
      BY <2>2, Zenon DEF Places, PlaceFails, FlattenTypes
    <2>3. CASE Reads \/ ReadFails \/ NextVenue
      <3>1. alone' = alone /\ (missed' = missed \/ missed' = TRUE)
        BY <2>3 DEF Reads, ReadFails, NextVenue
      <3> QED BY <3>1, Zenon DEF FlattenTypes
    <2> QED BY <1>8, <2>1, <2>2, <2>3 DEF FlattenStep
  <1> SUFFICES ASSUME alone, ~missed, ~FlattenStarts PROVE MarketInv(m)'
    BY <1>1, <1>8
  <1>0. MarketInv(m)
    OBVIOUS
  <1>2. CASE Reads
    BY <1>0, <1>2 DEF Reads, MarketInv, Known, Over, Passed, VenueMarkets, FlattenTypes
  <1>3. CASE ReadFails
    BY <1>3 DEF ReadFails
  <1>4. CASE Returns
    <2>1. Over(at)
      BY <1>4 DEF Returns
    <2>2. pos[m] \in Int /\ seen[m] \in Int
      BY DEF FlattenTypes
    <2>3. Known(m)
      BY <1>0, <1>4, <2>1, <2>2
         DEF Returns, MarketInv, Known, Closing, Over, Passed, VenueMarkets
    <2> QED BY <1>4, <2>3 DEF Returns, MarketInv, Known, Over, Passed, VenueMarkets
  <1>5. CASE NextVenue
    <2>1. Over(m) /\ (Passed(m) => pos[m] = 0) /\ (m \in VenueMarkets => pos[m] = 0)
      BY <1>0, <1>5 DEF NextVenue, MarketInv, Known, Zero
    <2> QED BY <1>5, <2>1 DEF NextVenue, MarketInv, Over, Passed, VenueMarkets
  <1>6. ASSUME NEW q \in Market, Places(q) PROVE MarketInv(m)'
    <2>0. MarketInv(q) /\ Known(q) /\ Known(m) /\ seen[q] # 0 /\ seen[q] \in Int
      BY <1>6 DEF Places, MarketInv, FlattenTypes
    <2>1. q \in VenueMarkets /\ pos[q] = seen[q] /\ live["sell"][q] = 0 /\ live["buy"][q] = 0
      BY <2>0 DEF Known, Over
    <2>2. Size(seen[q]) \in Nat /\ UnwindKind(seen[q]) \in {"sell", "buy"}
      BY <2>0, SizeType
    <2>3. /\ live'[UnwindKind(seen[q])][q] = live[UnwindKind(seen[q])][q] + Size(seen[q])
          /\ \A j \in Kind, x \in Market :
                <<j, x>> # <<UnwindKind(seen[q]), q>> => live'[j][x] = live[j][x]
      BY <1>6, <2>2, PostsEffect DEF Places
    <2>4. CASE m = q
      <3>1. pos[q] + live'["buy"][q] - live'["sell"][q] = 0
        BY <2>0, <2>1, <2>3 DEF UnwindKind, Size
      <3>2. seen'[q] = 0 /\ pos' = pos /\ venue' = venue /\ pc' = "wait" /\ at' = q
        BY <1>6 DEF Places, FlattenTypes
      <3> QED BY <2>1, <2>4, <3>1, <3>2 DEF MarketInv, Closing, VenueMarkets
    <2>5. CASE m # q
      <3>1. live'["sell"][m] = live["sell"][m] /\ live'["buy"][m] = live["buy"][m]
        BY <2>3, <2>5
      <3>2. seen'[m] = seen[m] /\ pos' = pos /\ venue' = venue /\ pc' = "wait" /\ at' = q
        BY <1>6, <2>5 DEF Places, FlattenTypes
      <3>3. Known(m)'
        BY <2>0, <3>1, <3>2 DEF Known, Over, Passed, VenueMarkets
      <3> QED BY <2>5, <3>2, <3>3 DEF MarketInv
    <2> QED BY <2>4, <2>5
  <1>7. ASSUME NEW q \in Market, PlaceFails(q) PROVE MarketInv(m)'
    BY <1>7 DEF PlaceFails
  <1> QED BY <1>2, <1>3, <1>4, <1>5, <1>6, <1>7 DEF FlattenStep

\* What fills is what a flatten order was to do; what expires is missed.
LEMMA VenueKeeps ==
    ASSUME FlattenTypes, alone => Still, alone /\ ~missed => \A m \in Market : MarketInv(m),
           VenueStep, alone', ~missed', NEW m \in Market
    PROVE  MarketInv(m)'
  <1>1. PICK k \in Kind, q \in Market : \E n \in 1..live[k][q] : VenueFills(k, q, n) \/ Expires(k, q, n)
    BY DEF VenueStep
  <1>2. PICK n \in 1..live[k][q] : VenueFills(k, q, n) \/ Expires(k, q, n)
    BY <1>1
  <1>3. alone /\ ~missed /\ Still /\ MarketInv(m) /\ MarketInv(q)
    <2>1. alone' = alone /\ (missed => missed')
      <3>1. CASE VenueFills(k, q, n)
        BY <3>1 DEF VenueFills
      <3>2. CASE Expires(k, q, n)
        <4>1. alone' = alone /\ missed' = (missed \/ k \in {"sell", "buy"})
          BY <3>2 DEF Expires
        <4> QED BY <4>1, Zenon
      <3> QED BY <1>2, <3>1, <3>2
    <2> QED BY <2>1
  <1>4. k \in {"sell", "buy"}
    BY <1>3 DEF Still, Zero
  <1>5. VenueFills(k, q, n)
    BY <1>2, <1>4 DEF Expires
  <1>6. /\ live'[k][q] = live[k][q] - n
        /\ \A j \in Kind, x \in Market : <<j, x>> # <<k, q>> => live'[j][x] = live[j][x]
    <2>1. live' = [live EXCEPT ![k][q] = @ - n]
      BY <1>5, Zenon DEF VenueFills
    <2>2. live \in [Kind -> [Market -> Nat]] /\ k \in Kind /\ q \in Market
      BY Zenon DEF FlattenTypes
    <2> QED BY ONLY <2>1, <2>2
  <1>7. UNCHANGED <<pc, venue, seen, at>>
    BY <1>5 DEF VenueFills
  <1>8. CASE m # q
    <2>1. pos'[m] = pos[m]
      BY <1>5, <1>8 DEF VenueFills, FlattenTypes
    <2>2. live'["sell"][m] = live["sell"][m] /\ live'["buy"][m] = live["buy"][m]
      BY <1>6, <1>8
    <2> QED BY <1>3, <1>7, <2>1, <2>2, MarketFrame
  <1>9. CASE m = q
    <2>0. /\ live[k][q] \in Nat /\ n \in Nat /\ n > 0 /\ live[k][q] > 0
          /\ pos[q] \in Int /\ live["sell"][q] \in Nat /\ live["buy"][q] \in Nat
      BY DEF FlattenTypes
    <2>1. pc = "wait" /\ m = at /\ Closing(m) /\ m \in VenueMarkets
      BY <1>3, <1>4, <1>9, <2>0 DEF MarketInv, Known, Over, FlattenTypes
    <2>2. pos'[q] = pos[q] + (IF k = "buy" THEN n ELSE -n)
      <3>1. Sign(k) * n = IF k = "buy" THEN n ELSE -n
        BY <1>4, <2>0 DEF Sign
      <3> QED BY <1>5, <2>0, <3>1 DEF VenueFills, FlattenTypes
    <2>3. Closing(m)'
      BY <1>4, <1>6, <1>7, <1>9, <2>0, <2>1, <2>2 DEF Closing
    <2> QED BY <1>7, <2>1, <2>3 DEF MarketInv, VenueMarkets
  <1> QED BY <1>8, <1>9

\* The invariant is inductive.
LEMMA OperatorStep ==
    ASSUME OperatorInv, [OperatorNext]_operatorVars
    PROVE  OperatorInv'
  <1>0. FlattenTypes /\ (alone => Still) /\ (alone /\ ~missed => \A m \in Market : MarketInv(m))
    BY DEF OperatorInv, FlatInv
  <1>1. FlattenTypes' /\ (alone' => Still')
    BY <1>0, TypeStep, StillStep
  <1>2. ASSUME alone', ~missed', NEW m \in Market PROVE MarketInv(m)'
    <2>1. CASE FlattenStep
      BY <1>0, <1>2, <2>1, FlattenKeeps
    <2>2. CASE VenueStep
      BY <1>0, <1>2, <2>2, VenueKeeps
    <2>3. ASSUME UNCHANGED <<pc, venue, seen, at, pos, live, alone, missed>>
          PROVE  MarketInv(m)'
      BY <1>0, <1>2, <2>3, MarketFrame
    <2>4. ASSUME NEW p \in Proc, Halts(p) PROVE MarketInv(m)'
      BY <2>3, <2>4, Zenon DEF Halts
    <2>5. CASE Resumes
      BY <1>2, <2>5 DEF Resumes
    <2>6. CASE TraderRestarts
      BY <2>3, <2>6 DEF TraderRestarts
    <2>7. CASE OperatorRestarts
      BY <1>2, <2>7 DEF OperatorRestarts
    <2>8. ASSUME NEW q \in Market, OpensOrder(q) PROVE MarketInv(m)'
      BY <1>0, <1>2, <2>8 DEF OpensOrder, IsActive, Still
    <2>9. ASSUME NEW q \in Market, Hedges(q) \/ Matches(q) PROVE MarketInv(m)'
      <3>1. owned = Zero /\ owned[q] > 0
        BY <1>0, <1>2, <2>9 DEF Hedges, Matches, Still
      <3> QED BY <3>1 DEF Zero
    <2>10. CASE UNCHANGED operatorVars
      BY <2>3, <2>10 DEF operatorVars
    <2> QED BY <2>1, <2>2, <2>4, <2>5, <2>6, <2>7, <2>8, <2>9, <2>10 DEF OperatorNext
  <1> QED BY <1>1, <1>2 DEF OperatorInv, FlatInv

\* The initial state satisfies it: no flatten has begun.
LEMMA OperatorInitInv == OperatorInit => OperatorInv
  <1> SUFFICES ASSUME OperatorInit PROVE OperatorInv
    OBVIOUS
  <1>1. /\ tripped \in [Proc -> BOOLEAN] /\ sentinel \in BOOLEAN
        /\ alone \in BOOLEAN /\ missed \in BOOLEAN /\ ~alone
    BY Zenon DEF OperatorInit
  <1>2. /\ live \in [Kind -> [Market -> Nat]] /\ owned \in [Market -> Nat]
        /\ pos \in [Market -> Int] /\ seen \in [Market -> Int] /\ opened \in 0..MaxOpen
    BY DEF OperatorInit, Zero
  <1> QED BY <1>1, <1>2 DEF OperatorInit, OperatorInv, FlattenTypes, FlatInv

-----------------------------------------------------------------------------
(***************************************************************************)
(* Theorems.                                                               *)
(***************************************************************************)

\* The inductive invariant holds in every reachable state.
THEOREM OperatorInvHolds == OperatorSpec => []OperatorInv
  <1>1. OperatorInv /\ [OperatorNext]_operatorVars => OperatorInv'
    BY OperatorStep
  <1> QED BY <1>1, OperatorInitInv, PTL DEF OperatorSpec

\* Every reachable state is well formed: no order can fill more than it has
\* left, and no trade unwinds more than it owns (operator.py, kill_switch.py).
THEOREM FlattenTypesCorrect == OperatorSpec => []FlattenTypes
  <1>1. OperatorInv => FlattenTypes
    BY DEF OperatorInv
  <1> QED BY <1>1, OperatorInvHolds, PTL

\* While a flatten that began alone is not resumed, the trader, restarted or
\* not, has no order and no trade about (flatten_all halts first).
THEOREM HaltCoversFlatten == OperatorSpec => [](alone => Still)
  <1>1. OperatorInv => (alone => Still)
    BY DEF OperatorInv, FlatInv
  <1> QED BY <1>1, OperatorInvHolds, PTL

\* A flatten that began alone, and of which no read, order or answer failed,
\* leaves the account flat on both venues, whatever restarts, late fills and
\* halts came in between (operator.py flatten_all).
THEOREM FlattenIsComplete == OperatorSpec => []FlattenLeavesFlat
  <1>1. OperatorInv => FlattenLeavesFlat
    <2> SUFFICES ASSUME OperatorInv, alone, ~missed, pc = "idle" PROVE pos = Zero
      BY DEF FlattenLeavesFlat
    <2>1. \A m \in Market : pos[m] = 0
      BY DEF OperatorInv, FlatInv, MarketInv
    <2> QED BY <2>1 DEF OperatorInv, FlattenTypes, Zero
  <1> QED BY <1>1, OperatorInvHolds, PTL
=============================================================================
