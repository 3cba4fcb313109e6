--------------------------- MODULE OperatorControls ---------------------------
(***************************************************************************)
(* The kill switch (kill_switch.py) and the operator's flatten_all         *)
(* (operator.py), run from a process of its own beside the process that    *)
(* trades.  The processes share the halt sentinel on disk and the accounts *)
(* at the venues; each has its own in-memory flag, lost when it restarts.  *)
(*                                                                         *)
(* Orders are the contracts of them that can still fill, in any pieces and *)
(* long after their sender stopped waiting.  Config.EXECUTION_ENABLED is    *)
(* true and the live lock is armed.  cancel_all has no effect: no          *)
(* Polymarket order rests (FOK), and KalshiOrderClient has no cancel_all.  *)
(***************************************************************************)
EXTENDS Integers

CONSTANTS
    Kalshi,         \* tickers
    Polymarket,     \* token ids
    MaxOpen,        \* bound: opening orders
    MaxLive         \* bound: contracts of flatten orders live in a market

Market == Kalshi \cup Polymarket
Proc == {"trader", "operator"}

ASSUME OperatorAssumption == Kalshi \cap Polymarket = {} /\ MaxOpen \in Nat /\ MaxLive \in Nat

\* The trader's opening orders and unwinds; the flatten's two directions.
Kind == {"open", "hedge", "sell", "buy"}
Sign(k) == IF k \in {"open", "buy"} THEN 1 ELSE -1

VARIABLES
    tripped,    \* tripped[p]: KillSwitch._tripped in process p
    sentinel,   \* the sentinel file exists
    live,       \* live[k][m]: contracts of orders of kind k that can still fill
    opened,     \* opening orders posted so far
    owned,      \* owned[m]: contracts a running trade filled and may unwind
    pos,        \* pos[m]: the position at the venue
    used,       \* client order ids of flatten orders Kalshi has seen
    pc,         \* where flatten_all is: idle, read, place or wait
    venue,      \* the venue it works on
    seen,       \* seen[m]: positions it read and has not dealt with
    at,         \* at: the market whose order it awaits
    \* History.
    alone,      \* the running flatten began with no other order or trade about
    missed      \* a read, an order or an answer of it failed

switchVars == <<tripped, sentinel>>
traderVars == <<opened, owned>>
flattenVars == <<pc, venue, seen, at, used, missed>>
operatorVars == <<switchVars, live, traderVars, pos, flattenVars, alone>>

Zero == [m \in Market |-> 0]

OperatorInit ==
    /\ tripped = [p \in Proc |-> FALSE] /\ sentinel = FALSE
    /\ live = [k \in Kind |-> Zero]
    /\ opened = 0 /\ owned = Zero /\ pos = Zero
    /\ pc = "idle" /\ venue = "kalshi" /\ seen = Zero /\ used = {}
    /\ at \in Market
    /\ alone = FALSE /\ missed = FALSE
-----------------------------------------------------------------------------
(***************************************************************************)
(* The kill switch.                                                        *)
(***************************************************************************)
IsActive(p) == tripped[p] \/ sentinel

\* ok: the sentinel could be written or removed; an OSError is only logged.
Trip_FlagOnly(p, ok) == tripped' = [tripped EXCEPT ![p] = TRUE] /\ UNCHANGED sentinel

Trip(p, ok) ==
    /\ tripped' = [tripped EXCEPT ![p] = TRUE]
    /\ sentinel' = (sentinel \/ ok)

ResetSwitch(p, ok) ==
    /\ tripped' = [tripped EXCEPT ![p] = FALSE]
    /\ sentinel' = (sentinel /\ ~ok)

\* The trader's breaker opens or an unwind fails; the operator halts.
Halts(p) ==
    /\ \E ok \in BOOLEAN : Trip(p, ok)
    /\ UNCHANGED <<live, traderVars, pos, flattenVars, alone>>

Resumes ==
    /\ \E ok \in BOOLEAN : ResetSwitch("operator", ok)
    /\ alone' = FALSE
    /\ UNCHANGED <<live, traderVars, pos, flattenVars>>
-----------------------------------------------------------------------------
(***************************************************************************)
(* The trading process.                                                    *)
(***************************************************************************)
Posts(k, m, n) == live' = [live EXCEPT ![k][m] = @ + n]

\* A leg of a trade passes the kill switch and leaves.
OpensOrder(m) ==
    /\ ~IsActive("trader")
    /\ opened < MaxOpen
    /\ opened' = opened + 1
    /\ Posts("open", m, 1)
    /\ UNCHANGED <<switchVars, owned, pos, flattenVars, alone>>

\* A trade unwinds a leg whose other leg failed; no halt stops it.
Hedges(m) ==
    /\ owned[m] > 0
    /\ owned' = [owned EXCEPT ![m] = @ - 1]
    /\ Posts("hedge", m, 1)
    /\ UNCHANGED <<switchVars, opened, pos, flattenVars, alone>>

\* A trade whose legs match ends and keeps its position.
Matches(m) ==
    /\ owned[m] > 0
    /\ owned' = [owned EXCEPT ![m] = @ - 1]
    /\ UNCHANGED <<switchVars, live, opened, pos, flattenVars, alone>>

\* The process restarts: its flag and its running trades are gone.
TraderRestarts ==
    /\ tripped' = [tripped EXCEPT !["trader"] = FALSE]
    /\ owned' = Zero
    /\ UNCHANGED <<sentinel, live, opened, pos, flattenVars, alone>>
-----------------------------------------------------------------------------
(***************************************************************************)
(* flatten_all.                                                            *)
(***************************************************************************)
Quiet == owned = Zero /\ \A k \in Kind : live[k] = Zero

FlattenStarts ==
    /\ pc = "idle"
    /\ \E ok \in BOOLEAN : Trip("operator", ok) /\ alone' = (Quiet /\ ok)
    /\ pc' = "read" /\ venue' = "kalshi"
    /\ missed' = FALSE
    /\ UNCHANGED <<live, traderVars, pos, seen, at, used>>

VenueMarkets == IF venue = "kalshi" THEN Kalshi ELSE Polymarket

\* get_positions answers, or fails and leaves nothing to do.
Reads ==
    /\ pc = "read"
    /\ seen' = [m \in Market |-> IF m \in VenueMarkets THEN pos[m] ELSE 0]
    /\ pc' = "place"
    /\ UNCHANGED <<switchVars, live, traderVars, pos, venue, at, used, missed, alone>>

ReadFails ==
    /\ pc = "read"
    /\ pc' = "place" /\ missed' = TRUE
    /\ UNCHANGED <<switchVars, live, traderVars, pos, venue, seen, at, used, alone>>

UnwindKind(n) == IF n > 0 THEN "sell" ELSE "buy"

Size(n) == IF n > 0 THEN n ELSE -n

\* The client order id is derived from the market, the action and the size.
ClientId(m) == <<m, seen[m]>>

Duplicate(m) == m \in Kalshi /\ ClientId(m) \in used

Places(m) ==
    /\ pc = "place" /\ seen[m] # 0
    /\ ~Duplicate(m)
    /\ live[UnwindKind(seen[m])][m] \in {0} \cup 0..(MaxLive - Size(seen[m]))
    /\ Posts(UnwindKind(seen[m]), m, Size(seen[m]))
    /\ used' = IF m \in Kalshi THEN used \cup {ClientId(m)} ELSE used
    /\ seen' = [seen EXCEPT ![m] = 0]
    /\ pc' = "wait" /\ at' = m
    /\ UNCHANGED <<switchVars, traderVars, pos, venue, missed, alone>>

\* Kalshi rejects every attempt with an id it knows, or no POST gets through.
PlaceFails(m) ==
    /\ pc = "place" /\ seen[m] # 0
    /\ seen' = [seen EXCEPT ![m] = 0]
    /\ missed' = TRUE
    /\ UNCHANGED <<switchVars, live, traderVars, pos, pc, venue, at, used, alone>>

\* execute returns: the order is over, or it gave up on an unanswered POST.
Over(m) == live["sell"][m] = 0 /\ live["buy"][m] = 0

Returns ==
    /\ pc = "wait"
    /\ pc' = "place"
    /\ missed' = (missed \/ ~Over(at))
    /\ UNCHANGED <<switchVars, live, traderVars, pos, venue, seen, at, used, alone>>

NextVenue ==
    /\ pc = "place" /\ seen = Zero
    /\ \/ venue = "kalshi" /\ venue' = "polymarket" /\ pc' = "read"
       \/ venue = "polymarket" /\ venue' = venue /\ pc' = "idle"
    /\ UNCHANGED <<switchVars, live, traderVars, pos, seen, at, used, missed, alone>>

\* The operator's process dies; what it posted stays at the venues.
OperatorRestarts ==
    /\ tripped' = [tripped EXCEPT !["operator"] = FALSE]
    /\ pc' = "idle" /\ seen' = Zero /\ missed' = TRUE
    /\ UNCHANGED <<sentinel, live, traderVars, pos, venue, at, used, alone>>
-----------------------------------------------------------------------------
(***************************************************************************)
(* The venues.                                                             *)
(***************************************************************************)
VenueFills(k, m, n) ==
    /\ n \in 1..live[k][m]
    /\ live' = [live EXCEPT ![k][m] = @ - n]
    /\ pos' = [pos EXCEPT ![m] = @ + Sign(k) * n]
    /\ owned' = IF k = "open" THEN [owned EXCEPT ![m] = @ + n] ELSE owned
    /\ UNCHANGED <<switchVars, opened, flattenVars, alone>>

\* Expired at its TTL, killed, or never arrived.
Expires(k, m, n) ==
    /\ n \in 1..live[k][m]
    /\ live' = [live EXCEPT ![k][m] = @ - n]
    /\ missed' = (missed \/ k \in {"sell", "buy"})
    /\ UNCHANGED <<switchVars, traderVars, pos, pc, venue, seen, at, used, alone>>

FlattenStep ==
    \/ FlattenStarts \/ Reads \/ ReadFails \/ Returns \/ NextVenue
    \/ \E m \in Market : Places(m) \/ PlaceFails(m)

VenueStep ==
    \E k \in Kind, m \in Market : \E n \in 1..live[k][m] : VenueFills(k, m, n) \/ Expires(k, m, n)

OperatorNext ==
    \/ \E p \in Proc : Halts(p)
    \/ Resumes \/ TraderRestarts \/ OperatorRestarts
    \/ \E m \in Market : OpensOrder(m) \/ Hedges(m) \/ Matches(m)
    \/ FlattenStep \/ VenueStep

OperatorSpec == OperatorInit /\ [][OperatorNext]_operatorVars

-----------------------------------------------------------------------------
(***************************************************************************)
(* Properties                                                              *)
(***************************************************************************)

\* When such a flatten ends and nothing of it failed, the account is flat:
\* the halt it raised first keeps the trader, restarted or not, from opening
\* anything behind its back ("Halts first so no new orders race the flatten").
FlattenLeavesFlat ==
    alone /\ ~missed /\ pc = "idle" => pos = Zero

=============================================================================
