--------------------------- MODULE OrderPlacement ---------------------------
(***************************************************************************)
(* What placing an order through the execution engine promises its caller, *)
(* without how: an order is submitted once, the venue fills at most its    *)
(* size, and it is reported once or abandoned by its caller.               *)
(*                                                                         *)
(* A report of contracts by Kalshi is exact and final.  A report of none   *)
(* promises nothing (the venue may have filled an order whose answer was   *)
(* lost), and neither does a Polymarket report (an ambiguous POST is       *)
(* settled by scanning recent trades).  ExecutionEngine implements this    *)
(* specification; ArbitrageExecutor is built on it.                        *)
(***************************************************************************)
EXTENDS Integers

CONSTANTS
    Order,          \* the orders
    OnKalshi,    \* those placed on Kalshi
    Contract,       \* units per whole contract, the least a Kalshi order fills
    Units           \* the quantities that occur

ASSUME OrderAssumption ==
    /\ OnKalshi \subseteq Order
    /\ Contract \in Nat \ {0}
    /\ Units \subseteq Nat

VARIABLES
    phase,      \* phase[x]: idle, working, reported or abandoned
    size,       \* size[x]: the units submitted
    filled,     \* filled[x]: the units the venue really filled
    report      \* report[x]: the units the caller was told

orderVars == <<phase, size, filled, report>>

OrderTypeOK ==
    /\ phase \in [Order -> {"idle", "working", "reported", "abandoned"}]
    /\ size \in [Order -> Nat]
    /\ filled \in [Order -> Nat]
    /\ report \in [Order -> Nat]

OrderInit ==
    /\ phase = [x \in Order |-> "idle"]
    /\ size = [x \in Order |-> 0]
    /\ filled = [x \in Order |-> 0]
    /\ report = [x \in Order |-> 0]

\* The first POST of the order leaves for the venue.
Submit(x, q) ==
    /\ phase[x] = "idle"
    /\ phase' = [phase EXCEPT ![x] = "working"]
    /\ size' = [size EXCEPT ![x] = q]
    /\ UNCHANGED <<filled, report>>

\* The engine answers without placing anything.
Refuse(x) ==
    /\ phase[x] = "idle"
    /\ phase' = [phase EXCEPT ![x] = "reported"]
    /\ UNCHANGED <<size, filled, report>>

Settled(x) == x \in OnKalshi /\ phase[x] = "reported" /\ report[x] > 0

\* The venue fills n units, at once or long after the caller was answered.
Fill(x, n) ==
    /\ phase[x] # "idle" /\ ~Settled(x)
    /\ n > 0 /\ filled[x] + n <= size[x]
    /\ x \in OnKalshi => n % Contract = 0
    /\ filled' = [filled EXCEPT ![x] = @ + n]
    /\ UNCHANGED <<phase, size, report>>

Report(x, n) ==
    /\ phase[x] = "working"
    /\ x \in OnKalshi => n \in {0, filled[x]}
    /\ phase' = [phase EXCEPT ![x] = "reported"]
    /\ report' = [report EXCEPT ![x] = n]
    /\ UNCHANGED <<size, filled>>

\* The caller cancels the task; a POST that left is not recalled.
Abandon(x) ==
    /\ phase[x] \in {"idle", "working"}
    /\ phase' = [phase EXCEPT ![x] = "abandoned"]
    /\ UNCHANGED <<size, filled, report>>

OrderNext ==
    \E x \in Order :
        \/ Refuse(x) \/ Abandon(x)
        \/ \E n \in Units : Submit(x, n) \/ Fill(x, n) \/ Report(x, n)

OrderSpec == OrderInit /\ [][OrderNext]_orderVars
=============================================================================
