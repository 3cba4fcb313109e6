-------------------------- MODULE EngineRefinement --------------------------
(***************************************************************************)
(* ExecutionEngine implements OrderPlacement: retries, polls, scans, halts *)
(* and the breaker are invisible to a caller, who sees an order that is    *)
(* submitted once, filled at most once over, and reported once.            *)
(***************************************************************************)
EXTENDS ExecutionEngine

CONSTANT Units      \* the quantities that occur

ASSUME UnitsAssumption == Units \subseteq Nat

Phase(r) ==
    CASE pc[r] = "done"      -> "reported"
      [] pc[r] = "cancelled" -> "abandoned"
      [] OTHER               -> IF posted[r] THEN "working" ELSE "idle"

OP == INSTANCE OrderPlacement WITH
          Order       <- Req,
          OnKalshi    <- Kalshi,
          Contract    <- 1,
          phase       <- [r \in Req |-> Phase(r)],
          size        <- [r \in Req |-> IF posted[r] THEN Size ELSE 0]

\* Whatever the venues, the network and the operator do, the engine behaves
\* to its caller as OrderPlacement says: one submission, fills within the
\* size, one report, and an exact and final one when Kalshi reports contracts
\* (ExecutionEngine.execute over both gateways' place).
ImplementsOrderPlacement == OP!OrderSpec
=============================================================================
