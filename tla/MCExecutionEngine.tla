------------------------- MODULE MCExecutionEngine -------------------------
(* A model-checking instance of ExecutionEngine and of its refinement. *)
EXTENDS EngineRefinement

CONSTANTS k1, k2, p1, tok

OneToken == [r \in Req |-> tok]
FillAndKill == 0..Size
\* One request trades on the token, so a scan adds up to its size at most.
SmallUnits == 0..Size

\* The opening order k1 runs beside one unwind: p1 on the other venue, or k2 on its
\* own, begun when k1's failures have opened the breaker they share.
Taken(r) ==
    \/ pc[r] # "new"
    \/ r = k1
    \/ r = p1 /\ pc[k2] = "new"
    \/ r = k2 /\ pc[p1] = "new" /\ breaker["kalshi"].state = "open"

MCNext ==
    \/ \E r \in Req : Taken(r) /\ Starts(r)
    \/ \E r \in Req : Gateway(r) \/ Cancel(r) \/ VenueStep(r)
    \/ Operator \/ Tick

MCSpec ==
    /\ Init /\ [][MCNext]_vars
    /\ \A r \in Req : WF_vars(Taken(r) /\ Starts(r)) /\ WF_vars(Gateway(r)) /\ WF_vars(KalshiExpires(r))
=============================================================================
