---------------------------- MODULE MCController ----------------------------
EXTENDS Controller
CONSTANTS a, b

OneKind == {{"lanes"}, {"jobs"}, {"feed"}}
Vendors == (a :> "claude") @@ (b :> "none")
Cool == [codexWk |-> 20, codex5h |-> 10, claudeWk |-> 10, claude5h |-> 20, codexHours |-> 84, claudeHours |-> 10,
         agentCents |-> 1600, weekUsd |-> 2000, seed |-> 20, hits |-> 1, samples |-> 6, rising |-> FALSE]
\* The operator is at work: no surplus is left for the desk.
Busy == [Cool EXCEPT !.claudeWk = 60, !.rising = TRUE]
\* A meter that cannot be read.
Blind == [codexHours |-> 84, claudeHours |-> 84, agentCents |-> 90, weekUsd |-> 2000, seed |-> 90, hits |-> 0, samples |-> 0, rising |-> FALSE]
Readings == {Cool, Busy, Blind}
=============================================================================
