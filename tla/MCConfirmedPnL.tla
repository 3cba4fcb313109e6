---------------------------- MODULE MCConfirmedPnL ----------------------------
(* A model-checking instance of ConfirmedPnL. *)
EXTENDS ConfirmedPnL

CONSTANTS e1, e2

Deal_(strategy, source, volume, buyOn, ids, residual) ==
    [strategy |-> strategy, source |-> source, volume |-> volume, buyOn |-> buyOn,
     price |-> [buy |-> 3, sell |-> 6], fee |-> [buy |-> 1, sell |-> 1],
     ids |-> ids, residual |-> residual]

MCDeal ==
    {Deal_("complementary", "exchange", 2, "kalshi", "own", FALSE),
     Deal_("same_outcome", "exchange", 1, "polymarket", "none", TRUE),
     Deal_("complementary", "exchange", 1, "kalshi", "shared", FALSE),
     Deal_("complementary", "paper", 1, "kalshi", "none", FALSE),
     Deal_("same_outcome", "exchange", 0, "kalshi", "none", TRUE)}
\* The executions are interchangeable; no property is temporal.
Symmetric == Permutations(Exec)
=============================================================================
