------------------------ MODULE MCArbitrageExecutor ------------------------
(* The instance of ArbitrageExecutor that TLC checks: two opportunities of one
   contract, which Polymarket may fill by halves. *)
EXTENDS ArbitrageExecutor, TLC

CONSTANTS o1, o2

MCOrder == Opp \X {"kalshi", "polymarket", "unwind_kalshi", "unwind_polymarket"}
MCOnKalshi == Opp \X {"kalshi", "unwind_kalshi"}
MCUnits == 0..Volume
WinOrLose == {-1, 1}
Symmetric == Permutations(Opp)
=============================================================================
