--------------------------- MODULE MCTradeSession ---------------------------
(* TradeSession for TLC: the command processes are interchangeable. *)
EXTENDS TradeSession, TLC

ProcSymmetry == Permutations(Procs)
=============================================================================
