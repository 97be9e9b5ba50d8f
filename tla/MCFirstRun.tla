----------------------------- MODULE MCFirstRun -----------------------------
(* FirstRun for TLC: processes with a valid configuration are alike. *)
EXTENDS FirstRun, TLC

ProcSymmetry == Permutations(Procs \ BadConfig)
=============================================================================
