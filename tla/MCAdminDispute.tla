--------------------------- MODULE MCAdminDispute ---------------------------
(* AdminDispute for TLC: processes and disputes are interchangeable. *)
EXTENDS AdminDispute, TLC

AdminSymmetry == Permutations(Procs) \cup Permutations(Disputes)
=============================================================================
