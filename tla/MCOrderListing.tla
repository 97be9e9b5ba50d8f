--------------------------- MODULE MCOrderListing ----------------------------
(* OrderListing for TLC: ids and relays are interchangeable. *)
EXTENDS OrderListing, TLC

CONSTANTS a, b, usd, sell

(* The default of listorders, and all three filters at once. *)
MCFilters == {[status |-> "pending", fiat |-> NoTag, kind |-> NoTag],
              [status |-> "active", fiat |-> usd, kind |-> sell]}
Symmetry == Permutations(Ids) \cup Permutations(Relays)
=============================================================================
