----------------------------- MODULE KeyLedger -----------------------------
(***************************************************************************)
(* What the orders table promises about trade keys: every order is bound   *)
(* once, to a key above every key bound before, and what is kept with an   *)
(* order is that key or nothing.                                           *)
(***************************************************************************)
EXTENDS Naturals

CONSTANT Orders

VARIABLES
  bound,  \* key each order is bound to, 0 while there is none
  kept    \* key kept with each order, 0 while there is none

vars == <<bound, kept>>

Init ==
  /\ bound = [o \in Orders |-> 0]
  /\ kept = [o \in Orders |-> 0]

(* To any key above the others: which one is not the ledger's business. *)
Bind(o) ==
  /\ bound[o] = 0
  /\ \A q \in Orders : bound[q] < bound'[o]
  /\ bound' = [bound EXCEPT ![o] = bound'[o]]
  /\ UNCHANGED kept

Keep(o) ==
  /\ bound[o] # 0
  /\ kept' = [kept EXCEPT ![o] = bound[o]]
  /\ UNCHANGED bound

Drop(o) ==
  /\ kept' = [kept EXCEPT ![o] = 0]
  /\ UNCHANGED bound

Next == \E o \in Orders : Bind(o) \/ Keep(o) \/ Drop(o)

Spec == Init /\ [][Next]_vars
=============================================================================
