------------------------ MODULE ReplyDispatchProofs ------------------------
(***************************************************************************)
(* ReplyDispatch for any caller, any choice of pushes and any other        *)
(* command at work on the row.  What an early check established about the  *)
(* message still holds at the statement that relies on it, and every error *)
(* return comes before the first write.                                    *)
(***************************************************************************)
EXTENDS ReplyDispatch, TLAPS

Saving == {"insert", "overwrite", "saveUser"}

(* What the caller lets through. *)
Passed(m) ==
  /\ via = "reply" => Admitted(m)
  /\ via = "child" => m.act = "NewOrder"
  /\ via = "sync"  => m.act = "LastTradeIndex"

(* The condition of OnlyTrustedWrites, as it stands before a write. *)
MayWrite ==
  \/ msg.req = "mine"
  \/ msg.req = "none" /\ msg.act \in Pushes
  \/ via = "child" /\ msg.act \in OrderReplies /\ msg.req # "none"

(* What is known of the message at each statement. *)
Judged ==
  /\ pc \notin {"received", "rejected", "ok"} => Passed(msg)
  /\ pc \in Saving => msg.act \in OrderReplies /\ msg.req # "none"
  /\ pc = "status" => msg.act \in StatusReplies
  /\ pc = "delete" => msg.act = "Canceled"

(* Only two places are reached after a write. *)
Untouched == pc \notin {"saveUser", "ok"} => ~wrote

IInv == TypeOK /\ Judged /\ Untouched /\ OnlyTrustedWrites

Statements ==
  {"received", "dispatch", "insert", "overwrite", "saveUser", "status",
   "delete", "ok", "err", "rejected"}

-----------------------------------------------------------------------------
LEMMA InitInv == Init => IInv
BY DEF Init, IInv, TypeOK, Judged, Saving, Untouched, OnlyTrustedWrites

(* What a message that passed may write, by its action. *)
LEMMA PassedMayWrite ==
  ASSUME msg \in Messages, via \in Callers, Passed(msg)
  PROVE  /\ msg.act \in StatusReplies \cup {"Canceled"} => MayWrite
         /\ msg.act \in OrderReplies /\ msg.req # "none" =>
              MayWrite /\ (msg.req = "mine" \/ (via = "child" /\ msg.req = "other"))
         /\ msg.act = "LastTradeIndex" => MayWrite \/ via = "sync"
BY DEF Passed, Admitted, Valid, Messages, MayWrite, StatusReplies, OrderReplies, Callers

(* A step of the command keeps the invariant if it goes where its message  *)
(* may go and writes only what the message may write.                      *)
LEMMA Step ==
  ASSUME IInv, NEW l \in Statements, pc' = l, UNCHANGED <<via, msg>>,
         row' \in Rows, index' \in {"before", "trade", "daemon"},
         wrote' \in BOOLEAN, shown' \in BOOLEAN,
         l \notin {"rejected", "ok"} => Passed(msg),
         l \in Saving => msg.act \in OrderReplies /\ msg.req # "none",
         l = "status" => msg.act \in StatusReplies,
         l = "delete" => msg.act = "Canceled",
         l # "received",
         l \notin {"saveUser", "ok"} => ~wrote',
         wrote' => MayWrite \/ (via = "sync" /\ index' = "daemon")
  PROVE  IInv'
<1>1. TypeOK'
  BY DEF IInv, TypeOK, Statements
<1>2. Judged'
  BY DEF Judged, Passed, Admitted, Valid
<1>3. Untouched' /\ OnlyTrustedWrites'
  BY DEF Untouched, OnlyTrustedWrites, MayWrite
<1> QED
  BY <1>1, <1>2, <1>3 DEF IInv

LEMMA CallerInv == ASSUME IInv, PrintDmEvents \/ FetchChild \/ ReadIndexReply PROVE IInv'
<1>1. /\ pc = "received" /\ UNCHANGED <<via, msg, row, index, wrote, shown>> /\ ~wrote
      /\ \/ pc' = "dispatch" /\ Passed(msg)
         \/ pc' \in {"ok", "rejected"}
  BY DEF PrintDmEvents, FetchChild, ReadIndexReply, Return, db, IInv, Untouched, Passed
<1> QED
  BY <1>1, Step DEF IInv, TypeOK, Saving, Statements

-----------------------------------------------------------------------------
(* The arms that save an order. *)
LEMMA DispatchOrderInv == ASSUME IInv, DispatchOrder PROVE IInv'
<1>1. /\ pc = "dispatch" /\ msg.act \in OrderReplies /\ shown' \in BOOLEAN
      /\ UNCHANGED <<via, msg, row, index, wrote>>
      /\ \/ pc' = "insert" /\ msg.req # "none"
         \/ pc' \in {"ok", "err"}
  BY DEF DispatchOrder, Return, db
<1>2. Passed(msg) /\ ~wrote
  BY <1>1 DEF IInv, Judged, Untouched
<1> QED
  BY <1>1, <1>2, Step DEF IInv, TypeOK, Saving, Statements

LEMMA SavingIsAnswer ==
  ASSUME IInv, pc \in Saving
  PROVE  /\ Passed(msg) /\ MayWrite
         /\ msg.req = "mine" \/ (via = "child" /\ msg.req = "other")
BY PassedMayWrite DEF IInv, TypeOK, Judged, Saving

LEMMA InsertInv == ASSUME IInv, InsertOrder PROVE IInv'
<1>1. pc \in Saving /\ ~wrote
  BY DEF InsertOrder, Saving, IInv, Untouched
<1>2. MayWrite /\ Passed(msg) /\ msg.act \in OrderReplies /\ msg.req # "none"
  BY <1>1, SavingIsAnswer DEF IInv, Judged
<1>3. /\ row' \in Rows /\ wrote' \in BOOLEAN /\ shown' \in BOOLEAN /\ UNCHANGED <<index, via, msg>>
      /\ pc' \in {"saveUser", "overwrite", "ok"} /\ (pc' = "overwrite" => wrote' = wrote)
  BY DEF InsertOrder, Return, IInv, TypeOK, Rows
<1> QED
  BY <1>1, <1>2, <1>3, Step DEF IInv, TypeOK, Saving, Statements

LEMMA OverwriteInv == ASSUME IInv, OverwriteOrder PROVE IInv'
<1>1. pc \in Saving
  BY DEF OverwriteOrder, Saving
<1>2. MayWrite /\ Passed(msg) /\ msg.act \in OrderReplies /\ msg.req # "none"
  BY <1>1, SavingIsAnswer DEF IInv, Judged
<1>3. /\ row' \in Rows /\ wrote' \in BOOLEAN /\ UNCHANGED <<index, shown, via, msg>>
      /\ pc' \in {"saveUser", "ok"}
  BY DEF OverwriteOrder, Return, IInv, TypeOK, Rows
<1> QED
  BY <1>2, <1>3, Step DEF IInv, TypeOK, Saving, Statements

LEMMA SaveUserInv == ASSUME IInv, SaveUser PROVE IInv'
<1>1. pc \in Saving
  BY DEF SaveUser, Saving
<1>2. MayWrite
  BY <1>1, SavingIsAnswer
<1>3. /\ index' \in {index, "trade"} /\ wrote' \in BOOLEAN /\ UNCHANGED <<row, shown, via, msg>>
      /\ pc' = "ok"
  BY DEF SaveUser, Return, IInv, TypeOK
<1> QED
  BY <1>2, <1>3, Step DEF IInv, TypeOK, Saving, Statements

-----------------------------------------------------------------------------
(* The arms that update, delete or synchronise. *)
LEMMA DispatchStatusInv == ASSUME IInv, DispatchStatus PROVE IInv'
<1>1. /\ pc = "dispatch" /\ msg.act \in StatusReplies /\ shown' \in BOOLEAN
      /\ UNCHANGED <<via, msg, row, index, wrote>>
      /\ pc' \in {"status", "ok", "err"}
  BY DEF DispatchStatus, Return, db, IInv, TypeOK, Messages
<1>2. Passed(msg) /\ ~wrote
  BY <1>1 DEF IInv, Judged, Untouched
<1> QED
  BY <1>1, <1>2, Step DEF IInv, TypeOK, Saving, Statements

LEMMA SaveStatusInv == ASSUME IInv, SaveStatus PROVE IInv'
<1>1. MayWrite
  BY PassedMayWrite DEF SaveStatus, IInv, TypeOK, Judged
<1>2. /\ row' \in Rows /\ wrote' \in BOOLEAN /\ UNCHANGED <<index, shown, via, msg>> /\ pc' = "ok"
  BY DEF SaveStatus, NewStatus, Return, IInv, TypeOK, Rows
<1> QED
  BY <1>1, <1>2, Step DEF IInv, TypeOK, Saving, Statements

LEMMA DispatchCanceledInv == ASSUME IInv, DispatchCanceled PROVE IInv'
<1>1. Passed(msg) /\ ~wrote
  BY DEF DispatchCanceled, IInv, Judged, Untouched
<1>2. /\ msg.act = "Canceled" /\ shown' \in BOOLEAN /\ pc' \in {"delete", "err"}
      /\ UNCHANGED <<via, msg, row, index, wrote>>
  BY DEF DispatchCanceled, Return, db, IInv, TypeOK, Messages
<1> QED
  BY <1>1, <1>2, Step DEF IInv, TypeOK, Saving, Statements

LEMMA DeleteInv == ASSUME IInv, DeleteOrder PROVE IInv'
<1>1. Passed(msg) /\ MayWrite /\ ~wrote
  BY PassedMayWrite DEF DeleteOrder, IInv, TypeOK, Judged, Untouched
<1>2. /\ row' \in Rows /\ wrote' \in BOOLEAN /\ UNCHANGED <<index, shown, via, msg>>
      /\ pc' = "ok" \/ (pc' = "err" /\ wrote' = wrote)
  BY DEF DeleteOrder, Return, IInv, TypeOK, Rows
<1> QED
  BY <1>1, <1>2, Step DEF IInv, TypeOK, Saving, Statements

LEMMA DispatchIndexInv == ASSUME IInv, DispatchIndex PROVE IInv'
<1>1. /\ MayWrite \/ via = "sync"
      /\ ~wrote
  BY PassedMayWrite DEF DispatchIndex, IInv, TypeOK, Judged, Untouched
<1>2. /\ wrote' \in BOOLEAN /\ shown' \in BOOLEAN /\ UNCHANGED <<row, via, msg>> /\ pc' = "ok"
      /\ \/ index' = "daemon"
         \/ UNCHANGED <<index, wrote>>
  BY DEF DispatchIndex, Return, IInv, TypeOK, Messages
<1> QED
  BY <1>1, <1>2, Step DEF IInv, TypeOK, Saving, Statements

LEMMA DispatchNoticeInv == ASSUME IInv, DispatchNotice PROVE IInv'
<1>1. /\ pc = "dispatch" /\ shown' \in BOOLEAN
      /\ UNCHANGED <<via, msg, row, index, wrote>>
      /\ pc' \in {"ok", "err"}
  BY DEF DispatchNotice, Return, db, IInv, TypeOK, Messages
<1>2. Passed(msg) /\ ~wrote
  BY <1>1 DEF IInv, Judged, Untouched
<1> QED
  BY <1>1, <1>2, Step DEF IInv, TypeOK, Saving, Statements

LEMMA DispatchErrorInv == ASSUME IInv, DispatchError PROVE IInv'
BY Step DEF DispatchError, Return, db, IInv, TypeOK, Judged, Untouched, Saving, Statements

LEMMA OtherCommandInv == ASSUME IInv, OtherCommand PROVE IInv'
BY DEF OtherCommand, IInv, TypeOK, Judged, Passed, Admitted, Valid, Untouched, OnlyTrustedWrites

LEMMA Invariance == Spec => []IInv
<1>1. ASSUME IInv, [Next]_vars PROVE IInv'
  <2>1. CASE Own
    BY <2>1, <1>1, CallerInv, DispatchOrderInv, InsertInv, OverwriteInv, SaveUserInv,
       DispatchStatusInv, SaveStatusInv, DispatchCanceledInv, DeleteInv,
       DispatchIndexInv, DispatchNoticeInv, DispatchErrorInv DEF Own
  <2>2. CASE OtherCommand
    BY <2>2, <1>1, OtherCommandInv
  <2>3. CASE UNCHANGED vars
    BY <2>3, <1>1 DEF vars, IInv, TypeOK, Judged, Passed, Admitted, Valid, Untouched, OnlyTrustedWrites
  <2> QED
    BY <1>1, <2>1, <2>2, <2>3 DEF Next
<1> QED
  BY <1>1, InitInv, PTL DEF Spec

-----------------------------------------------------------------------------
(* The variables keep their types; a row never has another status. *)
THEOREM TypeCorrect == Spec => []TypeOK
BY Invariance, PTL DEF IInv

(* Whichever actions the validation lets through as pushes, a reply that   *)
(* answers another request writes nothing (print_dm_events), and the       *)
(* follow-up of release writes only an order that carries a request id.    *)
THEOREM OnlyTrustedWritesAlways == Spec => []OnlyTrustedWrites
BY Invariance, PTL DEF IInv

(* A reply saves an order only in answer to this command's request, the    *)
(* follow-up of release only one that answers some request                 *)
(* (print_commands_results, save_order).                                   *)
THEOREM OnlyAnswersAreSavedAlways == Spec => []OnlyAnswersAreSaved
<1>1. IInv => OnlyAnswersAreSaved
  BY SavingIsAnswer DEF OnlyAnswersAreSaved, Saving
<1> QED
  BY Invariance, <1>1, PTL

(* Every error return of the dispatch precedes its first write to either   *)
(* table, whoever called it (print_commands_results).                      *)
THEOREM FailedDispatchWroteNothingAlways == Spec => []FailedDispatchWroteNothing
<1>1. IInv => FailedDispatchWroteNothing
  BY DEF IInv, Untouched, FailedDispatchWroteNothing
<1> QED
  BY Invariance, <1>1, PTL
=============================================================================
