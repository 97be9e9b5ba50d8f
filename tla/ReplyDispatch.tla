--------------------------- MODULE ReplyDispatch ---------------------------
(***************************************************************************)
(* What one command does with a message of the daemon.                     *)
(* print_commands_results dispatches on action and payload and writes to   *)
(* the database; before that print_dm_events unwraps the message and       *)
(* compares request ids, while the follow-up of release and                *)
(* getlasttradeindex only look at its action.  Another command may work on *)
(* the same row meanwhile.  All rows the message can name are one row      *)
(* here: its own id and the id in its payload name the same order.         *)
(***************************************************************************)
CONSTANTS
  Pushes   \* actions mostro-core lets through without a request id

OrderReplies  == {"NewOrder", "AddInvoice", "PayInvoice", "PayBondInvoice"}
StatusReplies == {"WaitingSellerToPay", "DisputeInitiatedByYou"}
Notices == {"AddBondInvoice", "RateReceived", "FiatSentOk",
            "HoldInvoicePaymentAccepted", "Released", "Orders",
            "AdminTookDispute", "RestoreSession"}
Acts == OrderReplies \cup StatusReplies \cup Notices
          \cup {"Canceled", "LastTradeIndex", "CantDo", "Unknown"}

Payloads == {"none", "order", "payment", "paymentNoOrder", "dispute",
             "bondPayout", "restore"}

ASSUME PushesAssumption == Pushes \subseteq Acts \ {"NewOrder", "CantDo"}

(* req: the request id is this command's, another one's, or absent. *)
Messages == [act : Acts, payload : Payloads, id : BOOLEAN, index : BOOLEAN,
             req : {"mine", "other", "none"}]

Rows == {"none", "saved", "waiting-payment", "dispute"}

(* Who dispatches: print_dm_events, release looking for the child order,   *)
(* getlasttradeindex.                                                      *)
Callers == {"reply", "child", "sync"}

VARIABLES
  via,    \* the caller
  msg,    \* the message
  pc,
  row,    \* row of the order the message names
  index,  \* last_trade_index: as it was, this trade's, or the daemon's
  wrote,  \* has this dispatch written to the database?
  shown   \* did the user see what the message is about?

vars == <<via, msg, pc, row, index, wrote, shown>>
db == <<row, index, wrote>>

(* Types; a row has one of the statuses the code writes. *)
TypeOK ==
  /\ via \in Callers
  /\ msg \in Messages
  /\ pc \in {"received", "dispatch", "insert", "overwrite", "saveUser", "status",
            "delete", "ok", "err", "rejected"}
  /\ row \in Rows
  /\ index \in {"before", "trade", "daemon"}
  /\ wrote \in BOOLEAN /\ shown \in BOOLEAN

Init ==
  /\ via \in Callers
  /\ msg \in Messages
  /\ pc = "received"
  /\ row \in Rows
  /\ index = "before"
  /\ wrote = FALSE /\ shown = FALSE

Return(result) == pc' = result /\ UNCHANGED <<via, msg>>

-----------------------------------------------------------------------------
(* The callers *)

(* mostro-core's validate_response. *)
Valid(m) ==
  /\ m.act # "CantDo"
  /\ m.req = "mine" \/ (m.req = "none" /\ m.act \in Pushes)

(* Mutant: every message without a request id is tolerated, or any id. *)
MutAdmitsAnyId(m) == m.act # "CantDo"

(* "legacy tolerance": a NewOrder without a request id passes, too. *)
Admitted(m) == Valid(m) \/ (m.req = "none" /\ m.act = "NewOrder")

(* A message that cannot be unwrapped is dropped; then, as for one that is *)
(* not admitted, the command fails.                                        *)
PrintDmEvents ==
  /\ pc = "received" /\ via = "reply"
  /\ \/ Admitted(msg) /\ Return("dispatch")
     \/ Return("rejected")
  /\ UNCHANGED <<db, shown>>

(* release fetches what came for the next trade key, takes the first       *)
(* NewOrder and is content without one; no request id is compared.  The    *)
(* fetch may fail.                                                         *)
FetchChild ==
  /\ pc = "received" /\ via = "child"
  /\ Return(IF msg.act = "NewOrder" THEN "dispatch" ELSE "ok") \/ Return("rejected")
  /\ UNCHANGED <<db, shown>>

(* getlasttradeindex sends no request id and compares none.                *)
ReadIndexReply ==
  /\ pc = "received" /\ via = "sync"
  /\ \/ msg.act = "LastTradeIndex" /\ Return("dispatch")
     \/ Return("rejected")
  /\ UNCHANGED <<db, shown>>

-----------------------------------------------------------------------------
(* print_commands_results *)

PayloadOf(act) == IF act \in {"NewOrder", "AddInvoice"} THEN "order" ELSE "payment"

(* AddInvoice and the two invoices are displayed before anything is        *)
(* checked; a NewOrder is displayed once it has been saved.                *)
DispatchOrder ==
  /\ pc = "dispatch"
  /\ msg.act \in OrderReplies
  /\ LET expected == \/ msg.payload = PayloadOf(msg.act)
                     \/ (PayloadOf(msg.act) = "payment" /\ msg.payload = "paymentNoOrder")
     IN  /\ shown' = (expected /\ msg.act # "NewOrder")
         /\ Return(CASE expected /\ msg.payload # "paymentNoOrder" /\ msg.req # "none"
                          -> "insert"
                     [] msg.act = "PayInvoice" /\ ~expected -> "ok"
                     [] OTHER -> "err")
  /\ UNCHANGED db

(* Order::new inserts, and overwrites in a second statement if the id is   *)
(* taken; the row may be gone by then.  If either fails save_order ends,   *)
(* with Ok.                                                                *)
InsertOrder ==
  /\ pc = "insert"
  /\ shown' = TRUE
  /\ \/ row = "none" /\ row' = "saved" /\ wrote' = TRUE /\ Return("saveUser")
     \/ row # "none" /\ UNCHANGED <<row, wrote>> /\ Return("overwrite")
     \/ UNCHANGED <<row, wrote>> /\ Return("ok")
  /\ UNCHANGED index

OverwriteOrder ==
  /\ pc = "overwrite"
  /\ \/ row # "none" /\ row' = "saved" /\ wrote' = TRUE /\ Return("saveUser")
     \/ row = "none" /\ UNCHANGED <<row, wrote>> /\ Return("saveUser")
     \/ UNCHANGED <<row, wrote>> /\ Return("ok")
  /\ UNCHANGED <<index, shown>>

(* Mutant: a failing write of the user is returned as an error. *)
MutSaveUserFails ==
  /\ pc = "saveUser"
  /\ \/ index' = "trade" /\ wrote' = TRUE /\ Return("ok")
     \/ UNCHANGED <<index, wrote>> /\ Return("err")
  /\ UNCHANGED <<row, shown>>

(* A failing read or write of the user is printed and save_order ends well. *)
SaveUser ==
  /\ pc = "saveUser"
  /\ \/ index' = "trade" /\ wrote' = TRUE
     \/ UNCHANGED <<index, wrote>>
  /\ Return("ok")
  /\ UNCHANGED <<row, shown>>

(* The row is fetched in one statement and written back in another.        *)
DispatchStatus ==
  /\ pc = "dispatch"
  /\ msg.act \in StatusReplies
  /\ LET dispute == msg.act = "DisputeInitiatedByYou"
         lookup  == msg.id /\ (dispute => msg.payload = "dispute")
     IN  /\ shown' = (msg.id \/ dispute)
         /\ Return(CASE lookup /\ row # "none"  -> "status"
                     [] dispute /\ ~lookup      -> "ok"
                     [] OTHER                   -> "err")
  /\ UNCHANGED db

(* Mutant: the dispute's status in the plural. *)
MutNewStatus == IF msg.act = "DisputeInitiatedByYou" THEN "disputes" ELSE "waiting-payment"

NewStatus == IF msg.act = "DisputeInitiatedByYou" THEN "dispute" ELSE "waiting-payment"

(* An UPDATE: it finds nothing if the row is gone, and success is printed  *)
(* all the same; a failing one is printed and the command returns Ok.      *)
SaveStatus ==
  /\ pc = "status"
  /\ \/ row # "none" /\ row' = NewStatus /\ wrote' = TRUE
     \/ UNCHANGED <<row, wrote>>
  /\ Return("ok")
  /\ UNCHANGED <<index, shown>>

(* Looked up, then deleted: a row that vanished between the two is no error. *)
DispatchCanceled ==
  /\ pc = "dispatch"
  /\ msg.act = "Canceled"
  /\ shown' = msg.id
  /\ \/ msg.id /\ row # "none" /\ Return("delete")
     \/ Return("err")
  /\ UNCHANGED db

DeleteOrder ==
  /\ pc = "delete"
  /\ \/ row' = "none" /\ wrote' = (row # "none") /\ Return("ok")
     \/ UNCHANGED <<row, wrote>> /\ Return("err")
  /\ UNCHANGED <<index, shown>>

DispatchIndex ==
  /\ pc = "dispatch"
  /\ msg.act = "LastTradeIndex"
  /\ shown' = msg.index
  /\ \/ msg.index /\ index' = "daemon" /\ wrote' = TRUE
     \/ UNCHANGED <<index, wrote>>
  /\ Return("ok")
  /\ UNCHANGED row

(* Actions that are only printed; a few insist on their payload or id. *)
DispatchNotice ==
  /\ pc = "dispatch"
  /\ msg.act \in Notices
  /\ LET complete == CASE msg.act = "AddBondInvoice" -> msg.payload = "bondPayout"
                       [] msg.act = "RestoreSession" -> msg.payload = "restore"
                       [] msg.act = "FiatSentOk"     -> msg.id
                       [] OTHER                      -> TRUE
     IN  /\ shown' = complete
         /\ Return(IF complete THEN "ok" ELSE "err")
  /\ UNCHANGED db

(* CantDo (which only other callers let through) and unknown actions. *)
DispatchError ==
  /\ pc = "dispatch"
  /\ msg.act \in {"CantDo", "Unknown"}
  /\ Return("err")
  /\ UNCHANGED <<db, shown>>

(* Another command deletes, saves or updates the row. *)
OtherCommand ==
  /\ pc \in {"dispatch", "insert", "overwrite", "saveUser", "status", "delete"}
  /\ row' \in Rows
  /\ UNCHANGED <<via, msg, pc, index, wrote, shown>>

Own == \/ PrintDmEvents \/ FetchChild \/ ReadIndexReply
       \/ DispatchOrder \/ InsertOrder \/ OverwriteOrder \/ SaveUser
       \/ DispatchStatus \/ SaveStatus
       \/ DispatchCanceled \/ DeleteOrder \/ DispatchIndex
       \/ DispatchNotice \/ DispatchError

Next == Own \/ OtherCommand

Spec == Init /\ [][Next]_vars

-----------------------------------------------------------------------------
(* Nothing is written for a message that answers somebody else's request,  *)
(* and for one that answers none only if it is a push the daemon may send. *)
(* The two callers that compare no request id make up for it: the          *)
(* follow-up only lets through what saves an order and carries some        *)
(* request id, and getlasttradeindex never touches the orders.             *)
OnlyTrustedWrites ==
  wrote => \/ msg.req = "mine"
           \/ msg.req = "none" /\ msg.act \in Pushes
           \/ via = "child" /\ msg.act \in OrderReplies /\ msg.req # "none"
           \/ via = "sync" /\ index = "daemon"

(* A reply saves an order only if it answers this command's own request;   *)
(* what the follow-up of release saves answers some request.               *)
OnlyAnswersAreSaved ==
  pc = "saveUser" => msg.req = "mine" \/ (via = "child" /\ msg.req = "other")

(* A dispatch that returns an error has written to neither table: whatever *)
(* the user is told about the message failed before the first write, and   *)
(* writes that fail after one are not errors.  It says nothing of the rest *)
(* of the command: release has stored the next index before it sends, and  *)
(* its first reply may have written before the follow-up fails.            *)
FailedDispatchWroteNothing == pc \in {"err", "rejected"} => ~wrote

(* "Preserve the CLI's legacy tolerance so a child order published after a *)
(* range trade (no `request_id`) still gets printed" (messaging.rs:559).   *)
ToleratedIsPrinted ==
  /\ msg.act = "NewOrder" /\ msg.payload = "order" /\ msg.req = "none"
  /\ via = "reply" /\ pc = "err"
  => shown

=============================================================================
