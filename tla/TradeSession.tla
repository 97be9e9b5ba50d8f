---------------------------- MODULE TradeSession ----------------------------
(***************************************************************************)
(* The trade-key side of mostro-cli: every command is a process that reads *)
(* the next trade index from the local database when it starts             *)
(* (init_context), exchanges one request and one reply with the Mostro     *)
(* daemon, and writes the reply's effects back to the two tables it shares *)
(* with every other running command: users.last_trade_index and orders.    *)
(*                                                                         *)
(* A trade key is identified with its derivation index; index 0 is the     *)
(* identity key.  An order is identified with its id.  The daemon and the  *)
(* relays are external: they are modelled by what the CLI expects of them. *)
(* Messages are kept in the sets reqs and msgs for ever: they may be       *)
(* delayed, reordered, seen by several processes, or never arrive.         *)
(***************************************************************************)
EXTENDS Naturals

CONSTANTS
  Procs,        \* command processes that may run at the same time
  MadeOrders,   \* ids the daemon gives to orders this user creates
  BookOrders,   \* ids of other users' orders, which this user may take
  ChildOrders,  \* ids the daemon gives to children of a range order
  Ranged,       \* orders whose remaining range still allows a child
  TakeReplies,  \* actions the daemon may answer an accepted take with
  Pushes,       \* actions the validation lets through without a request id
  LateReplies,  \* may a reply outlive the command that asked for it?
  MaxRid,       \* bound: number of commands of a behaviour
  NoRow,        \* no row under this id in the orders table
  NoOrder       \* the command names no order

Direct == MadeOrders \cup BookOrders   \* created or taken by a command
Orders == Direct \cup ChildOrders

(* Actions of a reply, by what print_commands_results does on them. *)
OrderReplies  == {"NewOrder", "AddInvoice", "PayInvoice", "PayBondInvoice"}
StatusReplies == {"WaitingSellerToPay", "DisputeInitiatedByYou"}
Notices       == {"FiatSentOk", "Released", "RateReceived", "Orders", "RestoreSession"}
Acts == OrderReplies \cup StatusReplies \cup Notices
          \cup {"Canceled", "CantDo", "LastTradeIndex"}

NextTradeCmds == {"fiatsent", "release"}
MsgCmds       == NextTradeCmds \cup {"cancel", "dispute"}
OrderCmds     == MsgCmds \cup {"addinvoice", "addbondinvoice", "rate"}
TradeCmds     == {"neworder", "take"}
AccountCmds   == {"sync", "restore", "ordersinfo"}
Cmds          == OrderCmds \cup TradeCmds \cup AccountCmds

(* Commands whose request carries no request id. *)
Anonymous == {"sync", "restore", "rate"}

Statuses == {"saved", "waiting-payment", "dispute"}
TradeKey == Nat \ {0}
Row == [key : TradeKey, status : Statuses]

ASSUME OrdersAssumption ==
  /\ MadeOrders \cap BookOrders = {}
  /\ MadeOrders \cap ChildOrders = {}
  /\ BookOrders \cap ChildOrders = {}
  /\ NoOrder \notin Orders
  /\ NoRow \notin Row

ASSUME RepliesAssumption ==
  /\ TakeReplies \subseteq (OrderReplies \ {"NewOrder"}) \cup {"WaitingSellerToPay"}
  /\ Pushes \subseteq {"WaitingSellerToPay", "Canceled", "RateReceived"}
  /\ LateReplies \in BOOLEAN
  /\ MaxRid \in Nat

VARIABLES
  last,   \* users.last_trade_index, NULL read as 0
  rows,   \* the orders table
  pc,     \* where each command process is
  job,    \* the process's locals
  rid,    \* request ids handed out (fresh UUIDs)
  reqs,   \* requests the daemon has not handled
  msgs,   \* messages the daemon has published
  seen,   \* daemon: highest trade index it has accepted
  dkey    \* daemon: trade index each order of this user is bound to, 0 if none

vars == <<last, rows, pc, job, rid, reqs, msgs, seen, dkey>>
daemon == <<reqs, msgs, seen, dkey>>

NoId == 0   \* a message without request_id

Job == [cmd : Cmds, order : Orders \cup {NoOrder}, ctx : TradeKey, next : Nat,
        key : Nat, rid : Nat, copy : Row \cup {NoRow}, got : Acts \cup {"none"}]

NoJob == [cmd |-> "sync", order |-> NoOrder, ctx |-> 1, next |-> 0, key |-> 0,
          rid |-> 0, copy |-> NoRow, got |-> "none"]

Request == [cmd : Cmds, order : Orders \cup {NoOrder}, idx : Nat, key : Nat,
            rid : Nat]
Message == [act : Acts, order : Orders \cup {NoOrder}, to : Nat, req : Nat,
            cause : Nat, idx : Nat]

PCs == {"idle", "ready", "bump", "send", "waiting", "saveUser", "saveStatus",
        "follow", "ok", "warned", "error"}

(* Types; a row is only ever stored under a trade key, never key 0. *)
TypeOK ==
  /\ last \in Nat
  /\ rows \in [Orders -> Row \cup {NoRow}]
  /\ pc \in [Procs -> PCs]
  /\ job \in [Procs -> Job]
  /\ rid \in Nat
  /\ reqs \subseteq Request
  /\ msgs \subseteq Message
  /\ seen \in Nat
  /\ dkey \in [Orders -> Nat]

Init ==
  /\ last = 0
  /\ rows = [o \in Orders |-> NoRow]
  /\ pc = [p \in Procs |-> "idle"]
  /\ job = [p \in Procs |-> NoJob]
  /\ rid = 0
  /\ reqs = {}
  /\ msgs = {}
  /\ seen = 0
  /\ dkey = [o \in Orders |-> 0]

Goto(p, l) == pc' = [pc EXCEPT ![p] = l]

-----------------------------------------------------------------------------
(* The command side. *)

(* Mutant: get_next_trade_index forgets to step past the last index. *)
MutNextIndexStuck == last

NextIndex == last + 1

(* init_context: the trade keys and index of the context are read once,    *)
(* here, whatever the command does later.                                  *)
NewJob(c, o) == [cmd |-> c, order |-> o, ctx |-> NextIndex, next |-> 0, key |-> 0,
                 rid |-> rid + 1, copy |-> NoRow, got |-> "none"]

Start(p, c, o) ==
  /\ pc[p] = "idle"
  /\ rid < MaxRid
  /\ o = NoOrder <=> c \in AccountCmds \cup {"neworder"}
  /\ c = "take" => o \in BookOrders
  /\ rid' = rid + 1
  /\ job' = [job EXCEPT ![p] = NewJob(c, o)]
  /\ Goto(p, "ready")
  /\ UNCHANGED <<last, rows, daemon>>

(* The subscription is on the key the request is signed with, so `key` is  *)
(* both the author of the request and the address of the reply.            *)
Send(p, k, i) ==
  /\ reqs' = reqs \cup {[cmd |-> job[p].cmd, order |-> job[p].order, idx |-> i,
                         key |-> k, rid |-> job[p].rid]}
  /\ job' = [job EXCEPT ![p].key = k]
  /\ Goto(p, "waiting")
  /\ UNCHANGED <<last, rows, rid, msgs, seen, dkey>>

(* neworder and take: signed with the context's trade key. *)
SendNewOrder(p) ==
  /\ pc[p] = "ready"
  /\ job[p].cmd = "neworder"
  /\ Send(p, job[p].ctx, job[p].ctx)

SendTake(p) ==
  /\ pc[p] = "ready"
  /\ job[p].cmd = "take"
  /\ Send(p, job[p].ctx, job[p].ctx)

(* getlasttradeindex, restore, orders-info: account-scoped, signed with    *)
(* the identity key and without a trade index.                             *)
SendSync(p) ==
  /\ pc[p] = "ready"
  /\ job[p].cmd = "sync"
  /\ Send(p, 0, 0)

SendRestore(p) ==
  /\ pc[p] = "ready"
  /\ job[p].cmd = "restore"
  /\ Send(p, 0, 0)

SendOrdersInfo(p) ==
  /\ pc[p] = "ready"
  /\ job[p].cmd = "ordersinfo"
  /\ Send(p, 0, 0)

(* create_next_trade_payload: a range order with room left promises the    *)
(* key of its child; the index is read from the database, not the context. *)
Prepare(p) ==
  /\ pc[p] = "ready"
  /\ job[p].cmd \in MsgCmds
  /\ IF job[p].cmd \in NextTradeCmds /\ rows[job[p].order] = NoRow
     THEN Goto(p, "error") /\ UNCHANGED job
     ELSE IF job[p].cmd \in NextTradeCmds /\ job[p].order \in Ranged
          THEN Goto(p, "bump") /\ job' = [job EXCEPT ![p].next = NextIndex]
          ELSE Goto(p, "send") /\ UNCHANGED job
  /\ UNCHANGED <<last, rows, rid, daemon>>

(* The promised index is stored before anything is sent; a failing write   *)
(* is only printed.                                                        *)
BumpIndex(p) ==
  /\ pc[p] = "bump"
  /\ last' \in {last, job[p].next}
  /\ Goto(p, "send")
  /\ UNCHANGED <<rows, job, rid, daemon>>

(* What is about an order is signed with the key of its row. *)
SendAsTrader(p) ==
  LET row == rows[job[p].order]
  IN  IF row = NoRow
      THEN Goto(p, "error") /\ UNCHANGED <<last, rows, job, rid, daemon>>
      ELSE Send(p, row.key, job[p].next)

SendOrderMsg(p) ==
  /\ pc[p] = "send"
  /\ SendAsTrader(p)

SendInvoice(p) ==
  /\ pc[p] = "ready"
  /\ job[p].cmd = "addinvoice"
  /\ SendAsTrader(p)

SendBondInvoice(p) ==
  /\ pc[p] = "ready"
  /\ job[p].cmd = "addbondinvoice"
  /\ SendAsTrader(p)

SendRating(p) ==
  /\ pc[p] = "ready"
  /\ job[p].cmd = "rate"
  /\ SendAsTrader(p)

-----------------------------------------------------------------------------
(* Receiving the reply. *)

(* Mutant: the request id of a reply is not compared. *)
MutAcceptAnyId(j, m) ==
  CASE j.cmd = "sync"    -> m.act = "LastTradeIndex"
    [] j.cmd = "restore" -> m.act = "RestoreSession"
    [] OTHER -> m.act # "CantDo"

(* getlasttradeindex and restore look at the action alone, orders-info at  *)
(* the request id alone; every other command asks validate_response for a  *)
(* matching request id, which lets pushes through, and tolerates a         *)
(* NewOrder without an id.  rate compares with an id nobody has seen: it   *)
(* depends on RateReceived passing as a push.  CantDo is always an error.  *)
Accepted(j, m) ==
  CASE j.cmd = "sync"       -> m.act = "LastTradeIndex"
    [] j.cmd = "restore"    -> m.act = "RestoreSession"
    [] j.cmd = "ordersinfo" -> m.act # "CantDo" /\ m.req = j.rid
    [] OTHER -> /\ m.act # "CantDo"
                /\ \/ m.req = j.rid /\ j.cmd \notin Anonymous
                   \/ m.req = NoId /\ m.act \in Pushes \cup {"NewOrder"}

Reaches(p, m) ==
  /\ pc[p] = "waiting"
  /\ m.to = job[p].key
  /\ LateReplies \/ m.cause \in {job[p].rid, NoId}

(* Where execute_send_msg goes once the reply is dispatched. *)
After(j) == IF j.cmd = "release" /\ j.next # 0 THEN "follow" ELSE "ok"

Got(p, m) == job' = [job EXCEPT ![p].got = m.act]

Reject(p, m) ==
  /\ Reaches(p, m)
  /\ ~Accepted(job[p], m)
  /\ Goto(p, "error")
  /\ Got(p, m)
  /\ UNCHANGED <<last, rows, rid, daemon>>

(* Mutants: the order is saved under the key the reply came in on, or      *)
(* under the next key as read again from the database.                     *)
MutSavedUnderReplyKey(j) == [key |-> j.key, status |-> "saved"]
MutSavedUnderFreshKey(j) == [key |-> NextIndex, status |-> "saved"]

(* save_order, first half.  Order::new inserts or overwrites the row with  *)
(* the context's trade key (two statements, one step here; ReplyDispatch   *)
(* takes them apart); a failure ends save_order without error and without  *)
(* touching the index.                                                     *)
SavedRow(j) == [key |-> j.ctx, status |-> "saved"]

SaveOrder(p, m) ==
  IF m.req = NoId
  THEN Goto(p, "error") /\ UNCHANGED rows
  ELSE \/ /\ rows' = [rows EXCEPT ![m.order] = SavedRow(job[p])]
          /\ Goto(p, "saveUser")
       \/ /\ UNCHANGED rows
          /\ Goto(p, After(job[p]))

ReceiveOrder(p, m) ==
  /\ Reaches(p, m)
  /\ Accepted(job[p], m)
  /\ m.act \in OrderReplies
  /\ SaveOrder(p, m)
  /\ Got(p, m)
  /\ UNCHANGED <<last, rid, daemon>>

(* save_order, second half: User::get, set_last_trade_index, save.  A      *)
(* failing write is only printed.                                          *)
SaveUser(p) ==
  /\ pc[p] = "saveUser"
  /\ last' \in {last, job[p].ctx}
  /\ Goto(p, After(job[p]))
  /\ UNCHANGED <<rows, job, rid, daemon>>

(* get_by_id, then set_status(..).save as a second statement: the UPDATE   *)
(* writes the whole copy and finds no row if the order is gone by then.    *)
ReceiveStatus(p, m) ==
  /\ Reaches(p, m)
  /\ Accepted(job[p], m)
  /\ m.act \in StatusReplies
  /\ IF rows[m.order] = NoRow
     THEN Goto(p, "error") /\ Got(p, m)
     ELSE /\ Goto(p, "saveStatus")
          /\ job' = [job EXCEPT ![p].got = m.act, ![p].order = m.order,
                                ![p].copy = rows[m.order]]
  /\ UNCHANGED <<last, rows, rid, daemon>>

NewStatus(act) == IF act = "DisputeInitiatedByYou" THEN "dispute"
                                                   ELSE "waiting-payment"

(* Mutant: the whole row is written back with the context's key. *)
MutSaveStatus(p) ==
  /\ pc[p] = "saveStatus"
  /\ LET j == job[p]
     IN  rows' \in {rows, IF rows[j.order] = NoRow THEN rows
                          ELSE [rows EXCEPT ![j.order] =
                                 [key |-> j.ctx, status |-> NewStatus(j.got)]]}
  /\ Goto(p, After(job[p]))
  /\ UNCHANGED <<last, job, rid, daemon>>

SaveStatus(p) ==
  /\ pc[p] = "saveStatus"
  /\ LET j == job[p]
     IN  rows' \in {rows, IF rows[j.order] = NoRow THEN rows
                          ELSE [rows EXCEPT ![j.order] =
                                 [key |-> j.copy.key, status |-> NewStatus(j.got)]]}
  /\ Goto(p, After(job[p]))
  /\ UNCHANGED <<last, job, rid, daemon>>

(* A row that is not there and a failing DELETE are both errors (lookup    *)
(* and DELETE are one step here, two in ReplyDispatch).                    *)
ReceiveCanceled(p, m) ==
  /\ Reaches(p, m)
  /\ Accepted(job[p], m)
  /\ m.act = "Canceled"
  /\ \/ /\ rows[m.order] # NoRow
        /\ rows' = [rows EXCEPT ![m.order] = NoRow]
        /\ Goto(p, After(job[p]))
     \/ UNCHANGED rows /\ Goto(p, "error")
  /\ Got(p, m)
  /\ UNCHANGED <<last, rid, daemon>>

ReceiveNotice(p, m) ==
  /\ Reaches(p, m)
  /\ Accepted(job[p], m)
  /\ m.act \in Notices
  /\ Goto(p, After(job[p]))
  /\ Got(p, m)
  /\ UNCHANGED <<last, rows, rid, daemon>>

(* Mutant: the index is looked for in the (absent) payload. *)
MutReceiveIndexLost(p, m) ==
  /\ Reaches(p, m)
  /\ Accepted(job[p], m)
  /\ m.act = "LastTradeIndex"
  /\ last' = 0
  /\ Goto(p, "ok")
  /\ Got(p, m)
  /\ UNCHANGED <<rows, rid, daemon>>

(* The daemon's index replaces the local one, whatever they are; a failing *)
(* write is printed and the command still returns Ok.                      *)
ReceiveIndex(p, m) ==
  /\ Reaches(p, m)
  /\ Accepted(job[p], m)
  /\ m.act = "LastTradeIndex"
  /\ \/ last' = m.idx /\ Goto(p, "ok")
     \/ last' = last /\ Goto(p, "warned")
  /\ Got(p, m)
  /\ UNCHANGED <<rows, rid, daemon>>

(* After a release: fetch what was stored for the promised key, which may  *)
(* fail or give nothing, and take the first NewOrder as the child.  It is  *)
(* saved like any other order, under the context's trade key.              *)
FollowUp(p) ==
  /\ pc[p] = "follow"
  /\ \/ /\ \E end \in {"ok", "error"} : Goto(p, end)
        /\ UNCHANGED <<rows, job>>
     \/ \E m \in msgs :
          /\ m.to = job[p].next
          /\ m.act = "NewOrder"
          /\ LateReplies \/ m.cause = job[p].rid
          /\ job' = [job EXCEPT ![p].next = 0]
          /\ IF m.req = NoId
             THEN Goto(p, "error") /\ UNCHANGED rows
             ELSE \/ /\ rows' = [rows EXCEPT ![m.order] = SavedRow(job[p])]
                     /\ Goto(p, "saveUser")
                  \/ /\ UNCHANGED rows
                     /\ Goto(p, "ok")
  /\ UNCHANGED <<last, rid, daemon>>

(* The process ends: it returned, wait_for_dm timed out, or it was killed. *)
(* Replies it has not read stay behind if replies may come late.           *)
Exit(p) ==
  /\ pc[p] # "idle"
  /\ Goto(p, "idle")
  /\ job' = [job EXCEPT ![p] = NoJob]
  /\ msgs' = {m \in msgs : LateReplies \/ m.cause # job[p].rid}
  /\ UNCHANGED <<last, rows, rid, reqs, seen, dkey>>

-----------------------------------------------------------------------------
(* The daemon: rejects an index it has already seen, binds an order to the *)
(* key that created or took it, and answers on that key.                   *)

ReqId(r) == IF r.cmd \in Anonymous THEN NoId ELSE r.rid

Reply(r, act, o, i) == [act |-> act, order |-> o, to |-> r.key, req |-> ReqId(r),
                        cause |-> r.rid, idx |-> i]

(* Somebody may still read an answer to this request. *)
Awaited(r) == LateReplies \/ \E p \in Procs : pc[p] # "idle" /\ job[p].rid = r.rid

Handled(r, out) ==
  /\ reqs' = reqs \ {r}
  /\ msgs' = IF Awaited(r) THEN msgs \cup out ELSE msgs
  /\ UNCHANGED <<last, rows, pc, job, rid>>

Refuse(r) == Handled(r, {Reply(r, "CantDo", r.order, 0)})

FreshIndex(i) == i > seen

Bind(o, i) ==
  /\ seen' = i
  /\ dkey' = [dkey EXCEPT ![o] = i]

DaemonTrade(r) ==
  /\ r.cmd \in TradeCmds
  /\ \/ \E o \in (IF r.cmd = "take" THEN {r.order} ELSE MadeOrders),
           act \in (IF r.cmd = "take" THEN TakeReplies ELSE {"NewOrder"}) :
          /\ FreshIndex(r.idx)
          /\ dkey[o] = 0
          /\ Bind(o, r.idx)
          /\ Handled(r, {Reply(r, act, o, 0)})
     \/ /\ ~FreshIndex(r.idx) \/ r.cmd = "take"
        /\ Refuse(r)
        /\ UNCHANGED <<seen, dkey>>

DaemonAnswer(cmd) ==
  CASE cmd = "fiatsent"   -> "FiatSentOk"
    [] cmd = "release"    -> "Released"
    [] cmd = "cancel"     -> "Canceled"
    [] cmd = "dispute"    -> "DisputeInitiatedByYou"
    [] cmd = "addinvoice" -> "WaitingSellerToPay"
    [] cmd = "rate"       -> "RateReceived"

(* A bond invoice is paid without a word.  A child may be published for a  *)
(* promised key, with or without the request id of the message that        *)
(* promised it.                                                            *)
DaemonOrder(r) ==
  /\ r.cmd \in OrderCmds \ {"addbondinvoice"}
  /\ LET answer == Reply(r, DaemonAnswer(r.cmd), r.order, 0)
         mine   == dkey[r.order] = r.key
     IN  \/ /\ mine
            /\ r.idx = 0
            /\ Handled(r, {answer})
            /\ UNCHANGED <<seen, dkey>>
         \/ /\ mine
            /\ FreshIndex(r.idx)
            /\ Handled(r, {answer})
            /\ seen' = r.idx
            /\ UNCHANGED dkey
         \/ \E c \in ChildOrders, id \in {NoId, r.rid} :
            /\ mine
            /\ FreshIndex(r.idx)
            /\ dkey[c] = 0
            /\ Bind(c, r.idx)
            /\ Handled(r, {answer, [act |-> "NewOrder", order |-> c, to |-> r.idx,
                                    req |-> id, cause |-> r.rid, idx |-> 0]})
         \/ /\ Refuse(r)
            /\ UNCHANGED <<seen, dkey>>

DaemonBond(r) ==
  /\ r.cmd = "addbondinvoice"
  /\ \/ dkey[r.order] = r.key /\ Handled(r, {})
     \/ Refuse(r)
  /\ UNCHANGED <<seen, dkey>>

DaemonAccount(r) ==
  /\ r.cmd \in AccountCmds
  /\ \/ r.cmd = "sync" /\ Handled(r, {Reply(r, "LastTradeIndex", NoOrder, seen)})
     \/ r.cmd = "restore" /\ Handled(r, {Reply(r, "RestoreSession", NoOrder, 0)})
     \/ r.cmd = "ordersinfo" /\ Handled(r, {Reply(r, "Orders", NoOrder, 0)})
     \/ Refuse(r)
  /\ UNCHANGED <<seen, dkey>>

(* The counterparty acted: a push on the order's key, without request id. *)
DaemonPush(o, act) ==
  /\ dkey[o] # 0
  /\ act \in Pushes \ {"RateReceived"}
  /\ msgs' = msgs \cup {[act |-> act, order |-> o, to |-> dkey[o], req |-> NoId,
                         cause |-> NoId, idx |-> 0]}
  /\ UNCHANGED <<last, rows, pc, job, rid, reqs, seen, dkey>>

-----------------------------------------------------------------------------
Receive(p, m) ==
  \/ Reject(p, m)
  \/ ReceiveOrder(p, m)
  \/ ReceiveStatus(p, m)
  \/ ReceiveCanceled(p, m)
  \/ ReceiveNotice(p, m)
  \/ ReceiveIndex(p, m)

Cli(p) ==
  \/ \E c \in Cmds, o \in Orders \cup {NoOrder} : Start(p, c, o)
  \/ SendNewOrder(p)
  \/ SendTake(p)
  \/ SendSync(p)
  \/ SendRestore(p)
  \/ SendOrdersInfo(p)
  \/ Prepare(p)
  \/ BumpIndex(p)
  \/ SendOrderMsg(p)
  \/ SendInvoice(p)
  \/ SendBondInvoice(p)
  \/ SendRating(p)
  \/ \E m \in msgs : Receive(p, m)
  \/ SaveUser(p)
  \/ SaveStatus(p)
  \/ FollowUp(p)
  \/ Exit(p)

Daemon ==
  \/ \E r \in reqs : DaemonTrade(r) \/ DaemonOrder(r) \/ DaemonBond(r) \/ DaemonAccount(r)
  \/ \E o \in Orders, act \in Pushes : DaemonPush(o, act)

Next == (\E p \in Procs : Cli(p)) \/ Daemon

Spec == Init /\ [][Next]_vars

-----------------------------------------------------------------------------
(* Properties. *)

Saved(o) == rows[o] # NoRow

(* Every saved order can be reached by getdm: it scans the keys 1 to the   *)
(* context's trade index, which is last_trade_index + 1.                   *)
KeyCoverage == \A o \in Orders : Saved(o) => rows[o].key <= last + 1

(* A fresh keypair per order: no two saved orders share a trade key. *)
KeyPerOrder == \A o1, o2 \in Orders :
  Saved(o1) /\ Saved(o2) /\ rows[o1].key = rows[o2].key => o1 = o2

(* The key stored with an order is the one the daemon bound it to, so that *)
(* later commands on the order are signed by a key the daemon knows.       *)
KeyAgreement == \A o \in Orders : Saved(o) => rows[o].key = dkey[o]

(* The same for the orders the user created or took, leaving out children. *)
DirectKeyAgreement ==
  \A o \in Direct : Saved(o) => rows[o].key = dkey[o]

(* ... and no two of them share a key, however many commands run at once.  *)
DirectKeyPerOrder == \A o1, o2 \in Direct :
  Saved(o1) /\ Saved(o2) /\ rows[o1].key = rows[o2].key => o1 = o2

(* The orders table as a ledger of the keys the daemon binds. *)
KeptKey(o) == IF Saved(o) THEN rows[o].key ELSE 0

AllKeys    == INSTANCE KeyLedger WITH
                bound <- dkey, kept <- [o \in Orders |-> KeptKey(o)]
DirectKeys == INSTANCE KeyLedger WITH
                Orders <- Direct,
                bound <- [o \in Direct |-> dkey[o]],
                kept <- [o \in Direct |-> KeptKey(o)]

(* "Each order in the local DB stores which index it used" (README.md:105):*)
(* with one command at a time, every write to the table keeps the key an   *)
(* order was bound to, each above those before it, or drops the order.     *)
ImplementsLedger == AllKeys!Spec

(* With any commands at a time, that holds of the orders created or taken. *)
ImplementsDirectLedger == DirectKeys!Spec

(* getlasttradeindex "asks Mostro for your real last index and writes it   *)
(* back" (README.md:514): once it reports success, the local index is not  *)
(* behind the key of an order saved here.                                  *)
SyncedIndexIsReal ==
  \A p \in Procs : pc[p] = "ok" /\ job[p].cmd = "sync" =>
    \A o \in Orders : Saved(o) => rows[o].key <= last

(* "Take it [...] with invoice [...] Tell Mostro fiat is sent: mostro-cli  *)
(* fiatsent" (README.md:299-321): a take whose acceptance reached the      *)
(* command leaves the row the following commands need.                     *)
TakenOrderKept ==
  \A p \in Procs :
    /\ pc[p] \in {"ok", "error"}
    /\ job[p].cmd = "take"
    /\ job[p].got = "WaitingSellerToPay"
    => Saved(job[p].order)

(* A row of a created or taken order only appears through the command that *)
(* created or took it, never through a late or duplicated message.         *)
RowsFromOwnCommand ==
  [][\A o \in Direct :
       ~Saved(o) /\ Saved(o)' =>
         \E p \in Procs : /\ pc[p] = "waiting"
                          /\ job[p].cmd \in TradeCmds
                          /\ job[p].ctx = dkey[o]]_vars

=============================================================================
