------------------------- MODULE TradeSessionProofs -------------------------
(***************************************************************************)
(* TradeSession for any orders and any number of commands.                 *)
(*                                                                         *)
(* BaseInv holds whatever runs at the same time: what requests and replies *)
(* say about the keys the daemon has bound.  On it rest three inductive    *)
(* invariants, each for the circumstances in which it holds:               *)
(*   DirectInv  any number of commands at a time, late replies, but no     *)
(*              pushes or no range orders: created and taken orders keep   *)
(*              their key (and, in OnceInv, are inserted once);            *)
(*   TableInv   one command at a time, or no range orders; any pushes,     *)
(*              late replies: every order keeps its key;                   *)
(*   SyncInv    one command at a time, no late replies: every saved order  *)
(*              is within the keys getdm scans, after a sync too.          *)
(***************************************************************************)
EXTENDS TradeSession, TLAPS

Active(p) == pc[p] # "idle"

-----------------------------------------------------------------------------
(* Types.  What is about an order names one, wherever the code indexes the *)
(* orders table with it.                                                   *)

Nameless == {"CantDo", "LastTradeIndex", "Orders", "RestoreSession"}

Targets ==
  /\ \A p \in Procs :
       /\ job[p].cmd \in OrderCmds \cup {"take"} => job[p].order \in Orders
       /\ pc[p] \in {"bump", "send"} => job[p].cmd \in MsgCmds
       /\ pc[p] = "saveStatus" => job[p].order \in Orders /\ job[p].copy \in Row
  /\ \A r \in reqs : r.cmd \in OrderCmds \cup {"take"} => r.order \in Orders
  /\ \A m \in msgs : m.act \notin Nameless => m.order \in Orders

TypeInv == TypeOK /\ Targets

LEMMA TypeInit == Init => TypeInv
<1> SUFFICES ASSUME Init PROVE TypeInv
  OBVIOUS
<1>1. NoJob \in Job
  BY DEF NoJob, Job, Cmds, AccountCmds, TradeKey
<1>2. TypeOK
  BY <1>1 DEF Init, TypeOK, PCs
<1>3. Targets
  BY DEF Init, Targets, NoJob, OrderCmds, MsgCmds, NextTradeCmds
<1> QED
  BY <1>2, <1>3 DEF TypeInv

LEMMA TypeStart ==
  ASSUME TypeInv, NEW p \in Procs, NEW c \in Cmds, NEW o \in Orders \cup {NoOrder},
         Start(p, c, o)
  PROVE  TypeInv'
<1>1. NewJob(c, o) \in Job /\ NewJob(c, o).cmd = c /\ NewJob(c, o).order = o
  BY DEF NewJob, Job, NextIndex, TypeInv, TypeOK, TradeKey
<1>2. /\ job' = [job EXCEPT ![p] = NewJob(c, o)] /\ rid' = rid + 1
      /\ pc' = [pc EXCEPT ![p] = "ready"]
      /\ UNCHANGED <<last, rows, daemon>>
  BY DEF Start, Goto
<1>3. c \in OrderCmds \cup {"take"} => o \in Orders
  BY DEF Start, OrderCmds, MsgCmds, NextTradeCmds, AccountCmds
<1>4. TypeOK'
  BY <1>1, <1>2 DEF TypeInv, TypeOK, PCs, daemon
<1>5. Targets'
  BY <1>1, <1>2, <1>3 DEF TypeInv, TypeOK, Targets, daemon
<1> QED
  BY <1>4, <1>5 DEF TypeInv

(* A reply that is noted and leads to the end of the wait. *)
LEMMA TypeGot ==
  ASSUME TypeInv, NEW p \in Procs, NEW m \in msgs, Got(p, m),
         NEW l \in PCs \ {"bump", "send", "saveStatus"}, Goto(p, l),
         last' \in Nat, UNCHANGED <<rows, rid, daemon>>
  PROVE  TypeInv'
<1>1. job' = [job EXCEPT ![p].got = m.act] /\ pc' = [pc EXCEPT ![p] = l]
      /\ m.act \in Acts
  BY DEF Got, Goto, TypeInv, TypeOK, Message
<1>2. TypeOK'
  BY <1>1 DEF TypeInv, TypeOK, Job, daemon
<1>3. Targets'
  BY <1>1 DEF TypeInv, TypeOK, Targets, Job, daemon
<1> QED
  BY <1>2, <1>3 DEF TypeInv

(* The steps of one command process. *)
LEMMA TypeCli == ASSUME TypeInv, NEW p \in Procs, Cli(p) PROVE TypeInv'
<1> USE OrdersAssumption, RepliesAssumption
    DEF TypeInv, TypeOK, Targets, Goto, daemon, PCs, Job, Cmds, OrderCmds,
        MsgCmds, NextTradeCmds, TradeCmds, AccountCmds, TradeKey, Row, Statuses,
        Orders, Direct, Acts, OrderReplies, StatusReplies, Notices, Nameless, Message, NoId
<1>1. ASSUME NEW c \in Cmds, NEW o \in Orders \cup {NoOrder}, Start(p, c, o)
      PROVE  TypeInv'
  BY <1>1, TypeStart
<1>2. ASSUME NEW k \in Nat, NEW i \in Nat, Send(p, k, i),
             job[p].cmd \in OrderCmds \cup {"take"} => job[p].order \in Orders
      PROVE  TypeInv'
  BY <1>2 DEF Send, Request
<1>3. CASE SendNewOrder(p) \/ SendTake(p)
  BY <1>2, <1>3 DEF SendNewOrder, SendTake
<1>4. CASE SendSync(p) \/ SendRestore(p) \/ SendOrdersInfo(p)
  BY <1>2, <1>4 DEF SendSync, SendRestore, SendOrdersInfo
<1>5. CASE Prepare(p)
  BY <1>5 DEF Prepare, NextIndex
<1>6. CASE BumpIndex(p)
  BY <1>6 DEF BumpIndex
<1>7. CASE SendOrderMsg(p) \/ SendInvoice(p) \/ SendBondInvoice(p) \/ SendRating(p)
  <2>1. SendAsTrader(p) /\ job[p].cmd \in OrderCmds
    BY <1>7 DEF SendOrderMsg, SendInvoice, SendBondInvoice, SendRating
  <2> QED
    BY <1>2, <2>1 DEF SendAsTrader
<1>8. ASSUME NEW m \in msgs, Receive(p, m)
      PROVE  TypeInv'
  <2>1. CASE Reject(p, m)
    BY <1>8, <2>1, TypeGot DEF Reject
  <2>2. CASE ReceiveOrder(p, m)
    BY <1>8, <2>2 DEF ReceiveOrder, Got, SaveOrder, SavedRow, After
  <2>3. CASE ReceiveStatus(p, m)
    <3>1. m.order \in Orders
      BY <2>3 DEF ReceiveStatus
    <3>2. CASE rows[m.order] = NoRow
      BY <1>8, <2>3, <3>2, TypeGot DEF ReceiveStatus
    <3>3. CASE rows[m.order] # NoRow
      BY <2>3, <3>1, <3>3 DEF ReceiveStatus
    <3> QED
      BY <3>2, <3>3
  <2>4. CASE ReceiveCanceled(p, m)
    <3>1. CASE UNCHANGED rows /\ Goto(p, "error")
      BY <2>4, <3>1 DEF ReceiveCanceled, Got
    <3>2. CASE rows' = [rows EXCEPT ![m.order] = NoRow] /\ Goto(p, After(job[p]))
      BY <2>4, <3>2 DEF ReceiveCanceled, Got, After
    <3> QED
      BY <2>4, <3>1, <3>2 DEF ReceiveCanceled
  <2>5. CASE ReceiveNotice(p, m)
    <3>1. (Goto(p, "follow") \/ Goto(p, "ok")) /\ Got(p, m) /\ last' \in Nat
          /\ UNCHANGED <<rows, rid, daemon>>
      BY <2>5 DEF ReceiveNotice, After
    <3>2. CASE Goto(p, "follow")
      BY <3>1, <3>2, TypeGot
    <3>3. CASE Goto(p, "ok")
      BY <3>1, <3>3, TypeGot
    <3> QED
      BY <3>1, <3>2, <3>3
  <2>6. CASE ReceiveIndex(p, m)
    <3>1. last' \in Nat /\ Got(p, m) /\ (Goto(p, "ok") \/ Goto(p, "warned"))
          /\ UNCHANGED <<rows, rid, daemon>>
      BY <1>8, <2>6 DEF ReceiveIndex
    <3>2. CASE Goto(p, "ok")
      BY <3>1, <3>2, TypeGot
    <3>3. CASE Goto(p, "warned")
      BY <3>1, <3>3, TypeGot
    <3> QED
      BY <3>1, <3>2, <3>3
  <2> QED
    BY <1>8, <2>1, <2>2, <2>3, <2>4, <2>5, <2>6 DEF Receive
<1>9. CASE SaveUser(p)
  BY <1>9 DEF SaveUser, After
<1>10. CASE SaveStatus(p)
  BY <1>10 DEF SaveStatus, After, NewStatus
<1>11. CASE FollowUp(p)
  <2>1. /\ UNCHANGED <<last, rid, daemon>>
        /\ pc' \in {[pc EXCEPT ![p] = l] : l \in {"ok", "error", "saveUser"}}
        /\ job' \in {job, [job EXCEPT ![p].next = 0]}
    BY <1>11 DEF FollowUp
  <2>2. \/ rows' = rows
        \/ \E m \in msgs : rows' = [rows EXCEPT ![m.order] = SavedRow(job[p])]
    BY <1>11 DEF FollowUp
  <2>3. SavedRow(job[p]) \in Row
    BY DEF SavedRow
  <2>4. rows' \in [Orders -> Row \cup {NoRow}]
    BY <2>2, <2>3
  <2> QED
    BY <2>1, <2>4
<1>12. CASE Exit(p)
  BY <1>12 DEF Exit, NoJob
<1> QED
  BY <1>1, <1>3, <1>4, <1>5, <1>6, <1>7, <1>8, <1>9, <1>10, <1>11, <1>12
     DEF Cli

(* The steps of the daemon. *)
LEMMA TypeDaemon == ASSUME TypeInv, Daemon PROVE TypeInv'
<1> USE OrdersAssumption, RepliesAssumption
    DEF TypeInv, TypeOK, Targets, PCs, Cmds, OrderCmds, MsgCmds, NextTradeCmds,
        TradeCmds, AccountCmds, Orders, Direct, Acts, OrderReplies, StatusReplies, Notices,
        Nameless, Message, Request, NoId, Handled, Reply, ReqId, Refuse, Bind, FreshIndex
<1>1. ASSUME NEW r \in reqs, DaemonTrade(r) PROVE TypeInv'
  <2>1. CASE Refuse(r) /\ UNCHANGED <<seen, dkey>>
    BY <2>1
  <2>2. ASSUME NEW o \in Orders, NEW act \in TakeReplies \cup {"NewOrder"},
               Bind(o, r.idx), Handled(r, {Reply(r, act, o, 0)})
        PROVE  TypeInv'
    <3>1. r \in Request /\ act \in Acts
      OBVIOUS
    <3>2. Reply(r, act, o, 0) \in Message
      BY <3>1
    <3>3. TypeOK'
      BY <2>2, <3>1, <3>2
    <3>4. Targets'
      BY <2>2, <3>1
    <3> QED
      BY <3>3, <3>4
  <2> QED
    BY <1>1, <2>1, <2>2 DEF DaemonTrade
<1>2. ASSUME NEW r \in reqs, DaemonOrder(r) PROVE TypeInv'
  BY <1>2 DEF DaemonOrder, DaemonAnswer
<1>3. ASSUME NEW r \in reqs, DaemonBond(r) \/ DaemonAccount(r) PROVE TypeInv'
  BY <1>3 DEF DaemonBond, DaemonAccount
<1>4. ASSUME NEW o \in Orders, NEW act \in Pushes, DaemonPush(o, act) PROVE TypeInv'
  BY <1>4 DEF DaemonPush
<1> QED
  BY <1>1, <1>2, <1>3, <1>4 DEF Daemon

LEMMA TypeStep == TypeInv /\ [Next]_vars => TypeInv'
<1> SUFFICES ASSUME TypeInv, [Next]_vars PROVE TypeInv'
  OBVIOUS
<1>1. CASE UNCHANGED vars
  BY <1>1 DEF vars, TypeInv, TypeOK, Targets
<1> QED
  BY <1>1, TypeCli, TypeDaemon DEF Next

(* The tables, the processes' locals and the messages keep their types,    *)
(* and every lookup in the orders table is of an order.                    *)
THEOREM TypeCorrect == Spec => []TypeOK
<1>1. Spec => []TypeInv
  BY TypeInit, TypeStep, PTL DEF Spec
<1> QED
  BY <1>1, PTL DEF TypeInv

-----------------------------------------------------------------------------
(* Requests and replies, whatever runs at the same time and whatever is    *)
(* pushed, delayed or lost.                                                *)

(* A process's request id is its own, and nothing carries it before the    *)
(* process has sent its request.                                           *)
Fresh ==
  /\ \A p \in Procs : Active(p) => job[p].rid \in 1..rid
  /\ \A p, q \in Procs : Active(p) /\ Active(q) /\ p # q => job[p].rid # job[q].rid
  /\ \A r \in reqs : r.rid \in 1..rid
  /\ \A m \in msgs : m.cause <= rid /\ m.req \in {NoId, m.cause}
  /\ \A p \in Procs : pc[p] \in {"ready", "bump", "send"} =>
       /\ \A r \in reqs : r.rid # job[p].rid
       /\ \A m \in msgs : m.cause # job[p].rid

(* A pending request is what the waiting process sent. *)
Faithful ==
  /\ \A r \in reqs : r.cmd \in TradeCmds => r.key = r.idx
  /\ \A p \in Procs, r \in reqs : pc[p] = "waiting" /\ r.rid = job[p].rid =>
       /\ r.cmd = job[p].cmd
       /\ r.key = job[p].key
       /\ r.cmd \in TradeCmds => r.idx = job[p].ctx
       /\ r.cmd \in OrderCmds => r.idx = job[p].next

Bound == \A o \in Orders : dkey[o] <= seen

(* A reply that gives or confirms an order goes to the key the order is    *)
(* bound to.  The process whose request id it carries asked with that key, *)
(* or the order is a child, announced on another key than the one the      *)
(* process listens on.                                                     *)
Answers ==
  \A m \in msgs : m.act \in OrderReplies =>
    /\ m.to = dkey[m.order] /\ m.to # 0
    /\ \A p \in Procs : pc[p] = "waiting" /\ m.req = job[p].rid =>
         \/ job[p].cmd \in TradeCmds /\ m.to = job[p].ctx
         \/ m.order \in ChildOrders /\ m.to # job[p].key

(* An index the daemon has accepted for something else will never become   *)
(* the key of a created or taken order.                                    *)
Past(k) == k <= seen /\ \A o \in Direct : dkey[o] # k

(* A release that promised an index and was not refused used it up.        *)
UsedUp ==
  \A p \in Procs, m \in msgs :
    /\ pc[p] = "waiting" /\ job[p].cmd = "release" /\ job[p].next # 0
    /\ m.req = job[p].rid /\ m.act # "CantDo"
    => Past(job[p].next)

Following == \A p \in Procs : pc[p] = "follow" => job[p].cmd = "release" /\ job[p].next # 0

Exchange == Fresh /\ Faithful /\ Bound /\ Answers /\ UsedUp /\ Following
BaseInv == TypeInv /\ Exchange

LEMMA BaseInit == Init => BaseInv
<1> SUFFICES ASSUME Init PROVE BaseInv
  OBVIOUS
<1>1. TypeInv
  BY TypeInit
<1>2. Exchange
  BY DEF Init, Exchange, Fresh, Active, Faithful, Bound, Answers, UsedUp, Following, NoJob
<1> QED
  BY <1>1, <1>2 DEF BaseInv

(* A step of process p that neither starts, ends, sends nor waits: it      *)
(* changes nothing the daemon sees.                                        *)
Local(p) ==
  /\ UNCHANGED <<rid, daemon>>
  /\ \A q \in Procs \ {p} : pc'[q] = pc[q] /\ job'[q] = job[q]
  /\ Active(p) /\ pc'[p] \notin {"idle", "waiting"}
  /\ pc'[p] \in {"ready", "bump", "send"} => pc[p] \in {"ready", "bump", "send"}
  /\ pc'[p] = "follow" => job'[p].cmd = "release" /\ job'[p].next # 0
  /\ job'[p].rid = job[p].rid /\ job'[p].cmd = job[p].cmd /\ job'[p].ctx = job[p].ctx

(* A send: the request is about the order of the command, asks for the     *)
(* context's index or for the promised one, and changes no table.          *)
Sending(p) ==
  \E k, i \in Nat :
    /\ Send(p, k, i)
    /\ pc[p] \in {"ready", "send"}
    /\ job[p].cmd \in TradeCmds => k = i /\ i = job[p].ctx
    /\ job[p].cmd \in OrderCmds => i = job[p].next

(* What a reply does to the process that receives it. *)
LEMMA ReceiveShape ==
  ASSUME TypeInv, NEW p \in Procs, NEW m \in msgs, Receive(p, m)
  PROVE  /\ Local(p) /\ pc[p] = "waiting" /\ job'[p].next = job[p].next
         /\ pc'[p] \in {"saveUser", "saveStatus", "follow", "ok", "warned", "error"}
<1>0. job \in [Procs -> Job] /\ pc \in [Procs -> PCs]
  BY DEF TypeInv, TypeOK
<1> USE <1>0 DEF Reaches, Got, Goto, Active, Job, Local
<1>1. CASE Reject(p, m)
  BY <1>1 DEF Reject
<1>2. CASE ReceiveOrder(p, m)
  BY <1>2 DEF ReceiveOrder, SaveOrder, After
<1>3. CASE ReceiveStatus(p, m)
  BY <1>3 DEF ReceiveStatus
<1>4. CASE ReceiveCanceled(p, m)
  BY <1>4 DEF ReceiveCanceled, After
<1>5. CASE ReceiveNotice(p, m)
  BY <1>5 DEF ReceiveNotice, After
<1>6. CASE ReceiveIndex(p, m)
  BY <1>6 DEF ReceiveIndex
<1> QED
  BY <1>1, <1>2, <1>3, <1>4, <1>5, <1>6 DEF Receive

(* Every step of a command process starts it, sends its request, is local, *)
(* or ends it.                                                             *)
LEMMA CliShape ==
  ASSUME TypeInv, NEW p \in Procs, Cli(p)
  PROVE  \/ \E c \in Cmds, o \in Orders \cup {NoOrder} : Start(p, c, o)
         \/ Sending(p)
         \/ Local(p)
         \/ Exit(p)
<1>0. /\ job \in [Procs -> Job] /\ pc \in [Procs -> PCs]
      /\ rows \in [Orders -> Row \cup {NoRow}]
  BY DEF TypeInv, TypeOK
<1>1. CASE SendNewOrder(p) \/ SendTake(p)
  <2>1. job[p].ctx \in Nat
    BY <1>0 DEF Job, TradeKey
  <2> QED
    BY <1>1, <2>1 DEF SendNewOrder, SendTake, Sending, OrderCmds, MsgCmds, NextTradeCmds
<1>2. CASE SendSync(p) \/ SendRestore(p) \/ SendOrdersInfo(p)
  BY <1>2 DEF SendSync, SendRestore, SendOrdersInfo, Sending, OrderCmds, MsgCmds,
     NextTradeCmds, TradeCmds
<1>3. CASE SendOrderMsg(p) \/ SendInvoice(p) \/ SendBondInvoice(p) \/ SendRating(p)
  <2>1. SendAsTrader(p) /\ pc[p] \in {"ready", "send"} /\ job[p].cmd \in OrderCmds
    BY <1>3 DEF SendOrderMsg, SendInvoice, SendBondInvoice, SendRating, OrderCmds,
       TypeInv, Targets
  <2>2. job[p].order \in Orders /\ job[p].cmd \notin TradeCmds
    BY <2>1 DEF TypeInv, Targets, OrderCmds, MsgCmds, NextTradeCmds, TradeCmds
  <2>3. CASE rows[job[p].order] = NoRow
    BY <1>0, <2>1, <2>3 DEF SendAsTrader, Goto, Active, Local, daemon
  <2>4. CASE rows[job[p].order] # NoRow
    <3>1. rows[job[p].order].key \in Nat /\ job[p].next \in Nat
      BY <1>0, <2>2, <2>4 DEF Row, TradeKey, Job
    <3>2. Send(p, rows[job[p].order].key, job[p].next)
      BY <2>1, <2>4 DEF SendAsTrader
    <3> QED
      BY <2>1, <2>2, <3>1, <3>2 DEF Sending
  <2> QED
    BY <2>3, <2>4
<1>4. CASE Prepare(p) \/ BumpIndex(p)
  BY <1>0, <1>4 DEF Prepare, BumpIndex, Goto, Active, Job, Local
<1>5. ASSUME NEW m \in msgs, Receive(p, m) PROVE Local(p)
  BY <1>5, ReceiveShape
<1>6. CASE SaveUser(p) \/ SaveStatus(p)
  BY <1>0, <1>6 DEF SaveUser, SaveStatus, After, Goto, Active, Job, Local
<1>7. CASE FollowUp(p)
  BY <1>0, <1>7 DEF FollowUp, Goto, Active, Job, Local
<1> QED
  BY <1>1, <1>2, <1>3, <1>4, <1>5, <1>6, <1>7 DEF Cli

LEMMA BaseStart ==
  ASSUME BaseInv, NEW p \in Procs, NEW c \in Cmds, NEW o \in Orders \cup {NoOrder},
         Start(p, c, o)
  PROVE  Exchange'
<1> DEFINE j == NewJob(c, o)
<1>1. /\ job' = [job EXCEPT ![p] = j] /\ rid' = rid + 1
      /\ pc' = [pc EXCEPT ![p] = "ready"]
      /\ UNCHANGED <<last, rows, daemon>>
  BY DEF Start, Goto
<1>2. j.rid = rid + 1 /\ j.next = 0
  BY DEF NewJob
<1> HIDE DEF j
<1>3. job \in [Procs -> Job] /\ pc \in [Procs -> PCs] /\ rid \in Nat /\ msgs \subseteq Message
      /\ reqs \subseteq Request
  BY DEF BaseInv, TypeInv, TypeOK
<1>4. \A q \in Procs : q # p => job'[q] = job[q] /\ pc'[q] = pc[q]
  BY <1>1, <1>3
<1>5. job'[p] = j /\ pc'[p] = "ready"
  BY <1>1, <1>3
<1>6. Fresh'
  BY <1>1, <1>2, <1>3, <1>4, <1>5
     DEF BaseInv, Exchange, Fresh, Active, daemon, Message, Request, Job
<1>7. Faithful' /\ Bound' /\ Answers' /\ UsedUp' /\ Following'
  BY <1>1, <1>4, <1>5
     DEF BaseInv, Exchange, Faithful, Bound, Answers, UsedUp, Past, Following, daemon
<1> QED
  BY <1>6, <1>7 DEF Exchange

LEMMA BaseSend ==
  ASSUME BaseInv, NEW p \in Procs, Sending(p)
  PROVE  Exchange'
<1>0. PICK k \in Nat, i \in Nat :
        /\ Send(p, k, i)
        /\ pc[p] \in {"ready", "send"}
        /\ job[p].cmd \in TradeCmds => k = i /\ i = job[p].ctx
        /\ job[p].cmd \in OrderCmds => i = job[p].next
  BY DEF Sending
<1> DEFINE r == [cmd |-> job[p].cmd, order |-> job[p].order, idx |-> i, key |-> k,
                 rid |-> job[p].rid]
<1>1. /\ reqs' = reqs \cup {r}
      /\ job' = [job EXCEPT ![p].key = k] /\ pc' = [pc EXCEPT ![p] = "waiting"]
      /\ UNCHANGED <<last, rows, rid, msgs, seen, dkey>>
  BY <1>0 DEF Send, Goto
<1>2. r.cmd = job[p].cmd /\ r.idx = i /\ r.key = k /\ r.rid = job[p].rid
  OBVIOUS
<1> HIDE DEF r
<1>3. job \in [Procs -> Job] /\ pc \in [Procs -> PCs]
  BY DEF BaseInv, TypeInv, TypeOK
<1>4. \A q \in Procs : q # p => job'[q] = job[q] /\ pc'[q] = pc[q]
  BY <1>1, <1>3
<1>5. /\ pc'[p] = "waiting" /\ job'[p].cmd = job[p].cmd /\ job'[p].rid = job[p].rid
      /\ job'[p].ctx = job[p].ctx /\ job'[p].next = job[p].next /\ job'[p].key = k
  BY <1>1, <1>3 DEF Job
<1>6. \A m \in msgs : m.req # job[p].rid
  BY <1>0 DEF BaseInv, Exchange, Fresh, Active, NoId
<1>7. \A q \in Procs : q # p /\ Active(q) => job[q].rid # job[p].rid
  BY <1>0 DEF BaseInv, Exchange, Fresh, Active
<1>8. Fresh'
  BY <1>0, <1>1, <1>2, <1>3, <1>4, <1>5, <1>7 DEF BaseInv, Exchange, Fresh, Active
<1>9. Faithful'
  <2>1. \A q \in Procs : pc'[q] = "waiting" /\ r.rid = job'[q].rid => q = p
    BY <1>2, <1>4, <1>7 DEF Active
  <2>2. \A s \in reqs : s.rid # job[p].rid
    BY <1>0 DEF BaseInv, Exchange, Fresh
  <2> QED
    BY <1>0, <1>1, <1>2, <1>4, <1>5, <2>1, <2>2 DEF BaseInv, Exchange, Faithful
<1>10. Bound' /\ Answers' /\ UsedUp' /\ Following'
  BY <1>1, <1>4, <1>5, <1>6
     DEF BaseInv, Exchange, Bound, Answers, UsedUp, Past, Following
<1> QED
  BY <1>8, <1>9, <1>10 DEF Exchange

LEMMA BaseCli ==
  ASSUME BaseInv, NEW p \in Procs, Cli(p)
  PROVE  Exchange'
<1>0. job \in [Procs -> Job] /\ pc \in [Procs -> PCs]
  BY DEF BaseInv, TypeInv, TypeOK
<1>1. CASE Local(p)
  <2>1. Fresh'
    BY <1>1 DEF Local, BaseInv, Exchange, Fresh, Active, daemon
  <2>2. Faithful' /\ Bound' /\ Answers' /\ UsedUp' /\ Following'
    BY <1>1 DEF Local, BaseInv, Exchange, Faithful, Bound, Answers, UsedUp, Past, Following,
       daemon
  <2> QED
    BY <2>1, <2>2 DEF Exchange
<1>2. CASE Exit(p)
  <2>1. /\ UNCHANGED <<rid, reqs, seen, dkey>> /\ msgs' \subseteq msgs
        /\ pc'[p] = "idle"
        /\ \A q \in Procs \ {p} : pc'[q] = pc[q] /\ job'[q] = job[q]
    BY <1>0, <1>2 DEF Exit, Goto
  <2>2. Fresh' /\ Faithful'
    BY <2>1 DEF BaseInv, Exchange, Fresh, Active, Faithful
  <2>3. Bound' /\ Answers' /\ UsedUp' /\ Following'
    BY <2>1 DEF BaseInv, Exchange, Bound, Answers, UsedUp, Past, Following
  <2> QED
    BY <2>2, <2>3 DEF Exchange
<1> QED
  BY <1>1, <1>2, BaseStart, BaseSend, CliShape DEF BaseInv

(* The daemon writes no table of the user's and binds one order at a time, *)
(* to a key above every index it has accepted.                             *)
LEMMA OneBinding ==
  ASSUME TypeInv, Daemon
  PROVE  /\ UNCHANGED <<last, rows, pc, job>>
         /\ seen' \in Nat /\ seen <= seen'
         /\ \/ UNCHANGED dkey
            \/ \E o \in Orders : /\ dkey[o] = 0
                                /\ dkey' = [dkey EXCEPT ![o] = seen']
                                /\ seen' > seen
<1>0. dkey \in [Orders -> Nat] /\ seen \in Nat /\ reqs \subseteq Request
  BY DEF TypeInv, TypeOK
<1> DEFINE Step == \/ UNCHANGED <<seen, dkey>>
                   \/ \E i \in Nat : i > seen /\ seen' = i /\ UNCHANGED dkey
                   \/ \E i \in Nat, o \in Orders : i > seen /\ dkey[o] = 0 /\ Bind(o, i)
<1>1. UNCHANGED <<last, rows, pc, job>>
  BY DEF Daemon, DaemonTrade, DaemonOrder, DaemonBond, DaemonAccount, DaemonPush, Refuse, Handled
<1>2. ASSUME NEW r \in reqs, DaemonTrade(r) PROVE Step
  <2>1. r.idx \in Nat /\ (r.cmd = "take" => r.order \in Orders)
    BY <1>0 DEF Request, TypeInv, Targets
  <2> QED
    BY <1>2, <2>1 DEF DaemonTrade, FreshIndex, Orders, Direct
<1>3. ASSUME NEW r \in reqs, DaemonOrder(r) PROVE Step
  <2>1. r.idx \in Nat
    BY <1>0 DEF Request
  <2> QED
    BY <1>3, <2>1 DEF DaemonOrder, FreshIndex, Orders
<1>4. Step
  BY <1>2, <1>3 DEF Daemon, DaemonBond, DaemonAccount, DaemonPush
<1> QED
  BY <1>0, <1>1, <1>4 DEF Bind

(* What is bound stays bound, what is past stays past. *)
LEMMA BindingKept ==
  ASSUME BaseInv, Daemon
  PROVE  /\ Bound'
         /\ \A o \in Orders : dkey[o] # 0 => dkey'[o] = dkey[o]
         /\ \A k \in Nat : Past(k) => Past(k)'
<1>0. /\ dkey \in [Orders -> Nat] /\ seen \in Nat /\ Direct \subseteq Orders
      /\ \A o \in Orders : dkey[o] <= seen
  BY DEF BaseInv, TypeInv, TypeOK, Exchange, Bound, Orders
<1>1. /\ seen' \in Nat /\ seen <= seen'
      /\ \A o \in Orders : \/ dkey'[o] = dkey[o]
                           \/ dkey[o] = 0 /\ dkey'[o] = seen' /\ seen' > seen
  BY <1>0, OneBinding DEF BaseInv
<1>2. Bound'
  BY <1>0, <1>1 DEF Bound
<1>3. ASSUME NEW k \in Nat, Past(k) PROVE Past(k)'
  BY <1>0, <1>1, <1>3 DEF Past
<1> QED
  BY <1>1, <1>2, <1>3

(* The daemon has handled a request: what it sent carries the request's    *)
(* id, gives orders their keys, and does not accept an index twice.        *)
LEMMA BaseHandled ==
  ASSUME BaseInv, Daemon, NEW r \in reqs, NEW out \in SUBSET Message, Handled(r, out),
         \A m \in out : m.cause = r.rid /\ m.req \in {NoId, r.rid},
         \A m \in out : m.act \in OrderReplies =>
           /\ m.to = dkey'[m.order] /\ m.to # 0
           /\ \/ m.req = NoId
              \/ r.cmd \in TradeCmds /\ m.to = r.idx
              \/ m.order \in ChildOrders /\ m.to # r.key,
         \A m \in out : m.act # "CantDo" /\ r.cmd = "release" /\ r.idx # 0 =>
           r.idx <= seen' /\ r.idx > seen /\ \A o \in Direct : dkey'[o] = dkey[o]
  PROVE  Exchange'
<1>0. /\ r \in Request /\ seen \in Nat /\ dkey \in [Orders -> Nat]
      /\ job \in [Procs -> Job] /\ rid \in Nat /\ NoId \in Nat
  BY DEF BaseInv, TypeInv, TypeOK, NoId
<1>1. reqs' = reqs \ {r} /\ msgs' \subseteq msgs \cup out /\ UNCHANGED <<last, rows, pc, job, rid>>
  BY DEF Handled
<1>2. /\ \A p \in Procs : Active(p) => job[p].rid # NoId
      /\ r.rid <= rid
      /\ \A p \in Procs : pc[p] \in {"ready", "bump", "send"} => r.rid # job[p].rid
  BY DEF BaseInv, Exchange, Fresh, NoId
<1>3. Fresh'
  BY <1>1, <1>2 DEF BaseInv, Exchange, Fresh, Active
<1>4. Faithful' /\ Following'
  BY <1>1 DEF BaseInv, Exchange, Faithful, Following
<1>5. Bound' /\ (\A o \in Orders : dkey[o] # 0 => dkey'[o] = dkey[o])
      /\ (\A k \in Nat : Past(k) => Past(k)')
  BY BindingKept
<1>6. \A p \in Procs, m \in out : pc[p] = "waiting" /\ m.req = job[p].rid =>
        /\ m.req # NoId
        /\ r.cmd = job[p].cmd /\ r.key = job[p].key
        /\ r.cmd \in TradeCmds => r.idx = job[p].ctx
        /\ r.cmd = "release" => r.idx = job[p].next
  BY <1>2 DEF BaseInv, Exchange, Faithful, Active, OrderCmds, MsgCmds, NextTradeCmds
<1>7. Answers'
  <2>1. \A m \in msgs : m.act \in OrderReplies =>
          m.order \in Orders /\ dkey[m.order] # 0 /\ dkey'[m.order] = dkey[m.order]
    BY <1>5 DEF BaseInv, TypeInv, Targets, Exchange, Answers, OrderReplies, Nameless
  <2> QED
    BY <1>1, <1>6, <2>1 DEF BaseInv, Exchange, Answers
<1>8. UsedUp'
  <2> SUFFICES ASSUME NEW p \in Procs, NEW m \in msgs',
                      pc[p] = "waiting", job[p].cmd = "release", job[p].next # 0,
                      m.req = job[p].rid, m.act # "CantDo"
               PROVE  Past(job[p].next)'
    BY <1>1 DEF UsedUp
  <2>0. job[p].next \in Nat
    BY <1>0 DEF Job
  <2>1. CASE m \in msgs
    <3>1. Past(job[p].next)
      BY <2>1 DEF BaseInv, Exchange, UsedUp
    <3> QED
      BY <1>1, <1>5, <2>0, <3>1 DEF Past
  <2>2. CASE m \in out
    <3>1. r.cmd = "release" /\ r.idx = job[p].next
      BY <1>6, <2>2
    <3>2. r.idx <= seen' /\ r.idx > seen /\ \A o \in Direct : dkey'[o] = dkey[o]
      BY <2>2, <3>1
    <3>3. \A o \in Direct : dkey[o] <= seen /\ dkey[o] \in Nat
      BY <1>0 DEF BaseInv, Exchange, Bound, Direct, Orders
    <3> QED
      BY <1>0, <1>1, <2>0, <3>1, <3>2, <3>3 DEF Past
  <2> QED
    BY <1>1, <2>1, <2>2
<1> QED
  BY <1>3, <1>4, <1>5, <1>7, <1>8 DEF Exchange

LEMMA BaseRefuse ==
  ASSUME BaseInv, Daemon, NEW r \in reqs, Refuse(r)
  PROVE  Exchange'
<1> DEFINE no == Reply(r, "CantDo", r.order, 0)
<1>1. /\ no \in Message /\ no.act = "CantDo" /\ no.cause = r.rid /\ no.req \in {NoId, r.rid}
      /\ Handled(r, {no})
  BY DEF Refuse, Reply, ReqId, NoId, Message, Request, Acts, BaseInv, TypeInv, TypeOK
<1> HIDE DEF no
<1> QED
  BY <1>1, BaseHandled DEF OrderReplies

LEMMA BaseTrade ==
  ASSUME BaseInv, NEW r \in reqs, DaemonTrade(r)
  PROVE  Exchange'
<1>0. /\ r \in Request /\ r.cmd \in TradeCmds /\ r.key = r.idx
      /\ seen \in Nat /\ dkey \in [Orders -> Nat]
      /\ r.cmd = "take" => r.order \in Orders
      /\ Daemon
  BY DEF DaemonTrade, BaseInv, TypeInv, TypeOK, Targets, Exchange, Faithful, Daemon
<1>1. ASSUME NEW o \in Orders, NEW act \in TakeReplies \cup {"NewOrder"},
             FreshIndex(r.idx), Bind(o, r.idx), Handled(r, {Reply(r, act, o, 0)})
      PROVE  Exchange'
  <2> DEFINE yes == Reply(r, act, o, 0)
  <2>1. /\ yes \in Message /\ yes.req = r.rid /\ yes.cause = r.rid
        /\ yes.order = o /\ yes.to = r.idx /\ Handled(r, {yes})
    BY <1>0, <1>1, RepliesAssumption
       DEF Reply, ReqId, Anonymous, TradeCmds, Message, Request, Acts, OrderReplies,
           StatusReplies
  <2> HIDE DEF yes
  <2>2. dkey'[o] = r.idx /\ r.idx # 0 /\ r.cmd # "release"
    BY <1>0, <1>1 DEF Bind, FreshIndex, Request, TradeCmds
  <2> QED
    BY <1>0, <2>1, <2>2, BaseHandled
<1> QED
  BY <1>0, <1>1, BaseRefuse DEF DaemonTrade, Orders, Direct

LEMMA BaseOrder ==
  ASSUME BaseInv, NEW r \in reqs, DaemonOrder(r)
  PROVE  Exchange'
<1>0. /\ r \in Request /\ r.cmd \in OrderCmds /\ r.order \in Orders
      /\ seen \in Nat /\ dkey \in [Orders -> Nat]
      /\ \A o \in Orders : dkey[o] <= seen
      /\ Daemon
  BY DEF DaemonOrder, BaseInv, TypeInv, TypeOK, Targets, Exchange, Bound, Daemon
<1> DEFINE answer == Reply(r, DaemonAnswer(r.cmd), r.order, 0)
<1>1. /\ answer \in Message /\ answer.cause = r.rid /\ answer.req \in {NoId, r.rid}
      /\ answer.act \notin OrderReplies
  BY <1>0 DEF DaemonOrder, Reply, ReqId, NoId, DaemonAnswer, Message, Request, Acts,
     OrderReplies, StatusReplies, Notices, OrderCmds, MsgCmds, NextTradeCmds
<1>2. \/ r.idx = 0 /\ Handled(r, {answer}) /\ UNCHANGED <<seen, dkey>>
      \/ FreshIndex(r.idx) /\ Handled(r, {answer}) /\ seen' = r.idx /\ UNCHANGED dkey
      \/ \E c \in ChildOrders, id \in {NoId, r.rid} :
           /\ dkey[r.order] = r.key
           /\ FreshIndex(r.idx)
           /\ Bind(c, r.idx)
           /\ Handled(r, {answer, [act |-> "NewOrder", order |-> c, to |-> r.idx,
                                   req |-> id, cause |-> r.rid, idx |-> 0]})
      \/ Refuse(r) /\ UNCHANGED <<seen, dkey>>
  BY DEF DaemonOrder
<1> HIDE DEF answer
<1>3. CASE r.idx = 0 /\ Handled(r, {answer})
  BY <1>0, <1>1, <1>3, BaseHandled
<1>4. CASE FreshIndex(r.idx) /\ Handled(r, {answer}) /\ seen' = r.idx /\ UNCHANGED dkey
  <2>1. r.idx \in Nat /\ r.idx > seen
    BY <1>0, <1>4 DEF FreshIndex, Request
  <2> QED
    BY <1>0, <1>1, <1>4, <2>1, BaseHandled
<1>5. ASSUME NEW c \in ChildOrders, NEW id \in {NoId, r.rid},
             dkey[r.order] = r.key, FreshIndex(r.idx), Bind(c, r.idx),
             Handled(r, {answer, [act |-> "NewOrder", order |-> c, to |-> r.idx,
                                  req |-> id, cause |-> r.rid, idx |-> 0]})
      PROVE  Exchange'
  <2> DEFINE child == [act |-> "NewOrder", order |-> c, to |-> r.idx,
                       req |-> id, cause |-> r.rid, idx |-> 0]
  <2>1. /\ child \in Message /\ child.req = id /\ child.order = c /\ child.to = r.idx
        /\ child.cause = r.rid /\ Handled(r, {answer, child})
    BY <1>0, <1>5 DEF Message, Request, Acts, OrderReplies, Orders, NoId
  <2> HIDE DEF child
  <2>2. c \in Orders /\ c \notin Direct
    BY OrdersAssumption DEF Direct, Orders
  <2>3. r.idx \in Nat /\ r.idx > seen /\ seen' = r.idx /\ dkey' = [dkey EXCEPT ![c] = r.idx]
    BY <1>0, <1>5 DEF FreshIndex, Bind, Request
  <2>4. dkey'[c] = r.idx /\ r.idx # 0 /\ r.idx # r.key
    BY <1>0, <1>5, <2>2, <2>3
  <2>5. \A o \in Direct : dkey'[o] = dkey[o]
    BY <1>0, <2>2, <2>3 DEF Direct, Orders
  <2> QED
    BY <1>0, <1>1, <2>1, <2>3, <2>4, <2>5, BaseHandled
<1> QED
  BY <1>0, <1>2, <1>3, <1>4, <1>5, BaseRefuse

LEMMA BaseAccount ==
  ASSUME BaseInv, NEW r \in reqs, DaemonBond(r) \/ DaemonAccount(r)
  PROVE  Exchange'
<1>0. /\ r.cmd # "release" /\ r \in Request /\ seen \in Nat
      /\ Daemon
  BY DEF DaemonBond, DaemonAccount, AccountCmds, Daemon, BaseInv, TypeInv, TypeOK
<1>1. CASE Handled(r, {})
  BY <1>0, <1>1, BaseHandled
<1>2. ASSUME NEW act \in {"LastTradeIndex", "RestoreSession", "Orders"}, NEW i \in Nat,
             Handled(r, {Reply(r, act, NoOrder, i)})
      PROVE  Exchange'
  <2> DEFINE answer == Reply(r, act, NoOrder, i)
  <2>1. /\ answer \in Message /\ answer.cause = r.rid /\ answer.req \in {NoId, r.rid}
        /\ answer.act \notin OrderReplies /\ Handled(r, {answer})
    BY <1>0, <1>2 DEF Reply, ReqId, NoId, Message, Request, Acts, Notices, OrderReplies
  <2> HIDE DEF answer
  <2> QED
    BY <1>0, <2>1, BaseHandled
<1> QED
  BY <1>0, <1>1, <1>2, BaseRefuse DEF DaemonBond, DaemonAccount

(* A push carries no id and gives no order. *)
LEMMA BasePush ==
  ASSUME BaseInv, NEW o \in Orders, NEW act \in Pushes, DaemonPush(o, act)
  PROVE  Exchange'
<1> DEFINE push == [act |-> act, order |-> o, to |-> dkey[o], req |-> NoId,
                    cause |-> NoId, idx |-> 0]
<1>1. /\ push.req = NoId /\ push.cause = NoId /\ push.act \notin OrderReplies
      /\ msgs' = msgs \cup {push} /\ UNCHANGED <<last, rows, pc, job, rid, reqs, seen, dkey>>
  BY RepliesAssumption DEF DaemonPush, OrderReplies
<1> HIDE DEF push
<1>2. /\ \A p \in Procs : Active(p) => job[p].rid # NoId
      /\ NoId <= rid
  BY DEF BaseInv, TypeInv, TypeOK, Exchange, Fresh, NoId
<1>3. Fresh' /\ Faithful' /\ Following'
  BY <1>1, <1>2 DEF BaseInv, Exchange, Fresh, Faithful, Following, Active
<1>4. Bound' /\ Answers' /\ UsedUp'
  BY <1>1, <1>2 DEF BaseInv, Exchange, Bound, Answers, UsedUp, Past, Active
<1> QED
  BY <1>3, <1>4 DEF Exchange

LEMMA BaseStep == BaseInv /\ [Next]_vars => BaseInv'
<1> SUFFICES ASSUME BaseInv, [Next]_vars PROVE BaseInv'
  OBVIOUS
<1>1. TypeInv'
  BY TypeStep DEF BaseInv
<1>2. CASE UNCHANGED vars
  BY <1>1, <1>2 DEF vars, BaseInv, Exchange, Fresh, Active, Faithful, Bound, Answers, UsedUp,
     Past, Following
<1>3. CASE Daemon
  BY <1>1, <1>3, BaseTrade, BaseOrder, BaseAccount, BasePush DEF Daemon, BaseInv
<1> QED
  BY <1>1, <1>2, <1>3, BaseCli DEF Next, BaseInv

LEMMA BaseInvariance == Spec => []BaseInv
BY BaseInit, BaseStep, PTL DEF Spec

-----------------------------------------------------------------------------
(* The orders table.                                                       *)

(* A command writes one row at a time. *)
LEMMA OneRow ==
  ASSUME TypeInv, NEW p \in Procs, Cli(p)
  PROVE  /\ UNCHANGED <<seen, dkey>>
         /\ rows' = rows \/ \E o \in Orders : rows' = [rows EXCEPT ![o] = rows'[o]]
<1>0. rows \in [Orders -> Row \cup {NoRow}]
  BY DEF TypeInv, TypeOK
<1>1. UNCHANGED <<seen, dkey>>
  BY CliShape DEF Start, Sending, Send, Local, Exit, daemon
<1> DEFINE One == rows' = rows \/ \E q \in Orders : rows' = [rows EXCEPT ![q] = rows'[q]]
<1>2. ASSUME NEW o, NEW row, rows' = [rows EXCEPT ![o] = row]
      PROVE  One
  <2>1. CASE o \in Orders
    <3>1. rows'[o] = row
      BY <1>0, <1>2, <2>1
    <3> QED
      BY <1>2, <2>1, <3>1
  <2>2. CASE o \notin Orders
    BY <1>0, <1>2, <2>2
  <2> QED
    BY <2>1, <2>2
<1>3. ASSUME SaveStatus(p) PROVE One
  <2> DEFINE row == [key |-> job[p].copy.key, status |-> NewStatus(job[p].got)]
  <2>1. rows' = rows \/ rows' = [rows EXCEPT ![job[p].order] = row]
    BY <1>3 DEF SaveStatus
  <2> HIDE DEF row, One
  <2>2. CASE rows' = rows
    BY <2>2 DEF One
  <2>3. CASE rows' = [rows EXCEPT ![job[p].order] = row]
    BY <1>2, <2>3
  <2> QED
    BY <2>1, <2>2, <2>3
<1>4. ASSUME FollowUp(p) PROVE One
  <2>1. \/ UNCHANGED rows
        \/ \E m \in msgs : rows' = [rows EXCEPT ![m.order] = SavedRow(job[p])]
    BY <1>4 DEF FollowUp
  <2>2. ASSUME NEW m \in msgs, rows' = [rows EXCEPT ![m.order] = SavedRow(job[p])]
        PROVE  One
    BY <1>2, <2>2
  <2> HIDE DEF One
  <2>3. CASE UNCHANGED rows
    BY <2>3 DEF One
  <2> QED
    BY <2>1, <2>2, <2>3
<1>5. ASSUME NEW m \in msgs, ReceiveOrder(p, m) \/ ReceiveCanceled(p, m)
      PROVE  One
  <2>1. \/ UNCHANGED rows
        \/ rows' = [rows EXCEPT ![m.order] = SavedRow(job[p])]
        \/ rows' = [rows EXCEPT ![m.order] = NoRow]
    BY <1>5 DEF ReceiveOrder, SaveOrder, ReceiveCanceled
  <2> QED
    BY <1>2, <2>1
<1>6. \/ UNCHANGED rows \/ SaveStatus(p) \/ FollowUp(p)
      \/ \E m \in msgs : ReceiveOrder(p, m) \/ ReceiveCanceled(p, m)
  BY DEF Cli, Start, SendNewOrder, SendTake, SendSync, SendRestore, SendOrdersInfo, Send,
     Prepare, BumpIndex, SendOrderMsg, SendInvoice, SendBondInvoice, SendRating,
     SendAsTrader, SaveUser, Exit, Receive, Reject, ReceiveStatus, ReceiveNotice, ReceiveIndex
<1> QED
  BY <1>1, <1>3, <1>4, <1>5, <1>6

(* A row that appears or changes its key was written from a reply that     *)
(* gives an order, or is the written-back copy.                            *)
LEMMA RowWritten ==
  ASSUME TypeInv, NEW p \in Procs, Cli(p), NEW o \in Orders, rows'[o] # NoRow,
         rows'[o] # rows[o]
  PROVE  \/ /\ SaveStatus(p) /\ o = job[p].order /\ rows[o] # NoRow
            /\ rows'[o].key = job[p].copy.key
         \/ /\ rows'[o].key = job[p].ctx
            /\ \E m \in msgs :
                 /\ m.act \in OrderReplies /\ m.req # NoId /\ m.order = o
                 /\ \/ ReceiveOrder(p, m) /\ Reaches(p, m) /\ Accepted(job[p], m)
                    \/ FollowUp(p) /\ pc[p] = "follow" /\ m.to = job[p].next
<1>0. rows \in [Orders -> Row \cup {NoRow}]
  BY DEF TypeInv, TypeOK
<1>1. CASE SaveStatus(p)
  BY <1>0, <1>1 DEF SaveStatus
<1>2. CASE FollowUp(p)
  <2>0. pc[p] = "follow"
    BY <1>2 DEF FollowUp
  <2>1. PICK m \in msgs : /\ m.to = job[p].next /\ m.act = "NewOrder" /\ m.req # NoId
                          /\ rows' = [rows EXCEPT ![m.order] = SavedRow(job[p])]
    BY <1>2 DEF FollowUp
  <2>2. m.order = o /\ rows'[o] = SavedRow(job[p])
    BY <1>0, <2>1
  <2> QED
    BY <1>2, <2>0, <2>1, <2>2 DEF SavedRow, OrderReplies
<1>3. ASSUME NEW m \in msgs, ReceiveOrder(p, m)
      PROVE  /\ rows'[o].key = job[p].ctx
             /\ m.act \in OrderReplies /\ m.req # NoId /\ m.order = o
             /\ Reaches(p, m) /\ Accepted(job[p], m)
  <2>1. m.req # NoId /\ rows' = [rows EXCEPT ![m.order] = SavedRow(job[p])]
    BY <1>3 DEF ReceiveOrder, SaveOrder
  <2>2. m.order = o /\ rows'[o] = SavedRow(job[p])
    BY <1>0, <2>1
  <2> QED
    BY <1>3, <2>1, <2>2 DEF ReceiveOrder, SavedRow
<1>4. ~\E m \in msgs : ReceiveCanceled(p, m)
  BY <1>0 DEF ReceiveCanceled
<1>5. SaveStatus(p) \/ FollowUp(p) \/ \E m \in msgs : ReceiveOrder(p, m)
  BY <1>4 DEF Cli, Start, SendNewOrder, SendTake, SendSync, SendRestore, SendOrdersInfo, Send,
     Prepare, BumpIndex, SendOrderMsg, SendInvoice, SendBondInvoice, SendRating,
     SendAsTrader, SaveUser, Exit, Receive, Reject, ReceiveStatus, ReceiveNotice, ReceiveIndex
<1> QED
  BY <1>1, <1>2, <1>3, <1>5

(* The keys kept with the orders of S are the ones the daemon bound them   *)
(* to, also in the copies about to be written back ...                     *)
Kept(S) == \A o \in S : Saved(o) => rows[o].key = dkey[o]
Copied(S) ==
  \A p \in Procs : pc[p] = "saveStatus" /\ job[p].order \in S =>
    job[p].copy.key = dkey[job[p].order]

(* ... and stay so while whatever is saved of S is saved by a process      *)
(* whose context holds the key the order is bound to.                      *)
OwnKey(S) ==
  \A p \in Procs, m \in msgs :
    /\ m.act \in OrderReplies /\ m.req # NoId /\ m.order \in S
    /\ \/ Reaches(p, m) /\ Accepted(job[p], m)
       \/ pc[p] = "follow" /\ m.to = job[p].next
    => job[p].ctx = dkey[m.order]

LEMMA KeptStep ==
  ASSUME BaseInv, NEW S \in SUBSET Orders, Kept(S), Copied(S), OwnKey(S), [Next]_vars
  PROVE  Kept(S)' /\ Copied(S)'
<1>0. /\ rows \in [Orders -> Row \cup {NoRow}] /\ job \in [Procs -> Job]
      /\ pc \in [Procs -> PCs]
  BY DEF BaseInv, TypeInv, TypeOK
<1>1. CASE UNCHANGED vars
  BY <1>1 DEF vars, Kept, Copied, Saved
<1>2. ASSUME NEW p \in Procs, Cli(p) PROVE Kept(S)' /\ Copied(S)'
  <2>0. UNCHANGED dkey
    BY <1>2, OneRow DEF BaseInv
  <2>1. ASSUME NEW o \in S, rows'[o] # NoRow PROVE rows'[o].key = dkey[o]
    <3>1. CASE rows'[o] = rows[o]
      BY <2>1, <3>1 DEF Kept, Saved
    <3>2. CASE rows'[o] # rows[o]
      <4>1. CASE SaveStatus(p) /\ o = job[p].order /\ rows'[o].key = job[p].copy.key
        BY <2>1, <4>1 DEF SaveStatus, Copied
      <4>2. ASSUME NEW m \in msgs, rows'[o].key = job[p].ctx,
                   m.act \in OrderReplies, m.req # NoId, m.order = o,
                   \/ Reaches(p, m) /\ Accepted(job[p], m)
                   \/ pc[p] = "follow" /\ m.to = job[p].next
            PROVE  rows'[o].key = dkey[o]
        BY <2>1, <4>2 DEF OwnKey
      <4> QED
        BY <1>2, <2>1, <3>2, <4>1, <4>2, RowWritten DEF BaseInv
    <3> QED
      BY <3>1, <3>2
  <2>2. ASSUME NEW q \in Procs, pc'[q] = "saveStatus", job'[q].order \in S
        PROVE  job'[q].copy.key = dkey[job'[q].order]
    <3>1. CASE pc'[q] = pc[q] /\ job'[q] = job[q]
      BY <2>2, <3>1 DEF Copied
    <3>2. CASE q = p /\ \E m \in msgs : ReceiveStatus(p, m)
      BY <1>0, <2>2, <3>2 DEF ReceiveStatus, Got, Goto, Job, Kept, Saved
    <3>3. CASE q # p
      <4>1. pc'[q] = pc[q] /\ job'[q] = job[q]
        BY <1>0, <1>2, <3>3, CliShape DEF BaseInv, Start, Goto, Sending, Send, Local, Exit
      <4> QED
        BY <3>1, <4>1
    <3>4. CASE q = p /\ ~\E m \in msgs : ReceiveStatus(p, m)
      <4>1. pc'[p] # "saveStatus"
        BY <1>0, <1>2, <3>4 DEF Cli, Start, SendNewOrder, SendTake, SendSync, SendRestore,
           SendOrdersInfo, Send, Prepare, BumpIndex, SendOrderMsg, SendInvoice,
           SendBondInvoice, SendRating, SendAsTrader, SaveUser, SaveStatus, FollowUp, Exit,
           Receive, Reject, ReceiveOrder, SaveOrder, ReceiveCanceled, ReceiveNotice,
           ReceiveIndex, Goto, After
      <4> QED
        BY <2>2, <3>4, <4>1
    <3> QED
      BY <3>2, <3>3, <3>4
  <2> QED
    BY <2>0, <2>1, <2>2 DEF Kept, Copied, Saved
<1>3. CASE Daemon
  <2>1. /\ UNCHANGED <<rows, pc, job>>
        /\ \A o \in S : dkey[o] # 0 => dkey'[o] = dkey[o]
    BY <1>3, OneBinding, BindingKept DEF BaseInv
  <2>2. \A o \in S : rows[o] # NoRow => rows[o].key # 0
    BY <1>0 DEF Row, TradeKey
  <2>3. \A q \in Procs : pc[q] = "saveStatus" => job[q].copy.key # 0
    BY DEF BaseInv, TypeInv, Targets, Row, TradeKey
  <2> QED
    BY <2>1, <2>2, <2>3 DEF Kept, Copied, Saved
<1> QED
  BY <1>1, <1>2, <1>3 DEF Next

(* Keys the daemon has bound differ. *)
Distinct == \A o1, o2 \in Orders : dkey[o1] = dkey[o2] /\ dkey[o1] # 0 => o1 = o2

LEMMA BoundKeysDiffer == Spec => []Distinct
<1>1. Init => Distinct
  BY DEF Init, Distinct
<1>2. BaseInv /\ Distinct /\ [Next]_vars => Distinct'
  <2> SUFFICES ASSUME BaseInv, Distinct, [Next]_vars PROVE Distinct'
    OBVIOUS
  <2>0. /\ dkey \in [Orders -> Nat] /\ seen \in Nat
        /\ \A o \in Orders : dkey[o] <= seen
    BY DEF BaseInv, TypeInv, TypeOK, Exchange, Bound
  <2>1. CASE UNCHANGED dkey
    BY <2>1 DEF Distinct
  <2>2. ASSUME NEW o \in Orders, dkey' = [dkey EXCEPT ![o] = seen'], seen' > seen
        PROVE  Distinct'
    BY <2>0, <2>2 DEF Distinct
  <2>3. ASSUME NEW p \in Procs, Cli(p) PROVE UNCHANGED dkey
    BY <2>3, OneRow DEF BaseInv
  <2> QED
    BY <2>1, <2>2, <2>3, OneBinding DEF Next, vars, BaseInv
<1> QED
  BY <1>1, <1>2, BaseInvariance, PTL DEF Spec

(* What the ledger sees of the orders of S. *)
Keys(S) == [o \in S |-> dkey[o]]
Table(S) == [o \in S |-> KeptKey(o)]

LEMMA TableStep ==
  ASSUME BaseInv, BaseInv', NEW S \in SUBSET Orders, Kept(S)', [Next]_vars
  PROVE  \/ UNCHANGED <<Keys(S), Table(S)>>
         \/ \E o \in S : /\ Keys(S)[o] = 0
                         /\ \A q \in S : Keys(S)[q] < Keys(S)'[o]
                         /\ Keys(S)' = [Keys(S) EXCEPT ![o] = Keys(S)'[o]]
                         /\ UNCHANGED Table(S)
         \/ \E o \in S : /\ Keys(S)[o] # 0
                         /\ Table(S)' = [Table(S) EXCEPT ![o] = Keys(S)[o]]
                         /\ UNCHANGED Keys(S)
         \/ \E o \in S : /\ Table(S)' = [Table(S) EXCEPT ![o] = 0]
                         /\ UNCHANGED Keys(S)
<1>0. /\ dkey \in [Orders -> Nat] /\ rows \in [Orders -> Row \cup {NoRow}]
      /\ rows' \in [Orders -> Row \cup {NoRow}] /\ seen \in Nat
      /\ \A o \in Orders : dkey[o] <= seen
  BY DEF BaseInv, TypeInv, TypeOK, Exchange, Bound
<1>1. (UNCHANGED dkey => UNCHANGED Keys(S)) /\ (UNCHANGED rows => UNCHANGED Table(S))
  BY DEF KeptKey, Saved, Keys, Table
<1>2. CASE UNCHANGED vars
  BY <1>1, <1>2 DEF vars
<1>3. ASSUME NEW p \in Procs, Cli(p), rows' # rows
      PROVE  \/ UNCHANGED <<Keys(S), Table(S)>>
             \/ \E o \in S : /\ Keys(S)[o] # 0
                             /\ Table(S)' = [Table(S) EXCEPT ![o] = Keys(S)[o]]
                             /\ UNCHANGED Keys(S)
             \/ \E o \in S : /\ Table(S)' = [Table(S) EXCEPT ![o] = 0]
                             /\ UNCHANGED Keys(S)
  <2>1. UNCHANGED dkey /\ UNCHANGED Keys(S)
    BY <1>1, <1>3, OneRow DEF BaseInv
  <2>2. PICK o \in Orders : rows' = [rows EXCEPT ![o] = rows'[o]]
    BY <1>3, OneRow DEF BaseInv
  <2>3. CASE o \notin S
    <3>1. UNCHANGED Table(S)
      BY <1>0, <2>2, <2>3 DEF KeptKey, Saved, Table
    <3> QED
      BY <2>1, <3>1
  <2>4. CASE o \in S
    <3>1. Table(S)' = [Table(S) EXCEPT ![o] = KeptKey(o)']
      BY <1>0, <2>2, <2>4 DEF KeptKey, Saved, Table
    <3>2. CASE rows'[o] = NoRow
      <4>1. KeptKey(o)' = 0
        BY <3>2 DEF KeptKey, Saved
      <4> QED
        BY <2>1, <2>4, <3>1, <4>1
    <3>3. CASE rows'[o] # NoRow
      <4>1. KeptKey(o)' = dkey[o] /\ dkey[o] # 0
        BY <1>0, <2>1, <2>4, <3>3 DEF KeptKey, Saved, Kept, Row, TradeKey
      <4>2. Keys(S)[o] = dkey[o]
        BY <2>4 DEF Keys
      <4> QED
        BY <2>1, <2>4, <3>1, <4>1, <4>2
    <3> QED
      BY <3>2, <3>3
  <2> QED
    BY <2>3, <2>4
<1>4. CASE Daemon /\ dkey' # dkey
  <2>1. UNCHANGED Table(S)
    BY <1>1, <1>4, OneBinding DEF BaseInv
  <2>2. PICK o \in Orders : dkey[o] = 0 /\ dkey' = [dkey EXCEPT ![o] = seen']
                            /\ seen' > seen /\ seen' \in Nat
    BY <1>4, OneBinding DEF BaseInv
  <2>3. CASE o \notin S
    <3>1. UNCHANGED Keys(S)
      BY <1>0, <2>2, <2>3 DEF Keys
    <3> QED
      BY <2>1, <3>1
  <2>4. CASE o \in S
    <3>1. /\ Keys(S)[o] = 0 /\ Keys(S)'[o] = seen'
          /\ Keys(S)' = [Keys(S) EXCEPT ![o] = seen']
      BY <1>0, <2>2, <2>4 DEF Keys
    <3>2. \A q \in S : Keys(S)[q] < seen'
      BY <1>0, <2>2 DEF Keys
    <3> QED
      BY <2>1, <2>4, <3>1, <3>2
  <2> QED
    BY <2>3, <2>4
<1>5. ASSUME NEW p \in Procs, Cli(p), rows' = rows
      PROVE  UNCHANGED <<Keys(S), Table(S)>>
  BY <1>1, <1>5, OneRow DEF BaseInv
<1>6. CASE Daemon /\ dkey' = dkey
  BY <1>1, <1>6, OneBinding DEF BaseInv
<1> QED
  BY <1>2, <1>3, <1>4, <1>5, <1>6 DEF Next

(* The index a command promises is the one after the last, read when the   *)
(* command prepares; afterwards it stays or is dropped.                    *)
LEMMA NextPromised ==
  ASSUME TypeInv, NEW p \in Procs, Cli(p)
  PROVE  \/ job'[p].next \in {job[p].next, 0}
         \/ /\ pc[p] = "ready" /\ pc'[p] = "bump" /\ job[p].order \in Ranged
            /\ job'[p].next = last + 1 /\ job'[p].ctx = job[p].ctx /\ last' = last
<1>0. job \in [Procs -> Job] /\ pc \in [Procs -> PCs]
  BY DEF TypeInv, TypeOK
<1>1. ASSUME NEW m \in msgs, Receive(p, m) PROVE job'[p].next = job[p].next
  BY <1>1, ReceiveShape
<1>2. ASSUME NEW c \in Cmds, NEW o \in Orders \cup {NoOrder}, Start(p, c, o)
      PROVE  job'[p].next = 0
  BY <1>0, <1>2 DEF Start, NewJob
<1>3. CASE Sending(p)
  BY <1>0, <1>3 DEF Sending, Send, Job
<1>4. CASE Prepare(p)
  BY <1>0, <1>4 DEF Prepare, Goto, NextIndex, Job
<1>5. CASE BumpIndex(p) \/ SaveUser(p) \/ SaveStatus(p)
  BY <1>5 DEF BumpIndex, SaveUser, SaveStatus
<1>6. CASE FollowUp(p)
  BY <1>0, <1>6 DEF FollowUp, Job
<1>7. CASE Exit(p)
  BY <1>0, <1>7 DEF Exit, NoJob
<1>8. ASSUME SendAsTrader(p) PROVE job'[p].next = job[p].next
  BY <1>0, <1>8 DEF SendAsTrader, Send, Job
<1>9. ASSUME NEW k, NEW i, Send(p, k, i) PROVE job'[p].next = job[p].next
  BY <1>0, <1>9 DEF Send, Job
<1> QED
  BY <1>1, <1>2, <1>4, <1>5, <1>6, <1>7, <1>8, <1>9
     DEF Cli, SendNewOrder, SendTake, SendSync, SendRestore, SendOrdersInfo,
         SendOrderMsg, SendInvoice, SendBondInvoice, SendRating

(* Where a command that stores something comes from. *)
LEMMA Storing ==
  ASSUME TypeInv, NEW p \in Procs, Cli(p), pc'[p] \in {"saveUser", "saveStatus", "follow"}
  PROVE  \/ \E m \in msgs : /\ Receive(p, m) /\ Reaches(p, m) /\ Accepted(job[p], m)
                            /\ m.act = "NewOrder" => m.req # NoId
         \/ /\ pc[p] \in {"saveUser", "saveStatus"} /\ pc'[p] = "follow"
            /\ job' = job
         \/ pc[p] = "follow" /\ job'[p].next = 0
<1>0. job \in [Procs -> Job] /\ pc \in [Procs -> PCs]
  BY DEF TypeInv, TypeOK
<1>1. ASSUME NEW m \in msgs, Receive(p, m)
      PROVE  /\ Reaches(p, m) /\ Accepted(job[p], m)
             /\ m.act = "NewOrder" => m.req # NoId
  BY <1>0, <1>1 DEF Receive, Reject, ReceiveOrder, SaveOrder, ReceiveStatus, ReceiveCanceled,
     ReceiveNotice, ReceiveIndex, Goto, OrderReplies, StatusReplies, Notices
<1>2. CASE SaveUser(p) \/ SaveStatus(p)
  BY <1>0, <1>2 DEF SaveUser, SaveStatus, After, Goto
<1>3. CASE FollowUp(p)
  BY <1>0, <1>3 DEF FollowUp, Goto, Job
<1>4. (\E m \in msgs : Receive(p, m)) \/ SaveUser(p) \/ SaveStatus(p) \/ FollowUp(p)
  BY <1>0 DEF Cli, Start, SendNewOrder, SendTake, SendSync, SendRestore, SendOrdersInfo, Send,
     Prepare, BumpIndex, SendOrderMsg, SendInvoice, SendBondInvoice, SendRating,
     SendAsTrader, Exit, Goto
<1> QED
  BY <1>1, <1>2, <1>3, <1>4

(* A reply with an order and an id is accepted by the command that asked   *)
(* for it: sync and restore accept no such reply, and a push has no id.    *)
LEMMA AcceptedIsOwn ==
  ASSUME BaseInv, NEW p \in Procs, NEW m \in msgs, Reaches(p, m), Accepted(job[p], m),
         m.act \in OrderReplies, m.req # NoId
  PROVE  /\ pc[p] = "waiting" /\ m.req = job[p].rid
         /\ job[p].cmd \in TradeCmds /\ job[p].ctx = dkey[m.order]
<1>1. pc[p] = "waiting" /\ m.req = job[p].rid /\ m.to = job[p].key
  BY DEF Reaches, Accepted, OrderReplies
<1> QED
  BY <1>1 DEF BaseInv, Exchange, Answers

(* Without range orders no child is promised. *)
NoChildren == Ranged = {} => \A p \in Procs : job[p].next = 0

LEMMA NoChildrenStep ==
  ASSUME BaseInv, NoChildren, [Next]_vars
  PROVE  NoChildren'
<1>0. job \in [Procs -> Job] /\ pc \in [Procs -> PCs]
  BY DEF BaseInv, TypeInv, TypeOK
<1>1. CASE UNCHANGED job
  BY <1>1 DEF NoChildren
<1>2. ASSUME NEW p \in Procs, Cli(p) PROVE NoChildren'
  <2>1. \A q \in Procs \ {p} : job'[q] = job[q]
    BY <1>0, <1>2, CliShape DEF BaseInv, Start, Sending, Send, Local, Exit
  <2> QED
    BY <1>2, <2>1, NextPromised DEF BaseInv, NoChildren
<1> QED
  BY <1>1, <1>2, OneBinding DEF Next, vars, BaseInv

-----------------------------------------------------------------------------
(* Any number of commands at a time: the orders created or taken.          *)

(* A command that stores what it received has used its promised index up.  *)
Promised ==
  \A p \in Procs :
    /\ pc[p] \in {"saveUser", "saveStatus", "follow"}
    /\ job[p].cmd = "release" /\ job[p].next # 0
    => Past(job[p].next)

DirectInv == BaseInv /\ Promised /\ NoChildren /\ Kept(Direct) /\ Copied(Direct)

(* A push may end a release's wait before the daemon has decided on the    *)
(* promised index; the release then looks for a child under an index that  *)
(* another command may get.  There is no such release in these two cases.  *)
Separate == Pushes = {} \/ Ranged = {}

LEMMA DirectInit == Init => DirectInv
<1> SUFFICES ASSUME Init PROVE DirectInv
  OBVIOUS
<1>1. Promised /\ NoChildren /\ Kept(Direct) /\ Copied(Direct)
  BY DEF Init, Promised, NoChildren, Kept, Copied, Saved, NoJob, Direct, Orders
<1> QED
  BY <1>1, BaseInit DEF DirectInv

LEMMA PromisedStep ==
  ASSUME Separate, BaseInv, Promised, NoChildren, [Next]_vars
  PROVE  Promised'
<1>0. job \in [Procs -> Job] /\ pc \in [Procs -> PCs]
  BY DEF BaseInv, TypeInv, TypeOK
<1>1. CASE UNCHANGED vars
  BY <1>1 DEF vars, Promised, Past
<1>2. CASE Daemon
  <2>1. /\ UNCHANGED <<pc, job>>
        /\ \A k \in Nat : Past(k) => Past(k)'
    BY <1>2, OneBinding, BindingKept DEF BaseInv
  <2>2. ASSUME NEW p \in Procs, NEW k \in Nat, k = job[p].next,
               pc[p] \in {"saveUser", "saveStatus", "follow"},
               job[p].cmd = "release", k # 0
        PROVE  Past(k)'
    BY <2>1, <2>2 DEF Promised
  <2> QED
    BY <1>0, <2>1, <2>2 DEF Promised, Past, Job
<1>3. ASSUME NEW p \in Procs, Cli(p) PROVE Promised'
  <2>0. UNCHANGED <<seen, dkey>>
    BY <1>3, OneRow DEF BaseInv
  <2>1. \A q \in Procs \ {p} : pc'[q] = pc[q] /\ job'[q] = job[q]
    BY <1>0, <1>3, CliShape DEF BaseInv, Start, Goto, Sending, Send, Local, Exit
  <2>2. ASSUME pc'[p] \in {"saveUser", "saveStatus", "follow"},
               job'[p].cmd = "release", job'[p].next # 0
        PROVE  Past(job'[p].next)
    <3>1. CASE pc[p] \in {"saveUser", "saveStatus"} /\ job' = job
      BY <2>2, <3>1 DEF Promised
    <3>2. ASSUME NEW m \in msgs, Receive(p, m), Reaches(p, m), Accepted(job[p], m),
                 m.act = "NewOrder" => m.req # NoId
          PROVE  Past(job'[p].next)
      <4>1. /\ job'[p].next = job[p].next /\ job[p].cmd = "release" /\ pc[p] = "waiting"
        BY <2>2, <3>2, ReceiveShape DEF BaseInv, Local
      <4>2. Pushes = {}
        BY <2>2, <4>1 DEF Separate, NoChildren
      <4>3. m.req = job[p].rid /\ m.act # "CantDo"
        BY <3>2, <4>1, <4>2 DEF Accepted
      <4> QED
        BY <2>2, <4>1, <4>3 DEF BaseInv, Exchange, UsedUp
    <3> QED
      BY <1>3, <2>2, <3>1, <3>2, Storing DEF BaseInv
  <2> QED
    BY <2>0, <2>1, <2>2 DEF Promised, Past
<1> QED
  BY <1>1, <1>2, <1>3 DEF Next

(* No child is taken for an order the user created or took: its index is   *)
(* used up by then.                                                        *)
LEMMA DirectOwnKey ==
  ASSUME DirectInv
  PROVE  /\ OwnKey(Direct)
         /\ \A p \in Procs, m \in msgs :
              pc[p] = "follow" /\ m.to = job[p].next /\ m.act \in OrderReplies
                => m.order \notin Direct
<1>1. ASSUME NEW p \in Procs, NEW m \in msgs, pc[p] = "follow", m.to = job[p].next,
             m.act \in OrderReplies
      PROVE  m.order \notin Direct
  <2>1. Past(job[p].next) /\ m.to = dkey[m.order]
    BY <1>1 DEF DirectInv, BaseInv, Exchange, Following, Promised, Answers
  <2> QED
    BY <1>1, <2>1 DEF Past
<1> QED
  BY <1>1, AcceptedIsOwn DEF OwnKey, DirectInv

LEMMA DirectInvariance ==
  ASSUME Separate
  PROVE  Spec => []DirectInv
<1>1. DirectInv /\ [Next]_vars => DirectInv'
  <2> SUFFICES ASSUME DirectInv, [Next]_vars PROVE DirectInv'
    OBVIOUS
  <2>1. BaseInv'
    BY BaseStep DEF DirectInv
  <2>2. Promised' /\ NoChildren'
    BY PromisedStep, NoChildrenStep DEF DirectInv
  <2>3. Kept(Direct)' /\ Copied(Direct)'
    BY DirectOwnKey, KeptStep DEF DirectInv, Direct, Orders
  <2> QED
    BY <2>1, <2>2, <2>3 DEF DirectInv
<1> QED
  BY <1>1, DirectInit, PTL DEF Spec

(* Without pushes, or without range orders, the key stored with an order   *)
(* the user created or took is the key the daemon bound it to, whatever is *)
(* delayed, duplicated, lost or run at the same time (save_order).         *)
THEOREM DirectKeysAgree ==
  ASSUME Separate
  PROVE  Spec => []DirectKeyAgreement
<1>1. DirectInv => DirectKeyAgreement
  BY DEF DirectInv, Kept, DirectKeyAgreement
<1> QED
  BY <1>1, DirectInvariance, PTL

(* In the same cases the row of such an order appears through the command  *)
(* that created or took it, and through no other message.                  *)
THEOREM RowsAreOwn ==
  ASSUME Separate
  PROVE  Spec => RowsFromOwnCommand
<1> DEFINE Step == \A o \in Direct :
       ~Saved(o) /\ Saved(o)' =>
         \E p \in Procs : /\ pc[p] = "waiting"
                          /\ job[p].cmd \in TradeCmds
                          /\ job[p].ctx = dkey[o]
<1>1. DirectInv /\ [Next]_vars => [Step]_vars
  <2> SUFFICES ASSUME DirectInv, [Next]_vars, NEW o \in Direct, rows[o] = NoRow,
                      rows'[o] # NoRow
               PROVE  \E p \in Procs : /\ pc[p] = "waiting"
                                       /\ job[p].cmd \in TradeCmds
                                       /\ job[p].ctx = dkey[o]
    BY DEF Saved, Direct
  <2>1. o \in Orders /\ BaseInv /\ TypeInv
    BY DEF Direct, Orders, DirectInv, BaseInv
  <2>2. PICK p \in Procs : Cli(p)
    BY <2>1, OneBinding DEF Next, vars
  <2>3. PICK m \in msgs : /\ m.act \in OrderReplies /\ m.req # NoId /\ m.order = o
                          /\ \/ Reaches(p, m) /\ Accepted(job[p], m)
                             \/ pc[p] = "follow" /\ m.to = job[p].next
    BY <2>1, <2>2, RowWritten
  <2>4. Reaches(p, m) /\ Accepted(job[p], m)
    BY <2>3, DirectOwnKey
  <2> QED
    BY <2>1, <2>3, <2>4, AcceptedIsOwn
<1> QED
  BY <1>1, DirectInvariance, PTL DEF Spec, RowsFromOwnCommand

(* In the same cases the table of created and taken orders implements the  *)
(* ledger: each is bound once, to a key above those before it, and its row *)
(* holds that key or is not there.                                         *)
THEOREM DirectLedgerKept ==
  ASSUME Separate
  PROVE  Spec => ImplementsDirectLedger
<1>1. Init => DirectKeys!Init
  BY DEF Init, DirectKeys!Init, KeptKey, Saved, Direct, Orders
<1>2. DirectInv /\ DirectInv' /\ [Next]_vars => [DirectKeys!Next]_(DirectKeys!vars)
  BY TableStep DEF DirectInv, Direct, Orders, Keys, Table, DirectKeys!Next, DirectKeys!vars,
     DirectKeys!Bind, DirectKeys!Keep, DirectKeys!Drop
<1> QED
  BY <1>1, <1>2, DirectInvariance, PTL DEF Spec, ImplementsDirectLedger, DirectKeys!Spec

(* In the same cases no two created or taken orders are kept under one     *)
(* key.                                                                    *)
THEOREM DirectKeysDiffer ==
  ASSUME Separate
  PROVE  Spec => []DirectKeyPerOrder
<1>1. DirectInv /\ Distinct => DirectKeyPerOrder
  BY DEF DirectInv, BaseInv, TypeInv, TypeOK, Distinct, Kept, DirectKeyPerOrder, Saved, Row,
     TradeKey, Direct, Orders
<1> QED
  BY <1>1, BoundKeysDiffer, DirectInvariance, PTL

-----------------------------------------------------------------------------
(* save_order never meets a row: that Order::new may overwrite one, in a   *)
(* second statement, changes nothing for the orders created or taken.      *)

(* The daemon gives an order once. *)
OneReply ==
  \A m1, m2 \in msgs :
    m1.act \in OrderReplies /\ m2.act \in OrderReplies /\ m1.order = m2.order
      => m1.req = m2.req

(* The process that asked for a saved order has read the reply. *)
ReadOnce ==
  \A m \in msgs, p \in Procs :
    m.act \in OrderReplies /\ m.order \in Direct /\ Saved(m.order) /\ pc[p] = "waiting"
      => m.req # job[p].rid

OnceInv == DirectInv /\ OneReply /\ ReadOnce

(* A received order that is about to be saved has no row. *)
SavedOnce ==
  \A p \in Procs, m \in msgs :
    /\ Reaches(p, m) /\ Accepted(job[p], m)
    /\ m.act \in OrderReplies /\ m.req # NoId /\ m.order \in Direct
    => ~Saved(m.order)

(* Only a binding is answered with an order, and with one message. *)
LEMMA OneGiven ==
  ASSUME TypeInv, Daemon,
         NEW m1 \in msgs', m1 \notin msgs, m1.act \in OrderReplies
  PROVE  /\ dkey[m1.order] = 0
         /\ \A m2 \in msgs' : m2 \notin msgs /\ m2.act \in OrderReplies => m2 = m1
<1> DEFINE Given(m) == /\ dkey[m.order] = 0
                       /\ \A m2 \in msgs' : m2 \notin msgs /\ m2.act \in OrderReplies => m2 = m
<1>0. ASSUME NEW r \in reqs, NEW out, Handled(r, out)
      PROVE  \A m \in msgs' : m \notin msgs => m \in out
  BY <1>0 DEF Handled
<1>1. ASSUME NEW r \in reqs, Refuse(r) PROVE FALSE
  BY <1>0, <1>1 DEF Refuse, Reply, OrderReplies
<1>2. ASSUME NEW r \in reqs, DaemonTrade(r) PROVE Given(m1)
  <2>1. ASSUME NEW o, NEW act, dkey[o] = 0, Handled(r, {Reply(r, act, o, 0)})
        PROVE  Given(m1)
    <3>1. m1 = Reply(r, act, o, 0) /\ \A m2 \in msgs' : m2 \notin msgs => m2 = m1
      BY <1>0, <2>1
    <3>2. m1.order = o
      BY <3>1 DEF Reply
    <3> QED
      BY <2>1, <3>1, <3>2
  <2> HIDE DEF Given
  <2>2. ~Refuse(r)
    BY <1>1
  <2>3. \E o, act : dkey[o] = 0 /\ Handled(r, {Reply(r, act, o, 0)})
    BY <1>2, <2>2 DEF DaemonTrade
  <2> QED
    BY <2>1, <2>3
<1>3. ASSUME NEW r \in reqs, DaemonOrder(r) PROVE Given(m1)
  <2> DEFINE answer == Reply(r, DaemonAnswer(r.cmd), r.order, 0)
  <2>1. answer.act \notin OrderReplies
    BY <1>3 DEF DaemonOrder, DaemonAnswer, Reply, OrderCmds, MsgCmds, NextTradeCmds,
       OrderReplies
  <2> HIDE DEF answer
  <2>2. ~Handled(r, {answer})
    BY <1>0, <2>1
  <2>3. ASSUME NEW c, NEW id, dkey[c] = 0,
               Handled(r, {answer, [act |-> "NewOrder", order |-> c, to |-> r.idx,
                                    req |-> id, cause |-> r.rid, idx |-> 0]})
        PROVE  Given(m1)
    BY <1>0, <2>1, <2>3
  <2> QED
    BY <1>1, <1>3, <2>2, <2>3 DEF DaemonOrder, answer
<1>4. ASSUME NEW r \in reqs, DaemonBond(r) \/ DaemonAccount(r) PROVE FALSE
  BY <1>0, <1>1, <1>4 DEF DaemonBond, DaemonAccount, Reply, OrderReplies
<1>5. ASSUME NEW o \in Orders, NEW act \in Pushes, DaemonPush(o, act) PROVE FALSE
  BY <1>5, RepliesAssumption DEF DaemonPush, OrderReplies
<1> QED
  BY <1>2, <1>3, <1>4, <1>5 DEF Daemon

LEMMA OnceStep ==
  ASSUME OnceInv, [Next]_vars
  PROVE  OneReply' /\ ReadOnce'
<1>0. /\ TypeInv /\ BaseInv /\ DirectInv
      /\ job \in [Procs -> Job] /\ pc \in [Procs -> PCs]
      /\ rows \in [Orders -> Row \cup {NoRow}]
  BY DEF OnceInv, DirectInv, BaseInv, TypeInv, TypeOK
<1>1. CASE UNCHANGED vars
  BY <1>1 DEF vars, OnceInv, OneReply, ReadOnce, Saved
<1>2. ASSUME NEW p \in Procs, Cli(p) PROVE OneReply' /\ ReadOnce'
  <2>1. /\ msgs' \subseteq msgs
        /\ \A q \in Procs \ {p} : pc'[q] = pc[q] /\ job'[q] = job[q]
        /\ pc'[p] = "waiting" => Sending(p)
    BY <1>0, <1>2, CliShape DEF Start, Goto, Sending, Send, Local, Exit, daemon
  <2>2. OneReply'
    BY <2>1 DEF OnceInv, OneReply
  <2>3. ReadOnce'
    <3> SUFFICES ASSUME NEW m \in msgs, NEW q \in Procs, m.act \in OrderReplies,
                        m.order \in Direct, rows'[m.order] # NoRow, pc'[q] = "waiting"
                 PROVE  m.req # job'[q].rid
      BY <2>1 DEF ReadOnce, Saved
    <3>1. CASE q = p
      <4>1. pc[p] \in {"ready", "send"} /\ job'[p].rid = job[p].rid
        BY <1>0, <2>1, <3>1 DEF Sending, Send, Job
      <4> QED
        BY <1>0, <3>1, <4>1 DEF BaseInv, Exchange, Fresh, Active, NoId
    <3>2. CASE q # p /\ rows[m.order] # NoRow
      BY <2>1, <3>2 DEF OnceInv, ReadOnce, Saved
    <3>3. CASE q # p /\ rows[m.order] = NoRow
      <4>1. PICK n \in msgs :
              /\ n.act \in OrderReplies /\ n.req # NoId /\ n.order = m.order
              /\ \/ Reaches(p, n) /\ Accepted(job[p], n)
                 \/ pc[p] = "follow" /\ n.to = job[p].next
        BY <1>0, <1>2, <3>3, RowWritten DEF Direct, Orders
      <4>2. pc[p] = "waiting" /\ n.req = job[p].rid
        BY <1>0, <4>1, DirectOwnKey, AcceptedIsOwn
      <4>3. m.req = n.req
        BY <4>1 DEF OnceInv, OneReply
      <4>4. pc[q] = "waiting" /\ job'[q].rid = job[q].rid /\ job[q].rid # job[p].rid
        BY <1>0, <2>1, <3>3, <4>2 DEF BaseInv, Exchange, Fresh, Active
      <4> QED
        BY <4>2, <4>3, <4>4
    <3> QED
      BY <3>1, <3>2, <3>3
  <2> QED
    BY <2>2, <2>3
<1>3. CASE Daemon
  <2>0. UNCHANGED <<rows, pc, job>>
    BY <1>0, <1>3, OneBinding
  <2>1. \A m \in msgs : m.act \in OrderReplies => dkey[m.order] # 0
    BY <1>0 DEF BaseInv, Exchange, Answers
  <2>2. OneReply'
    BY <1>0, <1>3, <2>1, OneGiven DEF OnceInv, OneReply
  <2>3. \A o \in Direct : Saved(o) => dkey[o] # 0
    BY <1>0 DEF DirectInv, Kept, Saved, Row, TradeKey, Direct, Orders
  <2>4. ReadOnce'
    BY <1>0, <1>3, <2>0, <2>3, OneGiven DEF OnceInv, ReadOnce, Saved
  <2> QED
    BY <2>2, <2>4
<1> QED
  BY <1>1, <1>2, <1>3 DEF Next

(* Without pushes, or without range orders, save_order inserts: the reply  *)
(* a command saves is about an order that has no row.                      *)
THEOREM SavesAreInserts ==
  ASSUME Separate
  PROVE  Spec => []SavedOnce
<1>1. Init => OnceInv
  BY DirectInit DEF Init, OnceInv, OneReply, ReadOnce
<1>2. OnceInv /\ [Next]_vars /\ DirectInv' => OnceInv'
  BY OnceStep DEF OnceInv
<1>3. OnceInv => SavedOnce
  BY AcceptedIsOwn DEF OnceInv, DirectInv, ReadOnce, SavedOnce
<1> QED
  BY <1>1, <1>2, <1>3, DirectInvariance, PTL DEF Spec

-----------------------------------------------------------------------------
(* One command at a time, or no range orders: every order, children        *)
(* included, with any pushes and with replies as late as they like.        *)

Alone == \A p, q \in Procs : p = q

Steady == Alone \/ Ranged = {}

(* Nobody else moves the last index: the one a command promises is the one *)
(* its context holds.                                                      *)
OwnIndex ==
  \A p \in Procs : /\ pc[p] = "ready" => job[p].ctx = last + 1
                   /\ job[p].next \in {0, job[p].ctx}

TableInv == /\ BaseInv /\ NoChildren /\ (Alone => OwnIndex)
            /\ Kept(Orders) /\ Copied(Orders)

LEMMA TableInit == Init => TableInv
<1> SUFFICES ASSUME Init PROVE TableInv
  OBVIOUS
<1>1. NoChildren /\ OwnIndex /\ Kept(Orders) /\ Copied(Orders)
  BY DEF Init, NoChildren, OwnIndex, Kept, Copied, Saved, NoJob
<1> QED
  BY <1>1, BaseInit DEF TableInv

LEMMA OwnIndexStep ==
  ASSUME Alone, BaseInv, OwnIndex, [Next]_vars
  PROVE  OwnIndex'
<1>0. job \in [Procs -> Job] /\ pc \in [Procs -> PCs]
  BY DEF BaseInv, TypeInv, TypeOK
<1>1. CASE UNCHANGED <<last, pc, job>>
  BY <1>1 DEF OwnIndex
<1>2. ASSUME NEW p \in Procs, Cli(p) PROVE OwnIndex'
  <2>1. pc'[p] = "ready" => job'[p].ctx = last' + 1
    <3>1. ASSUME NEW c \in Cmds, NEW o \in Orders \cup {NoOrder}, Start(p, c, o)
          PROVE  job'[p].ctx = last' + 1
      BY <1>0, <3>1 DEF Start, NewJob, NextIndex
    <3>2. ASSUME pc'[p] = "ready"
          PROVE  \E c \in Cmds, o \in Orders \cup {NoOrder} : Start(p, c, o)
      BY <1>0, <1>2, <3>2 DEF Cli, SendNewOrder, SendTake, SendSync, SendRestore,
         SendOrdersInfo, Send, Prepare, BumpIndex, SendOrderMsg, SendInvoice,
         SendBondInvoice, SendRating, SendAsTrader, SaveUser, SaveStatus, FollowUp, Exit,
         Receive, Reject, ReceiveOrder, SaveOrder, ReceiveStatus, ReceiveCanceled,
         ReceiveNotice, ReceiveIndex, Goto, After
    <3> QED
      BY <3>1, <3>2
  <2>2. job'[p].next \in {0, job'[p].ctx}
    <3>1. CASE job'[p].next = 0
      BY <3>1
    <3>2. CASE pc[p] = "ready" /\ job'[p].next = last + 1 /\ job'[p].ctx = job[p].ctx
      BY <3>2 DEF OwnIndex
    <3>3. CASE job'[p].next = job[p].next /\ job'[p].next # 0
      <4>1. job'[p].ctx = job[p].ctx
        BY <1>0, <1>2, <3>3, CliShape
           DEF BaseInv, Start, NewJob, Sending, Send, Local, Exit, NoJob, Job
      <4> QED
        BY <3>3, <4>1 DEF OwnIndex
    <3> QED
      BY <1>2, <3>1, <3>2, <3>3, NextPromised DEF BaseInv
  <2> QED
    BY <2>1, <2>2 DEF Alone, OwnIndex
<1> QED
  BY <1>1, <1>2, OneBinding DEF Next, vars, BaseInv

(* The child found for a promised index is bound to it, and so to the      *)
(* context's key.                                                          *)
LEMMA TableOwnKey ==
  ASSUME Steady, TableInv
  PROVE  OwnKey(Orders)
<1> SUFFICES ASSUME NEW p \in Procs, NEW m \in msgs,
                    m.act \in OrderReplies, m.req # NoId,
                    \/ Reaches(p, m) /\ Accepted(job[p], m)
                    \/ pc[p] = "follow" /\ m.to = job[p].next
             PROVE  job[p].ctx = dkey[m.order]
  BY DEF OwnKey
<1>1. CASE Reaches(p, m) /\ Accepted(job[p], m)
  BY <1>1, AcceptedIsOwn DEF TableInv
<1>2. CASE pc[p] = "follow" /\ m.to = job[p].next
  <2>1. job[p].next # 0 /\ m.to = dkey[m.order]
    BY <1>2 DEF TableInv, BaseInv, Exchange, Following, Answers
  <2> QED
    BY <1>2, <2>1 DEF Steady, TableInv, NoChildren, OwnIndex
<1> QED
  BY <1>1, <1>2

LEMMA TableKept ==
  ASSUME Steady
  PROVE  TableInv /\ [Next]_vars => TableInv'
<1> SUFFICES ASSUME TableInv, [Next]_vars PROVE TableInv'
  OBVIOUS
<1>1. BaseInv' /\ NoChildren'
  BY BaseStep, NoChildrenStep DEF TableInv
<1>2. Alone => OwnIndex'
  BY OwnIndexStep DEF TableInv
<1>3. Kept(Orders)' /\ Copied(Orders)'
  BY TableOwnKey, KeptStep DEF TableInv
<1> QED
  BY <1>1, <1>2, <1>3 DEF TableInv, Alone

LEMMA TableInvariance ==
  ASSUME Steady
  PROVE  Spec => []TableInv
BY TableInit, TableKept, PTL DEF Spec

(* One command at a time, or no range orders: every saved order is under   *)
(* the key the daemon bound it to, whatever is pushed, delayed or lost     *)
(* (save_order and create_next_trade_payload).                             *)
THEOREM KeysAgree ==
  ASSUME Steady
  PROVE  Spec => []KeyAgreement
<1>1. TableInv => KeyAgreement
  BY DEF TableInv, Kept, KeyAgreement
<1> QED
  BY <1>1, TableInvariance, PTL

(* In the same cases the orders table implements the ledger: each order is *)
(* bound once, to a key above those before it, and its row holds that key  *)
(* or is not there.                                                        *)
THEOREM LedgerKept ==
  ASSUME Steady
  PROVE  Spec => ImplementsLedger
<1>1. Init => AllKeys!Init
  BY DEF Init, AllKeys!Init, KeptKey, Saved
<1>2. TableInv /\ TableInv' /\ [Next]_vars => [AllKeys!Next]_(AllKeys!vars)
  <2> SUFFICES ASSUME TableInv, TableInv', [Next]_vars
               PROVE  [AllKeys!Next]_(AllKeys!vars)
    OBVIOUS
  <2>1. dkey = Keys(Orders) /\ dkey' = Keys(Orders)'
    BY DEF TableInv, BaseInv, TypeInv, TypeOK, Keys
  <2> QED
    BY <2>1, TableStep DEF TableInv, Table, AllKeys!Next, AllKeys!vars, AllKeys!Bind,
       AllKeys!Keep, AllKeys!Drop
<1> QED
  BY <1>1, <1>2, TableInvariance, PTL DEF Spec, ImplementsLedger, AllKeys!Spec

(* In the same cases no two saved orders share a trade key.                *)
THEOREM KeysDiffer ==
  ASSUME Steady
  PROVE  Spec => []KeyPerOrder
<1>1. TableInv /\ Distinct => KeyPerOrder
  BY DEF TableInv, BaseInv, TypeInv, TypeOK, Distinct, Kept, KeyPerOrder, Saved, Row, TradeKey
<1> QED
  BY <1>1, BoundKeysDiffer, TableInvariance, PTL

-----------------------------------------------------------------------------
(* One command at a time, and no reply outlives its command: getdm reaches *)
(* every saved order, and a successful sync keeps it so.                   *)

(* While a command runs, the last index is the one it started from or the  *)
(* one of its context.                                                     *)
InReach ==
  \A p \in Procs :
    /\ pc[p] \in {"ready", "bump", "send", "waiting", "saveUser", "saveStatus", "follow"}
         => job[p].ctx \in {last, last + 1}
    /\ pc[p] = "bump" => job[p].next # 0
    /\ pc[p] \in {"saveUser", "saveStatus", "follow"} => job[p].cmd # "sync"

(* The index the daemon answers a waiting sync with is not behind a saved  *)
(* key: nothing is saved while the sync waits.                             *)
Told ==
  \A m \in msgs : m.act = "LastTradeIndex" =>
    /\ m.cause # NoId
    /\ \A p \in Procs : pc[p] = "waiting" /\ m.cause = job[p].rid =>
         \A o \in Orders : Saved(o) => rows[o].key <= m.idx

SyncInv == TableInv /\ OwnIndex /\ InReach /\ Told /\ KeyCoverage /\ SyncedIndexIsReal

LEMMA SyncInit == Init => SyncInv
<1> SUFFICES ASSUME Init PROVE SyncInv
  OBVIOUS
<1>1. OwnIndex /\ InReach /\ Told /\ KeyCoverage /\ SyncedIndexIsReal
  BY DEF Init, OwnIndex, NoJob, InReach, Told, KeyCoverage, SyncedIndexIsReal, Saved
<1> QED
  BY <1>1, TableInit DEF SyncInv

(* Where the last index moves. *)
LEMMA LastMoves ==
  ASSUME TypeInv, NEW p \in Procs, Cli(p)
  PROVE  \/ last' = last
         \/ /\ pc[p] = "bump" /\ last' = job[p].next /\ pc'[p] = "send"
            /\ UNCHANGED <<rows, job>>
         \/ /\ pc[p] = "saveUser" /\ last' = job[p].ctx /\ pc'[p] \in {"follow", "ok"}
            /\ UNCHANGED <<rows, job>>
         \/ \E m \in msgs : /\ ReceiveIndex(p, m) /\ last' = m.idx /\ pc'[p] = "ok"
                            /\ UNCHANGED rows
<1>0. pc \in [Procs -> PCs]
  BY DEF TypeInv, TypeOK
<1>1. CASE BumpIndex(p)
  BY <1>0, <1>1 DEF BumpIndex, Goto
<1>2. CASE SaveUser(p)
  BY <1>0, <1>2 DEF SaveUser, Goto, After
<1>3. ASSUME NEW m \in msgs, ReceiveIndex(p, m)
      PROVE  last' = last \/ (last' = m.idx /\ pc'[p] = "ok" /\ UNCHANGED rows)
  BY <1>0, <1>3 DEF ReceiveIndex, Goto
<1>4. \/ last' = last \/ BumpIndex(p) \/ SaveUser(p)
      \/ \E m \in msgs : ReceiveIndex(p, m)
  BY DEF Cli, Start, SendNewOrder, SendTake, SendSync, SendRestore, SendOrdersInfo, Send,
     Prepare, SendOrderMsg, SendInvoice, SendBondInvoice, SendRating, SendAsTrader,
     SaveStatus, FollowUp, Exit, Receive, Reject, ReceiveOrder, ReceiveStatus,
     ReceiveCanceled, ReceiveNotice
<1> QED
  BY <1>1, <1>2, <1>3, <1>4

(* The reply a sync succeeds on is the answer to its own request. *)
LEMMA SyncReply ==
  ASSUME LateReplies = FALSE, SyncInv, NEW p \in Procs, NEW m \in msgs, ReceiveIndex(p, m)
  PROVE  \A o \in Orders : Saved(o) => rows[o].key <= m.idx
BY DEF SyncInv, Told, ReceiveIndex, Reaches

LEMMA CoverageStep ==
  ASSUME LateReplies = FALSE, SyncInv, NEW p \in Procs, Cli(p)
  PROVE  KeyCoverage'
<1>0. /\ rows \in [Orders -> Row \cup {NoRow}] /\ rows' \in [Orders -> Row \cup {NoRow}]
      /\ last \in Nat /\ last' \in Nat /\ job \in [Procs -> Job] /\ msgs \subseteq Message
      /\ TypeInv
  BY TypeCli DEF SyncInv, TableInv, BaseInv, TypeInv, TypeOK
<1> SUFFICES ASSUME NEW o \in Orders, rows'[o] # NoRow
             PROVE  rows'[o].key <= last' + 1
  BY DEF KeyCoverage, Saved
<1>1. ASSUME rows[o] # NoRow
      PROVE  rows[o].key <= last' + 1
  <2>0. rows[o].key \in Nat /\ rows[o].key <= last + 1
    BY <1>0, <1>1 DEF SyncInv, KeyCoverage, Saved, Row, TradeKey
  <2>1. CASE pc[p] \in {"bump", "saveUser"} /\ last' = job[p].ctx
    <3>1. last' >= last
      BY <1>0, <2>1 DEF SyncInv, InReach
    <3> QED
      BY <1>0, <2>0, <3>1
  <2>2. ASSUME NEW m \in msgs, ReceiveIndex(p, m), last' = m.idx
        PROVE  rows[o].key <= last' + 1
    <3>1. rows[o].key <= m.idx
      BY <1>1, <2>2, SyncReply DEF Saved
    <3> QED
      BY <1>0, <2>0, <2>2, <3>1
  <2>3. pc[p] = "bump" => job[p].next = job[p].ctx
    BY DEF SyncInv, OwnIndex, InReach
  <2> QED
    BY <1>0, <2>0, <2>1, <2>2, <2>3, LastMoves
<1>2. CASE rows'[o] = rows[o]
  BY <1>1, <1>2
<1>3. CASE rows'[o] # rows[o]
  <2>1. last' = last
    BY <1>0, <1>3, LastMoves
  <2>2. CASE SaveStatus(p) /\ o = job[p].order /\ rows[o] # NoRow
             /\ rows'[o].key = job[p].copy.key
    <3>1. rows'[o].key = rows[o].key
      BY <2>2 DEF SaveStatus, SyncInv, TableInv, Kept, Copied, Saved
    <3> QED
      BY <1>1, <2>2, <3>1
  <2>3. CASE rows'[o].key = job[p].ctx /\ pc[p] \in {"waiting", "follow"}
    BY <1>0, <2>1, <2>3 DEF SyncInv, InReach
  <2> QED
    BY <1>0, <1>3, <2>2, <2>3, RowWritten DEF Reaches
<1> QED
  BY <1>2, <1>3

LEMMA InReachStep ==
  ASSUME Alone, SyncInv, NEW p \in Procs, Cli(p)
  PROVE  InReach'
<1>0. /\ job \in [Procs -> Job] /\ pc \in [Procs -> PCs] /\ last \in Nat /\ TypeInv
  BY DEF SyncInv, TableInv, BaseInv, TypeInv, TypeOK
<1> DEFINE Working == {"ready", "bump", "send", "waiting", "saveUser", "saveStatus", "follow"}
<1>1. ASSUME pc'[p] \in Working PROVE job'[p].ctx \in {last', last' + 1}
  <2>1. ASSUME NEW c \in Cmds, NEW o \in Orders \cup {NoOrder}, Start(p, c, o)
        PROVE  job'[p].ctx = last' + 1
    BY <1>0, <2>1 DEF Start, NewJob, NextIndex
  <2>2. CASE Sending(p) \/ Local(p)
    <3>1. job'[p].ctx = job[p].ctx /\ job[p].ctx \in Nat
      BY <1>0, <2>2 DEF Sending, Send, Local, Job, TradeKey
    <3>2. pc[p] \in Working
      <4>1. CASE Sending(p)
        BY <4>1 DEF Sending
      <4>2. CASE Local(p) /\ pc'[p] \in {"ready", "bump", "send"}
        BY <4>2 DEF Local
      <4>3. CASE Local(p) /\ pc'[p] \in {"saveUser", "saveStatus", "follow"}
        BY <1>0, <4>3, Storing DEF Reaches
      <4> QED
        BY <1>1, <2>2, <4>1, <4>2, <4>3 DEF Local
    <3>3. job[p].ctx \in {last, last + 1}
      BY <3>2 DEF SyncInv, InReach
    <3>4. last' \in {last, job[p].ctx}
      <4>1. pc[p] = "bump" => job[p].next = job[p].ctx
        BY DEF SyncInv, OwnIndex, InReach
      <4> QED
        BY <1>0, <1>1, <4>1, LastMoves
    <3> QED
      BY <1>0, <3>1, <3>3, <3>4
  <2>3. CASE Exit(p)
    BY <1>0, <1>1, <2>3 DEF Exit, Goto
  <2> QED
    BY <1>0, <2>1, <2>2, <2>3, CliShape
<1>2. ASSUME pc'[p] = "bump" PROVE job'[p].next # 0
  <2>1. Prepare(p)
    BY <1>0, <1>2 DEF Cli, Start, SendNewOrder, SendTake, SendSync, SendRestore,
       SendOrdersInfo, Send, BumpIndex, SendOrderMsg, SendInvoice,
       SendBondInvoice, SendRating, SendAsTrader, SaveUser, SaveStatus, FollowUp, Exit,
       Receive, Reject, ReceiveOrder, SaveOrder, ReceiveStatus, ReceiveCanceled,
       ReceiveNotice, ReceiveIndex, Goto, After
  <2> QED
    BY <1>0, <1>2, <2>1 DEF Prepare, Goto, NextIndex, Job
<1>3. ASSUME pc'[p] \in {"saveUser", "saveStatus", "follow"} PROVE job'[p].cmd # "sync"
  <2>1. ASSUME NEW m \in msgs, Receive(p, m), Accepted(job[p], m), job[p].cmd = "sync"
        PROVE  FALSE
    <3>1. m.act = "LastTradeIndex"
      BY <2>1 DEF Accepted
    <3> QED
      BY <1>0, <1>3, <2>1, <3>1 DEF Receive, Reject, ReceiveOrder, ReceiveStatus,
         ReceiveCanceled, ReceiveNotice, ReceiveIndex, Goto, OrderReplies, StatusReplies,
         Notices
  <2>2. job[p].cmd # "sync"
    BY <1>0, <1>3, <2>1, Storing DEF SyncInv, InReach
  <2>3. Local(p)
    BY <1>0, <1>3, CliShape DEF Start, Sending, Send, Exit, Goto
  <2> QED
    BY <2>2, <2>3 DEF Local
<1> QED
  BY <1>1, <1>2, <1>3 DEF Alone, InReach

LEMMA ToldStep ==
  ASSUME Alone, SyncInv, NEW p \in Procs, Cli(p)
  PROVE  Told'
<1>0. /\ job \in [Procs -> Job] /\ pc \in [Procs -> PCs] /\ TypeInv
  BY DEF SyncInv, TableInv, BaseInv, TypeInv, TypeOK
<1>1. msgs' \subseteq msgs
  BY <1>0, CliShape DEF Start, Sending, Send, Local, Exit, daemon
<1>2. ASSUME pc'[p] = "waiting"
      PROVE  \A m \in msgs : m.cause # job'[p].rid
  <2>1. Sending(p)
    BY <1>0, <1>2, CliShape DEF Start, Local, Exit, Goto
  <2>2. job'[p].rid = job[p].rid /\ pc[p] \in {"ready", "send"}
    BY <1>0, <2>1 DEF Sending, Send, Job
  <2> QED
    BY <2>2 DEF SyncInv, TableInv, BaseInv, Exchange, Fresh
<1> QED
  BY <1>1, <1>2 DEF Alone, SyncInv, Told

LEMMA SyncedStep ==
  ASSUME LateReplies = FALSE, Alone, SyncInv, NEW p \in Procs, Cli(p)
  PROVE  SyncedIndexIsReal'
<1>0. /\ job \in [Procs -> Job] /\ pc \in [Procs -> PCs] /\ TypeInv
  BY DEF SyncInv, TableInv, BaseInv, TypeInv, TypeOK
<1> SUFFICES ASSUME pc'[p] = "ok", job'[p].cmd = "sync", NEW o \in Orders, rows'[o] # NoRow
             PROVE  rows'[o].key <= last'
  BY DEF Alone, SyncedIndexIsReal, Saved
<1>1. Local(p)
  BY <1>0, CliShape DEF Start, Sending, Send, Exit, Goto
<1>2. job[p].cmd = "sync"
  BY <1>1 DEF Local
<1>3. ~(SaveUser(p) \/ SaveStatus(p) \/ FollowUp(p))
  BY <1>2 DEF SaveUser, SaveStatus, FollowUp, SyncInv, InReach
<1>4. PICK m \in msgs : Receive(p, m) /\ ~Reject(p, m)
  BY <1>0, <1>3 DEF Cli, Start, SendNewOrder, SendTake, SendSync, SendRestore,
     SendOrdersInfo, Send, Prepare, BumpIndex, SendOrderMsg, SendInvoice,
     SendBondInvoice, SendRating, SendAsTrader, Exit, Reject, Goto
<1>5. ReceiveIndex(p, m)
  BY <1>2, <1>4 DEF Receive, ReceiveOrder, ReceiveStatus, ReceiveCanceled, ReceiveNotice,
     Accepted, OrderReplies, StatusReplies, Notices
<1>6. last' = m.idx /\ rows' = rows
  BY <1>0, <1>5 DEF ReceiveIndex, Goto
<1> QED
  BY <1>5, <1>6, SyncReply DEF Saved

(* What the daemon publishes tells a sync of all it has bound. *)
LEMMA ToldByDaemon ==
  ASSUME SyncInv, Daemon
  PROVE  Told'
<1>0. /\ UNCHANGED <<rows, pc, job>>
      /\ rows \in [Orders -> Row \cup {NoRow}] /\ dkey \in [Orders -> Nat] /\ seen \in Nat
      /\ \A r \in reqs : r.rid # NoId
      /\ \A o \in Orders : Saved(o) => rows[o].key <= seen
  BY OneBinding DEF SyncInv, TableInv, BaseInv, TypeInv, TypeOK, Exchange, Fresh, Bound, NoId,
     Kept
<1>1. ASSUME NEW m \in msgs', m \notin msgs, m.act = "LastTradeIndex"
      PROVE  m.cause # NoId /\ m.idx = seen
  <2>1. ASSUME NEW r \in reqs, NEW out, Handled(r, out) PROVE m \in out
    BY <1>1, <2>1 DEF Handled
  <2>2. ASSUME NEW r \in reqs, Refuse(r) PROVE FALSE
    BY <1>1, <2>1, <2>2 DEF Refuse, Reply
  <2>3. ASSUME NEW r \in reqs, DaemonTrade(r) PROVE FALSE
    <3>1. ASSUME NEW o, NEW act \in TakeReplies \cup {"NewOrder"},
                 Handled(r, {Reply(r, act, o, 0)})
          PROVE  FALSE
      <4>1. m = Reply(r, act, o, 0)
        BY <2>1, <3>1
      <4>2. m.act = act
        BY <4>1 DEF Reply
      <4> QED
        BY <1>1, <4>2, RepliesAssumption DEF OrderReplies
    <3> QED
      BY <2>2, <2>3, <3>1 DEF DaemonTrade
  <2>4. ASSUME NEW r \in reqs, DaemonOrder(r) PROVE FALSE
    <3> DEFINE answer == Reply(r, DaemonAnswer(r.cmd), r.order, 0)
    <3>1. answer.act # "LastTradeIndex"
      BY <2>4 DEF DaemonOrder, DaemonAnswer, Reply, OrderCmds, MsgCmds, NextTradeCmds
    <3> HIDE DEF answer
    <3>2. ~Handled(r, {answer})
      BY <1>1, <2>1, <3>1
    <3>3. ASSUME NEW c, NEW id,
                 Handled(r, {answer, [act |-> "NewOrder", order |-> c, to |-> r.idx,
                                      req |-> id, cause |-> r.rid, idx |-> 0]})
          PROVE  FALSE
      BY <1>1, <2>1, <3>1, <3>3
    <3> QED
      BY <2>2, <2>4, <3>2, <3>3 DEF DaemonOrder, answer
  <2>5. ASSUME NEW r \in reqs, DaemonBond(r) PROVE FALSE
    BY <1>1, <2>1, <2>2, <2>5 DEF DaemonBond
  <2>6. ASSUME NEW r \in reqs, DaemonAccount(r)
        PROVE  m.cause # NoId /\ m.idx = seen
    BY <1>0, <1>1, <2>1, <2>2, <2>6 DEF DaemonAccount, Reply
  <2>7. ASSUME NEW o \in Orders, NEW act \in Pushes, DaemonPush(o, act) PROVE FALSE
    BY <1>1, <2>7, RepliesAssumption DEF DaemonPush
  <2> QED
    BY <2>3, <2>4, <2>5, <2>6, <2>7 DEF Daemon
<1> QED
  BY <1>0, <1>1 DEF SyncInv, Told, Saved

LEMMA SyncInvariance ==
  ASSUME Alone, LateReplies = FALSE
  PROVE  Spec => []SyncInv
<1>1. SyncInv /\ [Next]_vars => SyncInv'
  <2> SUFFICES ASSUME SyncInv, [Next]_vars PROVE SyncInv'
    OBVIOUS
  <2>0. TableInv' /\ OwnIndex'
    BY TableKept, OwnIndexStep DEF Steady, SyncInv, TableInv
  <2>1. CASE UNCHANGED vars
    BY <2>0, <2>1 DEF vars, SyncInv, InReach, Told, KeyCoverage, SyncedIndexIsReal, Saved
  <2>2. ASSUME NEW p \in Procs, Cli(p) PROVE SyncInv'
    BY <2>0, <2>2, InReachStep, ToldStep, CoverageStep, SyncedStep DEF SyncInv
  <2>3. CASE Daemon
    <3>1. UNCHANGED <<last, rows, pc, job>>
      BY <2>3, OneBinding DEF SyncInv, TableInv, BaseInv
    <3>2. InReach' /\ KeyCoverage' /\ SyncedIndexIsReal'
      BY <3>1 DEF SyncInv, InReach, KeyCoverage, SyncedIndexIsReal, Saved
    <3> QED
      BY <2>0, <2>3, <3>2, ToldByDaemon DEF SyncInv
  <2> QED
    BY <2>1, <2>2, <2>3 DEF Next
<1> QED
  BY <1>1, SyncInit, PTL DEF Spec

(* One command at a time and no late reply: every saved order is within    *)
(* the keys getdm scans, whichever write of the index fails.               *)
THEOREM OrdersInReach ==
  ASSUME Alone, LateReplies = FALSE
  PROVE  Spec => []KeyCoverage
<1>1. SyncInv => KeyCoverage
  BY DEF SyncInv
<1> QED
  BY <1>1, SyncInvariance, PTL

(* In the same case, a getlasttradeindex that reports success leaves an    *)
(* index that is not behind any saved order's key.                         *)
THEOREM SyncTellsTheTruth ==
  ASSUME Alone, LateReplies = FALSE
  PROVE  Spec => []SyncedIndexIsReal
<1>1. SyncInv => SyncedIndexIsReal
  BY DEF SyncInv
<1> QED
  BY <1>1, SyncInvariance, PTL
=============================================================================
