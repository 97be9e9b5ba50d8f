---------------------------- MODULE AdminDispute ----------------------------
(***************************************************************************)
(* The admin commands on disputes (admtakedispute, admcancel, admsettle):  *)
(* each sends one request signed with the admin key, waits for one message *)
(* to that key, and judges it by sender and action.  Admin requests carry  *)
(* no request id, and the admin key, unlike trade keys, never changes.     *)
(* admaddsolver sends and does not wait: the answer to it stays on that    *)
(* key for whichever command waits next.                                   *)
(***************************************************************************)
EXTENDS Naturals, FiniteSets

CONSTANTS
  Procs,        \* admin commands that may run at the same time
  Disputes,
  MaxRequests   \* bound: commands of a behaviour

ASSUME AdminAssumption == MaxRequests \in Nat

Cmds  == {"take", "cancel", "settle"}

(* Mutant: the wrong action is expected of a settlement. *)
MutDone == [take |-> "taken", cancel |-> "canceled", settle |-> "released"]

Done  == [take |-> "taken", cancel |-> "canceled", settle |-> "settled"]
Acts  == {"taken", "canceled", "settled", "added", "CantDo", "SendDm"}
NoCmd == [cmd |-> "none"]

VARIABLES
  pc,      \* "idle", "waiting", "success", "error"
  job,     \* command, dispute and request number of each process
  asked,   \* all requests ever sent
  reqs,    \* requests the daemon has not handled
  replies, \* messages to the admin key
  state    \* daemon: state of each dispute

vars == <<pc, job, asked, reqs, replies, state>>

Job   == [cmd : Cmds \cup {"addSolver"}, dispute : Disputes, n : Nat]
Reply == [from : {"mostro", "user"}, act : Acts, n : Nat]

(* Types; a command that runs has a request of its own. *)
TypeOK ==
  /\ pc \in [Procs -> {"idle", "waiting", "success", "error"}]
  /\ job \in [Procs -> Job \cup {NoCmd}]
  /\ \A p \in Procs : pc[p] # "idle" => job[p] \in Job
  /\ asked \subseteq Job
  /\ reqs \subseteq asked
  /\ replies \subseteq Reply
  /\ state \in [Disputes -> {"open", "taken", "canceled", "settled"}]

Init ==
  /\ pc = [p \in Procs |-> "idle"]
  /\ job = [p \in Procs |-> NoCmd]
  /\ asked = {}
  /\ reqs = {}
  /\ replies = {}
  /\ state = [d \in Disputes |-> "open"]

Goto(p, l) == pc' = [pc EXCEPT ![p] = l]

(* Without ADMIN_NSEC the command fails before it sends anything, and so   *)
(* does admaddsolver when it cannot publish.                               *)
NoAdminKey(p) ==
  /\ pc[p] = "idle"
  /\ \E c \in Cmds \cup {"addSolver"}, d \in Disputes :
       job' = [job EXCEPT ![p] = [cmd |-> c, dispute |-> d, n |-> 0]]
  /\ Goto(p, "error")
  /\ UNCHANGED <<asked, reqs, replies, state>>

Send(p, cmds) ==
  /\ pc[p] = "idle"
  /\ Cardinality(asked) < MaxRequests
  /\ \E c \in cmds, d \in Disputes :
       LET j == [cmd |-> c, dispute |-> d, n |-> Cardinality(asked) + 1]
       IN  /\ job' = [job EXCEPT ![p] = j]
           /\ asked' = asked \cup {j}
           /\ reqs' = reqs \cup {j}
  /\ UNCHANGED <<replies, state>>

Request(p) == Send(p, Cmds) /\ Goto(p, "waiting")

(* "Solver added successfully" as soon as the request is published. *)
AddSolver(p) == Send(p, {"addSolver"}) /\ Goto(p, "success")

(* Mutant: whatever the daemon answers, short of a refusal, is a success.  *)
MutSucceeds(j, r) == r.from = "mostro" /\ r.act # "CantDo"

Succeeds(j, r) == r.from = "mostro" /\ r.act = Done[j.cmd]

(* Any message to the admin key, this command's reply or an older one. *)
Receive(p) ==
  /\ pc[p] = "waiting"
  /\ \E r \in replies : Goto(p, IF Succeeds(job[p], r) THEN "success" ELSE "error")
  /\ UNCHANGED <<job, asked, reqs, replies, state>>

(* wait_for_dm failed, or timed out. *)
NoReply(p) ==
  /\ pc[p] = "waiting"
  /\ Goto(p, "error")
  /\ UNCHANGED <<job, asked, reqs, replies, state>>

Exit(p) ==
  /\ pc[p] # "idle"
  /\ Goto(p, "idle")
  /\ job' = [job EXCEPT ![p] = NoCmd]
  /\ UNCHANGED <<asked, reqs, replies, state>>

-----------------------------------------------------------------------------
(* External: the daemon and the users. *)

Allowed(j) == state[j.dispute] = IF j.cmd = "take" THEN "open" ELSE "taken"

DaemonHandle ==
  \E j \in reqs :
    /\ reqs' = reqs \ {j}
    /\ \/ /\ j.cmd \in Cmds /\ Allowed(j)
          /\ state' = [state EXCEPT ![j.dispute] = Done[j.cmd]]
          /\ replies' = replies \cup {[from |-> "mostro", act |-> Done[j.cmd], n |-> j.n]}
       \/ /\ j.cmd = "addSolver"
          /\ UNCHANGED state
          /\ replies' = replies \cup {[from |-> "mostro", act |-> "added", n |-> j.n]}
       \/ /\ UNCHANGED state
          /\ replies' = replies \cup {[from |-> "mostro", act |-> "CantDo", n |-> j.n]}
    /\ UNCHANGED <<pc, job, asked>>

(* A user writes to the admin: on the gift-wrap transport that is the same *)
(* kind of event as the daemon's reply.                                    *)
UserMessage ==
  /\ replies' = replies \cup {[from |-> "user", act |-> "SendDm", n |-> 0]}
  /\ UNCHANGED <<pc, job, asked, reqs, state>>

Next ==
  \/ \E p \in Procs : \/ NoAdminKey(p) \/ Request(p) \/ AddSolver(p)
                       \/ Receive(p) \/ NoReply(p) \/ Exit(p)
  \/ DaemonHandle
  \/ UserMessage

Spec == Init /\ [][Next]_vars

-----------------------------------------------------------------------------
(* "so the success message is only printed when the cancel actually went   *)
(* through" (take_dispute.rs:92-93, and for settle 184-185).               *)
SuccessIsReal ==
  \A p \in Procs :
    pc[p] = "success" /\ job[p].cmd \in {"cancel", "settle"} =>
      state[job[p].dispute] = Done[job[p].cmd]

(* Whatever arrives late, a reported success means that this very kind of  *)
(* resolution was granted to this admin at some time: neither a refusal    *)
(* nor a reply to the opposite command is ever taken for it.               *)
SuccessIsOfItsKind ==
  \A p \in Procs :
    pc[p] = "success" /\ job[p].cmd \in {"cancel", "settle"} =>
      \E d \in Disputes : state[d] = Done[job[p].cmd]

(* And it means that this dispute was resolved so as long as this admin    *)
(* never sent the same command for another one: the answers to its other   *)
(* commands, admaddsolver's among them, can at most fail it.               *)
SuccessIsRealIfAlone ==
  \A p \in Procs :
    /\ pc[p] = "success" /\ job[p].cmd \in {"cancel", "settle"}
    /\ \A j \in asked : j.cmd = job[p].cmd => j.dispute = job[p].dispute
    => state[job[p].dispute] = Done[job[p].cmd]

=============================================================================
