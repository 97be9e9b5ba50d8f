------------------------- MODULE AdminDisputeProofs -------------------------
(***************************************************************************)
(* AdminDispute for any processes, disputes and number of requests.  A     *)
(* reply that grants a resolution was earned by some request of this       *)
(* admin, and a resolution, once granted, is final.                        *)
(***************************************************************************)
EXTENDS AdminDispute, FiniteSetTheorems, TLAPS

Final == {"cancel", "settle"}

(* Some request of this kind was granted. *)
Granted(c) == \E j \in asked : j.cmd = c /\ state[j.dispute] = Done[c]

Earned ==
  \A r \in replies, c \in Final :
    r.from = "mostro" /\ r.act = Done[c] => Granted(c)

Succeeded ==
  \A p \in Procs : pc[p] = "success" /\ job[p].cmd \in Final => Granted(job[p].cmd)

IInv ==
  /\ TypeOK
  /\ IsFiniteSet(asked)
  /\ Earned
  /\ Succeeded

-----------------------------------------------------------------------------
LEMMA InitInv == Init => IInv
BY FS_EmptySet DEF Init, IInv, TypeOK, Earned, Succeeded, Job, NoCmd, Reply

(* What is granted stays granted when requests are added and no dispute    *)
(* changes its state.                                                      *)
LEMMA GrantedStays ==
  ASSUME NEW c, asked \subseteq asked', state' = state, Granted(c)
  PROVE  Granted(c)'
BY DEF Granted

LEMMA Quiet ==
  ASSUME IInv, UNCHANGED <<replies, state>>, asked \subseteq asked'
  PROVE  Earned'
BY GrantedStays DEF IInv, Earned

(* A process that ends up with anything but success does no harm. *)
LEMMA OneProcess ==
  ASSUME IInv, NEW p \in Procs, NEW l \in {"idle", "waiting", "success", "error"},
         Goto(p, l), NEW j \in Job \cup {NoCmd}, job' = [job EXCEPT ![p] = j],
         l # "idle" => j \in Job,
         l = "success" /\ j.cmd \in Final => Granted(j.cmd),
         UNCHANGED <<replies, state>>, asked \subseteq asked', asked' \subseteq Job,
         reqs' \subseteq asked', IsFiniteSet(asked')
  PROVE  IInv'
<1>1. TypeOK'
  BY DEF IInv, TypeOK, Goto
<1>2. Succeeded'
  <2> SUFFICES ASSUME NEW q \in Procs, NEW c \in Final, pc'[q] = "success", job'[q].cmd = c
               PROVE  Granted(c)'
    BY DEF Succeeded, Granted
  <2>1. Granted(c)
    BY DEF IInv, TypeOK, Goto, Succeeded
  <2> QED
    BY <2>1, GrantedStays
<1> QED
  BY <1>1, <1>2, Quiet DEF IInv

LEMMA NoAdminKeyInv == ASSUME IInv, NEW p \in Procs, NoAdminKey(p) PROVE IInv'
<1>1. PICK c \in Cmds \cup {"addSolver"}, d \in Disputes :
        job' = [job EXCEPT ![p] = [cmd |-> c, dispute |-> d, n |-> 0]]
  BY DEF NoAdminKey
<1>2. [cmd |-> c, dispute |-> d, n |-> 0] \in Job
  BY DEF Job
<1> QED
  BY <1>1, <1>2, OneProcess DEF NoAdminKey, IInv, TypeOK

LEMMA SendInv ==
  ASSUME IInv, NEW p \in Procs, NEW cmds \in SUBSET (Cmds \cup {"addSolver"}), Send(p, cmds),
         NEW l \in {"waiting", "success"}, Goto(p, l),
         l = "success" => cmds \cap Final = {}
  PROVE  IInv'
<1>1. PICK c \in cmds, d \in Disputes :
        LET j == [cmd |-> c, dispute |-> d, n |-> Cardinality(asked) + 1]
        IN  job' = [job EXCEPT ![p] = j] /\ asked' = asked \cup {j} /\ reqs' = reqs \cup {j}
  BY DEF Send
<1> DEFINE j == [cmd |-> c, dispute |-> d, n |-> Cardinality(asked) + 1]
<1>2. j \in Job
  BY FS_CardinalityType DEF IInv, Job
<1>3. IsFiniteSet(asked')
  BY <1>1, FS_AddElement DEF IInv
<1> HIDE DEF j
<1>4. job' = [job EXCEPT ![p] = j] /\ asked' = asked \cup {j} /\ reqs' = reqs \cup {j}
  BY <1>1 DEF j
<1>5. l = "success" => j.cmd \notin Final
  BY DEF j
<1>6. UNCHANGED <<replies, state>>
  BY DEF Send
<1> QED
  BY <1>2, <1>3, <1>4, <1>5, <1>6, OneProcess DEF IInv, TypeOK

LEMMA ReceiveInv == ASSUME IInv, NEW p \in Procs, Receive(p) PROVE IInv'
<1>1. PICK r \in replies : Goto(p, IF Succeeds(job[p], r) THEN "success" ELSE "error")
  BY DEF Receive
<1>2. job[p] \in Job /\ job' = [job EXCEPT ![p] = job[p]]
  BY DEF Receive, IInv, TypeOK
<1>3. Succeeds(job[p], r) /\ job[p].cmd \in Final => Granted(job[p].cmd)
  BY DEF Succeeds, IInv, Earned
<1>4. UNCHANGED <<asked, reqs, replies, state>>
  BY DEF Receive
<1>5. CASE Succeeds(job[p], r)
  <2>1. Goto(p, "success")
    BY <1>1, <1>5
  <2> QED
    BY <2>1, <1>2, <1>3, <1>4, <1>5, OneProcess DEF IInv, TypeOK
<1>6. CASE ~Succeeds(job[p], r)
  <2>1. Goto(p, "error")
    BY <1>1, <1>6
  <2> QED
    BY <2>1, <1>2, <1>4, OneProcess DEF IInv, TypeOK
<1> QED
  BY <1>5, <1>6

LEMMA NoReplyInv == ASSUME IInv, NEW p \in Procs, NoReply(p) PROVE IInv'
<1>1. job[p] \in Job /\ job' = [job EXCEPT ![p] = job[p]]
  BY DEF NoReply, IInv, TypeOK
<1> QED
  BY <1>1, OneProcess DEF NoReply, IInv, TypeOK

LEMMA ExitInv == ASSUME IInv, NEW p \in Procs, Exit(p) PROVE IInv'
BY OneProcess DEF Exit, IInv, TypeOK

-----------------------------------------------------------------------------
(* The daemon grants what is allowed, and only disputes that are open or   *)
(* taken change.                                                           *)
LEMMA DaemonInv == ASSUME IInv, DaemonHandle PROVE IInv'
<1>1. PICK j \in reqs :
        /\ reqs' = reqs \ {j}
        /\ \/ /\ j.cmd \in Cmds /\ Allowed(j)
              /\ state' = [state EXCEPT ![j.dispute] = Done[j.cmd]]
              /\ replies' = replies \cup {[from |-> "mostro", act |-> Done[j.cmd], n |-> j.n]}
           \/ /\ UNCHANGED state
              /\ \E a \in {"added", "CantDo"} :
                   replies' = replies \cup {[from |-> "mostro", act |-> a, n |-> j.n]}
  BY DEF DaemonHandle
<1>2. UNCHANGED <<pc, job, asked>> /\ j \in Job /\ j \in asked
  BY <1>1 DEF DaemonHandle, IInv, TypeOK
<1>3. j.cmd \in Cmds => Done[j.cmd] \in {"taken", "canceled", "settled"}
  BY DEF Cmds, Done
<1>4. TypeOK'
  <2>1. replies' \subseteq Reply
    BY <1>1, <1>2, <1>3 DEF IInv, TypeOK, Reply, Acts, Job
  <2>2. state' \in [Disputes -> {"open", "taken", "canceled", "settled"}]
    BY <1>1, <1>2, <1>3 DEF IInv, TypeOK
  <2> QED
    BY <2>1, <2>2, <1>1, <1>2 DEF IInv, TypeOK
<1>5. ASSUME NEW c \in Final, Granted(c) PROVE Granted(c)'
  <2>1. PICK k \in asked : k.cmd = c /\ state[k.dispute] = Done[c]
    BY <1>5 DEF Granted
  <2>2. k \in Job /\ Done[c] \in {"canceled", "settled"}
    BY <2>1 DEF IInv, TypeOK, Final, Done
  <2>3. state'[k.dispute] = Done[c]
    <3>1. CASE UNCHANGED state
      BY <3>1, <2>1
    <3>2. CASE Allowed(j) /\ state' = [state EXCEPT ![j.dispute] = Done[j.cmd]]
      <4>1. state[j.dispute] \in {"open", "taken"}
        BY <3>2 DEF Allowed
      <4>2. k.dispute # j.dispute
        BY <4>1, <2>1, <2>2
      <4> QED
        BY <4>2, <3>2, <2>1, <2>2 DEF IInv, TypeOK, Job
    <3> QED
      BY <3>1, <3>2, <1>1
  <2> QED
    BY <2>1, <2>3, <1>2 DEF Granted
<1>6. Earned'
  <2> SUFFICES ASSUME NEW r \in replies', NEW c \in Final, r.from = "mostro", r.act = Done[c]
               PROVE  Granted(c)'
    BY DEF Earned
  <2>1. CASE r \in replies
    BY <2>1, <1>5 DEF IInv, Earned
  <2>2. CASE r \notin replies
    <3>1. /\ j.cmd \in Cmds
          /\ state' = [state EXCEPT ![j.dispute] = Done[j.cmd]]
          /\ r.act = Done[j.cmd]
      BY <2>2, <1>1 DEF Final, Done
    <3>2. j.cmd = c
      BY <3>1 DEF Final, Cmds, Done
    <3>3. state'[j.dispute] = Done[c]
      BY <3>1, <3>2, <1>2 DEF IInv, TypeOK, Job
    <3> QED
      BY <3>2, <3>3, <1>2 DEF Granted
  <2> QED
    BY <2>1, <2>2
<1>7. Succeeded'
  BY <1>2, <1>5 DEF IInv, Succeeded
<1> QED
  BY <1>2, <1>4, <1>6, <1>7 DEF IInv

LEMMA UserMessageInv == ASSUME IInv, UserMessage PROVE IInv'
<1>1. TypeOK'
  BY DEF UserMessage, IInv, TypeOK, Reply, Acts
<1>2. Earned'
  BY DEF UserMessage, IInv, Earned, Granted
<1>3. Succeeded'
  BY DEF UserMessage, IInv, Succeeded, Granted
<1> QED
  BY <1>1, <1>2, <1>3 DEF UserMessage, IInv

LEMMA Invariance == Spec => []IInv
<1>1. ASSUME IInv, [Next]_vars PROVE IInv'
  <2>1. ASSUME NEW p \in Procs, NoAdminKey(p) PROVE IInv'
    BY <2>1, <1>1, NoAdminKeyInv
  <2>2. ASSUME NEW p \in Procs, Request(p) PROVE IInv'
    BY <2>2, <1>1, SendInv DEF Request
  <2>3. ASSUME NEW p \in Procs, AddSolver(p) PROVE IInv'
    BY <2>3, <1>1, SendInv DEF AddSolver, Final
  <2>4. ASSUME NEW p \in Procs, Receive(p) PROVE IInv'
    BY <2>4, <1>1, ReceiveInv
  <2>5. ASSUME NEW p \in Procs, NoReply(p) PROVE IInv'
    BY <2>5, <1>1, NoReplyInv
  <2>6. ASSUME NEW p \in Procs, Exit(p) PROVE IInv'
    BY <2>6, <1>1, ExitInv
  <2>7. CASE DaemonHandle
    BY <2>7, <1>1, DaemonInv
  <2>8. CASE UserMessage
    BY <2>8, <1>1, UserMessageInv
  <2>9. CASE UNCHANGED vars
    BY <2>9, <1>1 DEF vars, IInv, TypeOK, Earned, Succeeded, Granted
  <2> QED
    BY <1>1, <2>1, <2>2, <2>3, <2>4, <2>5, <2>6, <2>7, <2>8, <2>9 DEF Next
<1> QED
  BY <1>1, InitInv, PTL DEF Spec

-----------------------------------------------------------------------------
(* The variables keep their types. *)
THEOREM TypeCorrect == Spec => []TypeOK
BY Invariance, PTL DEF IInv

(* However many admin commands run and however late the replies are, a     *)
(* reported success was one of this kind (execute_admin_cancel_dispute,    *)
(* execute_admin_settle_dispute).                                          *)
THEOREM SuccessIsOfItsKindAlways == Spec => []SuccessIsOfItsKind
<1>1. IInv => SuccessIsOfItsKind
  BY DEF IInv, TypeOK, Succeeded, Granted, Final, Job, SuccessIsOfItsKind
<1> QED
  BY Invariance, <1>1, PTL

(* ... and of this very dispute while no other dispute was sent the same   *)
(* command.                                                                *)
THEOREM SuccessIsRealIfAloneAlways == Spec => []SuccessIsRealIfAlone
<1>1. IInv => SuccessIsRealIfAlone
  BY DEF IInv, Succeeded, Granted, Final, SuccessIsRealIfAlone
<1> QED
  BY Invariance, <1>1, PTL
=============================================================================
