----------------------- MODULE AttachmentUploadProofs -----------------------
(***************************************************************************)
(* AttachmentUpload for any number of servers and any answers.  While the  *)
(* loop runs, the servers before the current one have been tried and the   *)
(* current one keeps nothing yet.                                          *)
(***************************************************************************)
EXTENDS AttachmentUpload, TLAPS

Before == {"check", "read", "order"}

(* The loop over the servers. *)
Loop ==
  /\ pc \in Before => stored = {}
  /\ pc \in Before => server = 1
  /\ pc = "put"  => 1..(server - 1) \subseteq tried /\ stored \subseteq 1..(server - 1)
  /\ pc = "body" => 1..server \subseteq tried /\ server \in stored /\ stored \subseteq 1..server
  /\ pc = "exhausted" => tried = 1..Servers

(* The address on its way to the admin. *)
Address ==
  /\ pc \in {"send", "done"} => url # 0
  /\ pc \notin {"send", "done", "failed"} => url = 0
  /\ url # 0 => url \in stored
  /\ told # 0 => told = url
  /\ pc = "done" => told = url

(* The file between its check and its being read. *)
Checked ==
  /\ pc = "read" => file = "small" \/ edited
  /\ pc \notin {"check", "read", "failed"} => blob = "small" \/ edited
  /\ stored # {} => blob = "small" \/ edited

IInv == TypeOK /\ Loop /\ Address /\ Checked

-----------------------------------------------------------------------------
LEMMA InitInv == Init => IInv
<1> SUFFICES ASSUME Init PROVE IInv
  OBVIOUS
<1>1. 1 \in 1..Servers /\ 0 \in 0..Servers /\ 1 \in DOMAIN Types
  BY ServersAssumption DEF Types
<1> QED
  BY <1>1 DEF Init, IInv, TypeOK, Loop, Before, Address, Checked

(* The steps outside the loop. *)
LEMMA CheckFileInv == ASSUME IInv, CheckFile PROVE IInv'
BY DEF CheckFile, upload, IInv, TypeOK, Loop, Before, Address, Checked

LEMMA ReadFileInv == ASSUME IInv, ReadFile PROVE IInv'
BY DEF ReadFile, upload, IInv, TypeOK, Loop, Before, Address, Checked

LEMMA LoadInv == ASSUME IInv, LoadOrderAndEncrypt PROVE IInv'
BY DEF LoadOrderAndEncrypt, upload, IInv, TypeOK, Loop, Before, Address, Checked

LEMMA SendDmInv == ASSUME IInv, SendDm PROVE IInv'
BY DEF SendDm, upload, IInv, TypeOK, Loop, Before, Address, Checked

LEMMA WriteFileInv == ASSUME IInv, WriteFile PROVE IInv'
BY DEF WriteFile, upload, IInv, TypeOK, Loop, Before, Address, Checked

-----------------------------------------------------------------------------
(* Once the current server has been tried, going on to the next one, or    *)
(* giving up after the last, keeps the loop's invariant.                   *)
LEMMA NextServerInv ==
  ASSUME IInv, pc \in {"put", "body"}, NextServer,
         1..server \subseteq tried', tried' \subseteq 1..Servers,
         stored' \subseteq 1..server,
         UNCHANGED <<file, edited, blob, url, told>>
  PROVE  IInv'
<1>1. server \in 1..Servers /\ Servers \in Nat /\ url = 0 /\ told = 0
  BY ServersAssumption DEF IInv, TypeOK, Address
<1>2. CASE server = Servers
  <2>1. pc' = "exhausted" /\ server' = server /\ type' = 1 /\ tried' = 1..Servers
    BY <1>2 DEF NextServer
  <2> QED
    BY <2>1, <1>1 DEF IInv, TypeOK, Types, Loop, Before, Address, Checked
<1>3. CASE server # Servers
  <2>1. pc' = "put" /\ server' = server + 1 /\ type' = 1
    BY <1>3 DEF NextServer
  <2>2. server' \in 1..Servers /\ server' - 1 = server
    BY <2>1, <1>1, <1>3
  <2>3. stored' \subseteq 1..Servers
    BY <1>1
  <2> QED
    BY <2>1, <2>2, <2>3, <1>1 DEF IInv, TypeOK, Types, Loop, Before, Address, Checked
<1> QED
  BY <1>2, <1>3

LEMMA Tried ==
  ASSUME IInv, pc = "put", tried' = tried \cup {server}
  PROVE  /\ 1..server \subseteq tried'
         /\ tried' \subseteq 1..Servers
         /\ stored \subseteq 1..server
         /\ server \in 1..server
<1>1. server \in Nat /\ server >= 1 /\ 1..server = 1..(server - 1) \cup {server}
  BY ServersAssumption DEF IInv, TypeOK
<1> QED
  BY <1>1 DEF IInv, TypeOK, Loop

LEMMA SkipServerInv == ASSUME IInv, SkipServer PROVE IInv'
<1>1. pc = "put" /\ tried' = tried \cup {server} /\ stored' = stored
  BY DEF SkipServer
<1> QED
  BY <1>1, Tried, NextServerInv DEF SkipServer

LEMMA PutInv == ASSUME IInv, Put PROVE IInv'
<1>1. /\ pc = "put" /\ tried' = tried \cup {server}
      /\ UNCHANGED <<file, edited, blob, url, told>>
  BY DEF Put
<1>2. /\ 1..server \subseteq tried' /\ tried' \subseteq 1..Servers
      /\ stored \subseteq 1..server /\ server \in 1..server
      /\ stored \cup {server} \subseteq 1..Servers
  BY <1>1, Tried DEF IInv, TypeOK
<1>3. CASE NextServer /\ stored' \in {stored, stored \cup {server}}
  BY <1>1, <1>2, <1>3, NextServerInv
<1>4. CASE stored' = stored \cup {server} /\ pc' = "body" /\ UNCHANGED <<server, type>>
  BY <1>1, <1>2, <1>4 DEF IInv, TypeOK, Loop, Before, Address, Checked
<1>5. CASE type < 2 /\ type' = type + 1 /\ UNCHANGED <<pc, server, stored>>
  <2>1. type' \in DOMAIN Types
    BY <1>5 DEF IInv, TypeOK, Types
  <2> QED
    BY <2>1, <1>1, <1>2, <1>5 DEF IInv, TypeOK, Loop, Before, Address, Checked
<1> QED
  BY <1>3, <1>4, <1>5 DEF Put

LEMMA ReadBodyInv == ASSUME IInv, ReadBody PROVE IInv'
<1>1. /\ pc = "body"
      /\ UNCHANGED <<file, edited, blob, stored, tried, told>>
  BY DEF ReadBody
<1>2. CASE url' = server /\ pc' = "send" /\ UNCHANGED <<server, type>>
  <2>1. server # 0 /\ server \in 0..Servers
    BY ServersAssumption DEF IInv, TypeOK
  <2> QED
    BY <2>1, <1>1, <1>2 DEF IInv, TypeOK, Loop, Before, Address, Checked
<1>3. CASE NextServer /\ UNCHANGED url
  BY <1>1, <1>3, NextServerInv DEF IInv, TypeOK, Loop
<1>4. CASE pc' = "failed" /\ UNCHANGED <<server, type, url>>
  BY <1>1, <1>4 DEF IInv, TypeOK, Loop, Before, Address, Checked
<1> QED
  BY <1>2, <1>3, <1>4 DEF ReadBody

LEMMA Invariance == Spec => []IInv
<1>1. ASSUME IInv, [Next]_vars PROVE IInv'
  <2>1. CASE UNCHANGED vars
    BY <2>1, <1>1 DEF vars, IInv, TypeOK, Loop, Before, Address, Checked
  <2> QED
    BY <2>1, <1>1, CheckFileInv, ReadFileInv, LoadInv, SkipServerInv, PutInv,
       ReadBodyInv, SendDmInv, WriteFileInv DEF Next
<1> QED
  BY <1>1, InitInv, PTL DEF Spec

-----------------------------------------------------------------------------
(* The variables keep their types: the loops stay within their lists. *)
THEOREM TypeCorrect == Spec => []TypeOK
BY Invariance, PTL DEF IInv

(* With any servers and answers, the admin is only told an address where   *)
(* the blob is, and failure of all servers is reported when all were tried *)
(* (execute_send_admin_dm_attach, upload_to_blossom).                      *)
THEOREM ReportIsTrueAlways == Spec => []ReportIsTrue
<1>1. IInv => ReportIsTrue
  BY DEF IInv, Loop, Address, ReportIsTrue
<1> QED
  BY Invariance, <1>1, PTL

(* No blob is offered to a server that may keep one already                *)
(* (upload_to_blossom's loop over content types).                          *)
THEOREM NoSecondCopyAlways == Spec => []NoSecondCopy
<1>1. IInv => NoSecondCopy
  BY ServersAssumption DEF IInv, TypeOK, Loop, NoSecondCopy
<1> QED
  BY Invariance, <1>1, PTL

(* The size check holds for what is stored unless the file was written     *)
(* behind it.                                                              *)
THEOREM StoredWasCheckedAlways == Spec => []StoredWasChecked
<1>1. IInv => StoredWasChecked
  BY DEF IInv, Checked, StoredWasChecked
<1> QED
  BY Invariance, <1>1, PTL
=============================================================================
