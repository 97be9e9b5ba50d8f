-------------------------- MODULE AttachmentUpload --------------------------
(***************************************************************************)
(* sendadmindmattach: check a file, read and encrypt it, offer the blob to *)
(* a list of Blossom servers until one answers with a usable address, and  *)
(* send that address to the admin.  Servers and file are external: a       *)
(* server that answers 200 has stored the blob whatever becomes of its     *)
(* answer, and one that does not answer may have.                          *)
(***************************************************************************)
EXTENDS Naturals

CONSTANTS Servers   \* length of BLOSSOM_SERVERS

ASSUME ServersAssumption == Servers \in Nat \ {0}

Types == <<"application/zip", "image/png">>
Sizes == {"small", "tooLarge"}

VARIABLES
  pc,
  file,    \* size of the file on disk, which others may change
  edited,  \* was the file written between the check and the read?
  blob,    \* size of what was read, "none" before
  server,  \* index of the server being tried
  type,    \* index of the content type being tried
  stored,  \* servers that keep a copy
  tried,   \* servers that were offered the blob, or passed over
  url,     \* server whose address was returned, 0 if none
  told     \* server whose address the admin was sent, 0 if none

vars == <<pc, file, edited, blob, server, type, stored, tried, url, told>>
upload == <<server, type, stored, tried, url>>

(* Types; the loops stay within the lists of servers and content types. *)
TypeOK ==
  /\ pc \in {"check", "read", "order", "put", "body", "send", "done", "failed", "exhausted"}
  /\ file \in Sizes
  /\ edited \in BOOLEAN
  /\ blob \in Sizes \cup {"none"}
  /\ server \in 1..Servers
  /\ type \in DOMAIN Types
  /\ stored \subseteq 1..Servers
  /\ tried \subseteq 1..Servers
  /\ url \in 0..Servers
  /\ told \in 0..Servers

Init ==
  /\ pc = "check"
  /\ file \in Sizes
  /\ edited = FALSE
  /\ blob = "none"
  /\ server = 1 /\ type = 1
  /\ stored = {} /\ tried = {}
  /\ url = 0 /\ told = 0

(* Mutant: the size is left to the servers to judge. *)
MutCheckFile ==
  /\ pc = "check"
  /\ pc' \in {"failed", "read"}
  /\ UNCHANGED <<file, edited, blob, upload, told>>

(* Metadata first: a regular file, and not too large. *)
CheckFile ==
  /\ pc = "check"
  /\ pc' \in {"failed"} \cup (IF file = "small" THEN {"read"} ELSE {})
  /\ UNCHANGED <<file, edited, blob, upload, told>>

ReadFile ==
  /\ pc = "read"
  /\ \/ pc' = "order" /\ blob' = file
     \/ pc' = "failed" /\ UNCHANGED blob
  /\ UNCHANGED <<file, edited, upload, told>>

(* The order's trade key, the shared key and the encryption. *)
LoadOrderAndEncrypt ==
  /\ pc = "order"
  /\ pc' \in {"put", "failed"}
  /\ UNCHANGED <<file, edited, blob, upload, told>>

(* Mutant: the list is overrun. *)
MutNextServerOverrun ==
  /\ pc' = "put"
  /\ server' = server + 1
  /\ type' = 1

(* On to the next server, or out of servers. *)
NextServer ==
  /\ IF server = Servers
     THEN pc' = "exhausted" /\ UNCHANGED server
     ELSE pc' = "put" /\ server' = server + 1
  /\ type' = 1

(* A server whose address or authorisation cannot be built is skipped. *)
SkipServer ==
  /\ pc = "put" /\ type = 1
  /\ tried' = tried \cup {server}
  /\ NextServer
  /\ UNCHANGED <<file, edited, blob, stored, url, told>>

(* Mutant: whatever the server answers, the other type is tried, too. *)
MutPut ==
  /\ pc = "put"
  /\ tried' = tried \cup {server}
  /\ UNCHANGED <<file, edited, blob, url, told>>
  /\ \/ stored' = stored \cup {server} /\ pc' = "body"
        /\ UNCHANGED <<server, type>>
     \/ /\ stored' \in {stored, stored \cup {server}}
        /\ IF type < 2
           THEN type' = type + 1 /\ UNCHANGED <<pc, server>>
           ELSE NextServer

(* PUT /upload.  Only 400 and 415 lead to another content type. *)
Put ==
  /\ pc = "put"
  /\ tried' = tried \cup {server}
  /\ UNCHANGED <<file, edited, blob, url, told>>
  /\ \/ (* 200 *)
        /\ stored' = stored \cup {server}
        /\ pc' = "body"
        /\ UNCHANGED <<server, type>>
     \/ (* 400 or 415 *)
        /\ UNCHANGED stored
        /\ IF type < 2
           THEN type' = type + 1 /\ UNCHANGED <<pc, server>>
           ELSE NextServer
     \/ (* another status, or no answer *)
        /\ stored' \in {stored, stored \cup {server}}
        /\ NextServer

(* Mutant: the body is taken for an address whatever it is. *)
MutReadBody ==
  /\ pc = "body"
  /\ \/ url' = server /\ pc' = "send" /\ UNCHANGED <<server, type>>
     \/ url' = 0 /\ pc' = "send" /\ UNCHANGED <<server, type>>
  /\ UNCHANGED <<file, edited, blob, stored, tried, told>>

(* The body of a 200: an address, something else, or unreadable; the last  *)
(* of these ends the whole command.                                        *)
ReadBody ==
  /\ pc = "body"
  /\ \/ url' = server /\ pc' = "send" /\ UNCHANGED <<server, type>>
     \/ NextServer /\ UNCHANGED url
     \/ pc' = "failed" /\ UNCHANGED <<server, type, url>>
  /\ UNCHANGED <<file, edited, blob, stored, tried, told>>

SendDm ==
  /\ pc = "send"
  /\ \/ pc' = "done" /\ told' = url
     \/ pc' = "failed" /\ UNCHANGED told
  /\ UNCHANGED <<file, edited, blob, upload>>

(* External: another program writes the file. *)
WriteFile ==
  /\ file' \in Sizes
  /\ edited' = (edited \/ pc = "read")
  /\ UNCHANGED <<pc, blob, upload, told>>

Next ==
  \/ CheckFile \/ ReadFile \/ LoadOrderAndEncrypt
  \/ SkipServer \/ Put \/ ReadBody \/ SendDm
  \/ WriteFile

Spec == Init /\ [][Next]_vars

-----------------------------------------------------------------------------
(* What the command reports is true.  The admin is only ever told an       *)
(* address where the blob is; reported success means the admin was told;   *)
(* "all Blossom servers failed" is said when none was left to try and none *)
(* of them gave an address.                                                *)
ReportIsTrue ==
  /\ told # 0 => told \in stored
  /\ pc = "done" => told # 0
  /\ pc = "exhausted" => tried = 1..Servers /\ url = 0

(* A server only ever holds what the check let through, unless somebody    *)
(* wrote the file after the check and before it was read.                  *)
StoredWasChecked == stored # {} => blob = "small" \/ edited

(* "Enforces a hard size limit" (send_admin_dm_attach_flow.md:51): nothing *)
(* larger is ever stored at a server.                                      *)
SizeLimitHolds == stored # {} => blob = "small"

(* "Tries application/zip, then image/png if the server responds with      *)
(* 400/415" (send_admin_dm_attach_flow.md:313): a second attempt is never  *)
(* made at a server that may have kept the first one's copy.               *)
NoSecondCopy == pc = "put" => server \notin stored

(* "no usable response: logs error and tries next server"                  *)
(* (send_admin_dm_attach_flow.md:319): while a server is left, a server's  *)
(* answer does not end the upload.                                         *)
EveryServerIsTried ==
  [][pc = "body" /\ pc' = "failed" => server = Servers]_vars

=============================================================================
