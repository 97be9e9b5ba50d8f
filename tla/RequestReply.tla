---------------------------- MODULE RequestReply ----------------------------
(***************************************************************************)
(* What a command may rely on when it sends one request to the daemon and  *)
(* waits: exactly one outcome, an answer only out of what reached the      *)
(* client while it listened, and no claim that nothing came while          *)
(* something did.                                                          *)
(***************************************************************************)
CONSTANTS
  Mail,      \* messages the transport delivers to the trade key
  Pending, Timeout, PowUnmet, Error  \* outcomes that are not a message

VARIABLES
  powShort,  \* is the PoW sent below what an info event asks for?
  sent,      \* did the relays take the request?
  mail,      \* messages that reached the client while it listened
  outcome

vars == <<powShort, sent, mail, outcome>>

Init ==
  /\ powShort \in BOOLEAN
  /\ sent = FALSE
  /\ mail = {}
  /\ outcome = Pending

Submit ==
  /\ outcome = Pending
  /\ ~sent /\ sent' = TRUE
  /\ UNCHANGED <<powShort, mail, outcome>>

Arrive ==
  /\ outcome = Pending
  /\ \E m \in Mail : mail' = mail \cup {m}
  /\ UNCHANGED <<powShort, sent, outcome>>

Answer ==
  /\ outcome = Pending
  /\ sent
  /\ outcome' \in mail
  /\ UNCHANGED <<powShort, sent, mail>>

(* Nobody answered: only after the request was sent, never with mail in    *)
(* hand, and blamed on the proof of work only where an info event asks for *)
(* more than was sent.                                                     *)
GiveUp ==
  /\ outcome = Pending
  /\ sent
  /\ mail = {}
  /\ \/ outcome' = Timeout
     \/ powShort /\ outcome' = PowUnmet
  /\ UNCHANGED <<powShort, sent, mail>>

Fail ==
  /\ outcome = Pending
  /\ outcome' = Error
  /\ UNCHANGED <<powShort, sent, mail>>

Next == Submit \/ Arrive \/ Answer \/ GiveUp \/ Fail

Spec == Init /\ [][Next]_vars /\ <>(outcome # Pending)

=============================================================================
