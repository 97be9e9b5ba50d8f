----------------------------- MODULE Transport -----------------------------
(***************************************************************************)
(* How a command comes to speak gift wrap (protocol v1) or NIP-44 direct   *)
(* (v2): connect to the relays, then keep an explicit TRANSPORT or ask the *)
(* relays for the daemon's info event, of which each may hold the current  *)
(* revision, an older one or none.  The choice lives in the environment    *)
(* variable TRANSPORT and is read again whenever a message is sent or      *)
(* awaited.  Relays and daemon are external.                               *)
(***************************************************************************)
EXTENDS Integers, FiniteSetsExt

CONSTANT Relays

NoTag == 0                \* an info event without a usable protocol_version
Versions == {NoTag, 1, 2, 3}
Older == 1
Current == 2              \* revisions, by age; the daemon runs the current one
Revisions == {Older, Current}
NoCopy == 0

Blank == {"unset", "blank"}
Settings == Blank \cup {"gift-wrap", "nip44", "bogus"}

VARIABLES
  asked,     \* TRANSPORT as the user gave it, by flag or environment
  setting,   \* TRANSPORT now
  advert,    \* protocol_version of each revision of the info event
  copy,      \* revision each relay holds
  node,      \* transport the daemon speaks
  informed,  \* do relays that answer in time hold the current revision?
  stage      \* of the startup

transport == <<asked, setting, advert, copy, node, informed, stage>>

TransportTypes ==
  /\ asked \in Settings /\ setting \in Settings
  /\ advert \in [Revisions -> Versions]
  /\ copy \in [Relays -> Revisions \cup {NoCopy}]
  /\ node \in {"gift-wrap", "nip44", "unknown"}
  /\ informed \in BOOLEAN
  /\ stage \in {"connect", "probe", "ready", "failed"}

SpokenBy(version) ==
  CASE version = 2 -> "nip44" [] version = 3 -> "unknown" [] OTHER -> "gift-wrap"

TransportInit ==
  /\ asked \in Settings
  /\ setting = asked
  /\ advert \in [Revisions -> Versions]
  /\ copy \in [Relays -> Revisions \cup {NoCopy}]
  /\ node = SpokenBy(advert[Current])
  /\ informed = FALSE
  /\ stage = "connect"

(* connect_nostr: a list without a relay or with an unusable one is an     *)
(* error; relays that do not answer within the time are not waited for.    *)
ConnectRelays ==
  /\ stage = "connect"
  /\ stage' = "probe"
  /\ UNCHANGED <<asked, setting, advert, copy, node, informed>>

ConnectFails ==
  /\ stage = "connect"
  /\ stage' = "failed"
  /\ UNCHANGED <<asked, setting, advert, copy, node, informed>>

(* Mutant: a value of blanks counts as the user's choice. *)
MutExplicit(s) == s # "unset"

Explicit(s) == s \notin Blank

(* Mutant: the first revision published is taken. *)
MutNewest(revisions) == Min(revisions)

(* The newest of the revisions that came in time. *)
Newest(revisions) == Max(revisions)

Advertised(heard) ==
  LET revisions == {copy[r] : r \in heard} \ {NoCopy}
  IN  IF revisions = {} THEN NoTag ELSE advert[Newest(revisions)]

(* Only version 2 changes anything.  What the relays hold does not matter  *)
(* any more afterwards and is forgotten.                                   *)
ResolveTransport ==
  /\ stage = "probe"
  /\ stage' = "ready"
  /\ \E heard \in SUBSET Relays :
       /\ informed' = \E r \in heard : copy[r] = Current
       /\ setting' = IF ~Explicit(setting) /\ Advertised(heard) = 2
                     THEN "nip44" ELSE setting
  /\ advert' = [v \in Revisions |-> NoTag]
  /\ copy' = [r \in Relays |-> NoCopy]
  /\ UNCHANGED <<asked, node>>

(* parse_transport_env. *)
Usable(s) == s # "bogus"
Spoken == IF setting = "nip44" THEN "nip44" ELSE "gift-wrap"

=============================================================================
