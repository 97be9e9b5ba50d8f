----------------------------- MODULE DmListing -----------------------------
(***************************************************************************)
(* getdm, getadmindm and getdmuser: fetch what the relays hold for one key *)
(* after another, within a window of time, decode it, drop what is older   *)
(* than --since.  Two clocks are at odds here: the window is applied by    *)
(* the relay to the outer event, --since by the client to the inner        *)
(* message, and the outer time of a gift wrap is set back at random by up  *)
(* to Tweak.  Senders and relays are external; messages go on arriving     *)
(* while the scan runs.                                                    *)
(***************************************************************************)
EXTENDS Integers, FiniteSets

CONSTANTS
  TradeIndex,    \* ctx.trade_index, the index after the last one used
  Tweak,         \* at most so much a gift wrap is set back (2 days)
  FakeSince,     \* window of getdm and getadmindm (2 days)
  HalfHour,      \* window of --from-user (30 minutes)
  SevenDays,     \* window of getdmuser, and the largest --since it takes
  Sinces,        \* values of --since
  MaxTime,       \* bound on the clock
  MaxMessages    \* bound on the number of messages

ASSUME DmListingAssumption ==
  /\ TradeIndex \in Nat \ {0}
  /\ {Tweak, FakeSince, HalfHour, SevenDays, MaxTime, MaxMessages} \subseteq Nat
  /\ Sinces \subseteq Nat

(* getdm, getdm --from-user (with or without adm), getadmindm, getdmuser. *)
Modes == {"user", "fromUser", "admin", "shared"}

(* From the daemon; by senddm or admsenddm of another user; kind-14 chat   *)
(* of another client; by dmtouser, and its own side of that conversation.  *)
Forms == {"mostro", "sendDm", "chat", "toUser", "own"}

Transports == {"GiftWrap", "Nip44Direct"}

(* Key 0 is the admin's or the shared one, whichever the mode reads. *)
Message == [n : Nat \ {0}, key : 0..TradeIndex, form : Forms, sent : Nat, outer : Int]

VARIABLES
  now, inbox,      \* the clock, and what the relays hold
  transport,       \* the node's, GiftWrap or Nip44Direct
  mode, since,     \* the command
  pc,
  began, before,   \* time and inbox when the command started
  index,           \* the key being scanned
  todo,            \* what was fetched for it and not yet parsed
  shown,           \* direct_messages
  partial          \* a relay returned less than it was asked for

vars == <<now, inbox, transport, mode, since, pc, began, before, index, todo, shown, partial>>
command == <<transport, mode, since>>

Wrapped(form) == form \in {"toUser", "own"} \/ (form # "chat" /\ transport = "GiftWrap")
EventKind(form) == IF Wrapped(form) THEN 1059 ELSE 14

Init ==
  /\ now = 0 /\ inbox = {}
  /\ transport \in Transports
  /\ mode \in Modes /\ since \in Sinces
  /\ pc = "start" /\ began = 0 /\ before = {}
  /\ index = 0 /\ todo = {} /\ shown = {}
  /\ partial = FALSE

(* A message reaches the relays with its outer time set back. *)
Arrives(key, form, back) ==
  /\ pc # "done" /\ Cardinality(inbox) < MaxMessages
  /\ inbox' = inbox \cup {[n |-> Cardinality(inbox) + 1, key |-> key, form |-> form,
                           sent |-> now, outer |-> now - back]}
  /\ UNCHANGED <<now, command, pc, began, before, index, todo, shown, partial>>

(* A protocol message, on whichever transport the node speaks. *)
Publish(key, form) == \E back \in (IF Wrapped(form) THEN 0..Tweak ELSE {0}) : Arrives(key, form, back)

(* The daemon writes to a trade key, or to the admin. *)
MostroSends ==
  \E key \in 0..TradeIndex : (key = 0 => mode = "admin") /\ Publish(key, "mostro")

(* senddm of another user, to a counterpart or to the admin. *)
SendDm ==
  \E key \in 0..TradeIndex : (key = 0 => mode = "admin") /\ Publish(key, "sendDm")

(* admsenddm of an admin, to a party of a dispute. *)
AdmSendDm == \E key \in 1..TradeIndex : Publish(key, "sendDm")

(* dmtouser writes to the shared key, the one side or the other, and wraps *)
(* by hand: a gift wrap on either transport.                               *)
DmToUser ==
  /\ mode = "shared"
  /\ \E form \in {"toUser", "own"} : \E back \in 0..Tweak : Arrives(0, form, back)

(* A kind-14 chat message, whose one time is the true one (no command     *)
(* sends it; another client does).                                         *)
PeerChat == \E key \in 1..TradeIndex : Arrives(key, "chat", 0)

Senders == MostroSends \/ SendDm \/ AdmSendDm \/ DmToUser \/ PeerChat

Tick ==
  /\ pc # "done" /\ now < MaxTime
  /\ now' = now + 1
  /\ UNCHANGED <<inbox, command, pc, began, before, index, todo, shown, partial>>

FirstKey == IF mode \in {"user", "fromUser"} THEN 1 ELSE 0
LastKey == IF mode \in {"user", "fromUser"} THEN TradeIndex ELSE 0

(* getdmuser refuses a --since beyond its window. *)
Start ==
  /\ pc = "start"
  /\ began' = now /\ before' = inbox
  /\ index' = FirstKey
  /\ pc' = IF mode = "shared" /\ since > SevenDays THEN "failed" ELSE "fetch"
  /\ UNCHANGED <<now, inbox, command, todo, shown, partial>>

Window == CASE mode \in {"user", "admin"} -> FakeSince
            [] mode = "fromUser" -> HalfHour
            [] mode = "shared" -> SevenDays

(* The gift wraps of a shared key, whoever wrote them.                     *)
SharedWraps(form) == EventKind(form) = 1059

(* On kind 14 the daemon's messages are told from chat by their author. *)
FilterKind(form) ==
  CASE mode \in {"user", "admin"} ->
         /\ EventKind(form) = (IF transport = "GiftWrap" THEN 1059 ELSE 14)
         /\ transport = "Nip44Direct" => form = "mostro"
    [] mode = "fromUser" -> EventKind(form) = 14
    [] mode = "shared" -> SharedWraps(form)

(* Mutant: the outer time is compared with --since as well. *)
MutMatches(m) == m.key = index /\ FilterKind(m.form) /\ m.outer >= now - Window /\ m.outer >= now - since

Matches(m) == m.key = index /\ FilterKind(m.form) /\ m.outer >= now - Window

(* One request per key; an error ends the command with nothing shown.  The *)
(* answer may lack messages: a relay that is late, or the limit of 100     *)
(* events in getdmuser.                                                    *)
Fetch ==
  /\ pc = "fetch"
  /\ \/ \E answer \in SUBSET {m \in inbox : Matches(m)} :
          /\ todo' = answer
          /\ partial' = (partial \/ answer # {m \in inbox : Matches(m)})
          /\ pc' = "parse"
          /\ UNCHANGED shown
     \/ pc' = "failed" /\ shown' = {} /\ UNCHANGED <<todo, partial>>
  /\ UNCHANGED <<now, inbox, command, began, before, index>>

(* Only what dmtouser wrapped opens with the shared key. *)
UnwrapsShared(m) == m.form \in {"toUser", "own"}

(* unwrap_incoming takes every protocol message, --from-user only a bare   *)
(* one encrypted with the conversation key.                                *)
Decodes(m) ==
  CASE mode \in {"user", "admin"} -> m.form \in {"mostro", "sendDm"}
    [] mode = "fromUser" -> m.form = "chat"
    [] mode = "shared" -> UnwrapsShared(m)

(* Mutant: --since is not applied to what the relay let through. *)
MutRecent(m) == TRUE

(* --since against the time of the message itself, at the present time. *)
Recent(m) == m.sent >= now - since

(* One turn of the loop of parse_dm_events; getdmuser filters afterwards. *)
Parse ==
  /\ pc = "parse"
  /\ \E m \in todo :
       /\ todo' = todo \ {m}
       /\ shown' = IF Decodes(m) /\ (mode # "shared" => Recent(m)) THEN shown \cup {m} ELSE shown
  /\ UNCHANGED <<now, inbox, command, pc, began, before, index, partial>>

(* Mutant: one key too many. *)
MutNextKey ==
  /\ pc = "parse" /\ todo = {}
  /\ index' = index + 1
  /\ pc' = IF index <= LastKey THEN "fetch" ELSE IF mode = "shared" THEN "retain" ELSE "done"
  /\ UNCHANGED <<now, inbox, command, began, before, todo, shown, partial>>

NextKey ==
  /\ pc = "parse" /\ todo = {}
  /\ index' = index + 1
  /\ pc' = IF index < LastKey THEN "fetch" ELSE IF mode = "shared" THEN "retain" ELSE "done"
  /\ UNCHANGED <<now, inbox, command, began, before, todo, shown, partial>>

(* getdmuser: --since 0 keeps all; its own side is dropped. *)
Retain ==
  /\ pc = "retain"
  /\ shown' = {m \in shown : (since > 0 => Recent(m)) /\ m.form = "toUser"}
  /\ pc' = "done"
  /\ UNCHANGED <<now, inbox, command, began, before, index, todo, partial>>

Next == Senders \/ Tick \/ Start \/ Fetch \/ Parse \/ NextKey \/ Retain

Spec == Init /\ [][Next]_vars
-----------------------------------------------------------------------------
(* Types; no scan goes past the key after the last one. *)
TypeOK ==
  /\ now \in Nat /\ began \in 0..now
  /\ inbox \subseteq Message /\ before \subseteq inbox
  /\ transport \in Transports /\ mode \in Modes /\ since \in Sinces
  /\ pc \in {"start", "fetch", "parse", "retain", "done", "failed"}
  /\ index \in 0..TradeIndex + 1
  /\ todo \subseteq inbox /\ shown \subseteq inbox
  /\ partial \in BOOLEAN
  /\ \A m \in inbox : m.outer <= m.sent /\ m.sent <= now

(* What is printed was sent, by the right side, to a key of this command   *)
(* no longer ago than asked for: a gift wrap whose random outer time falls *)
(* inside the window is still an old message (parse_dm_events,             *)
(* execute_get_dm_user).                                                   *)
ShownIsAskedFor ==
  pc = "done" =>
    \A m \in shown :
      /\ m.key \in FirstKey..LastKey
      /\ m.form \in (CASE mode \in {"user", "admin"} -> {"mostro", "sendDm"}
                       [] mode = "fromUser" -> {"chat"}
                       [] mode = "shared" -> {"toUser"})
      /\ ~(mode = "shared" /\ since = 0) => m.sent >= began - since

(* What the command is for; on gift wrap what senddm sends lands among the *)
(* protocol messages of its recipient.                                     *)
Meant(m) ==
  /\ m.key \in FirstKey..LastKey
  /\ \/ mode \in {"user", "admin"} /\ m.form = "mostro"
     \/ mode \in {"user", "admin"} /\ m.form = "sendDm" /\ transport = "GiftWrap"
     \/ mode = "fromUser" /\ m.form = "chat"
     \/ mode = "shared" /\ m.form = "toUser"

Asked(m) == Meant(m) /\ m.sent >= now - since
AllShown == \A m \in before : Asked(m) => m \in shown
Finished == pc = "done" /\ ~partial

(* How far back --since may reach for the window to cover it whatever the  *)
(* outer times are.                                                        *)
Slack == IF mode = "shared" \/ (mode # "fromUser" /\ transport = "GiftWrap") THEN Tweak ELSE 0

(* A scan that finishes with complete answers has shown every message that *)
(* was there when it started and is still within --since, as long as the   *)
(* window is wider than --since by the set-back of gift wraps.             *)
WindowCovers == Finished /\ since + Slack <= Window => AllShown

(* README.md: "everything Mostro sent you in the last 60 minutes", any     *)
(* --since below the two days of the window.                               *)
EverythingMostroSent == Finished /\ mode = "user" /\ since < FakeSince => AllShown

(* docs/commands.md: "--since: Minutes back from now to query", for getdm  *)
(* --from-user.                                                            *)
FromUserSince == Finished /\ mode = "fromUser" => AllShown

(* README.md: "Read DMs from Mostro (default) or directly from the         *)
(* counterpart": what senddm sends is found by getdm --from-user.          *)
CounterpartIsRead ==
  Finished /\ mode = "fromUser" /\ since <= HalfHour =>
    \A m \in before :
      m.key \in FirstKey..LastKey /\ m.form = "sendDm" /\ m.sent >= now - since => m \in shown
=============================================================================
