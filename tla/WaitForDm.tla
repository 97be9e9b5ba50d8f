----------------------------- MODULE WaitForDm -----------------------------
(***************************************************************************)
(* One command from its connection to the outcome of its request: the      *)
(* startup of Transport, then util::wait_for_dm, which listens,            *)
(* subscribes, sends, starts a probe for the daemon's proof-of-work        *)
(* requirement and reads the notification channel against a timer, with    *)
(* the probe bounded by a second timer.  The client's notification channel *)
(* is global: it also carries events of other subscriptions and of the     *)
(* probe, and when it overflows its oldest notifications are gone.  The    *)
(* relays may answer the probe with an old info event.  Relays and daemon  *)
(* are external.                                                           *)
(***************************************************************************)
EXTENDS Transport, Naturals, Sequences

CONSTANTS
  PowLevels,  \* difficulties, a finite set of naturals
  MaxNoise    \* bound: events of the relays that are not the reply

ASSUME WaitAssumption == PowLevels \subseteq Nat /\ MaxNoise \in Nat

(* Events the channel may carry.  "reply" answers this request; "late" is  *)
(* another message of the daemon for the same trade key; "peer" is what    *)
(* another user sends to that key on the transport's event kind; "info" is *)
(* the daemon's info event; "elsewhere" is tagged to another key.          *)
Events == {"reply", "late", "peer", "info", "elsewhere"}
FromDaemon == {"reply", "late"}

VARIABLES
  pc,        \* of wait_for_dm
  chan,      \* notifications not yet read
  lagged,    \* the channel dropped notifications
  listening, \* the receiver of the channel exists
  subscribed,
  request,   \* "none", "sent", "handled" by the daemon
  noise,     \* events the relays may still produce
  arrived,   \* messages for the key the relays delivered before the timer
  probe,     \* "off", "running", "answered", "aborted"
  heard,     \* revisions of the info event the probe was answered with
  pow,       \* difficulty each revision asks for; the daemon's: the current
  configured,\* difficulty the request was sent with
  outcome

vars == <<transport, pc, chan, lagged, listening, subscribed, request, noise, arrived,
          probe, heard, pow, configured, outcome>>
world == <<transport, pow, configured>>

v2 == Spoken = "nip44"

Outcomes == FromDaemon \cup {"peer", "pending", "timeout", "pow", "error"}

(* Types; the outcome is a message for this key, a timeout or an error. *)
TypeOK ==
  /\ TransportTypes
  /\ pc \in {"start", "subscribe", "send", "spawn", "wait", "probing", "done"}
  /\ chan \in Seq(Events)
  /\ lagged \in BOOLEAN /\ listening \in BOOLEAN /\ subscribed \in BOOLEAN
  /\ request \in {"none", "sent", "handled"}
  /\ noise \in 0..MaxNoise
  /\ arrived \subseteq FromDaemon \cup {"peer"}
  /\ probe \in {"off", "running", "answered", "aborted"}
  /\ heard \subseteq Revisions
  /\ pow \in [Revisions -> PowLevels] /\ configured \in PowLevels
  /\ outcome \in Outcomes

Init ==
  /\ TransportInit
  /\ pc = "start"
  /\ chan = <<>>
  /\ lagged = FALSE /\ listening = FALSE /\ subscribed = FALSE
  /\ request = "none"
  /\ noise = MaxNoise
  /\ arrived = {}
  /\ probe = "off" /\ heard = {}
  /\ pow \in [Revisions -> PowLevels] /\ configured \in PowLevels
  /\ outcome = "pending"

-----------------------------------------------------------------------------
(* The filter of the loop: event kind, p tag and, on v2 only, the author:  *)
(* a gift wrap is authored by a throwaway key.                             *)
KindOk(e)   == e # "info"
TagOk(e)    == e \notin {"elsewhere", "info"}
AuthorOk(e) == e # "peer"

(* Mutant: no filter at all. *)
MutAcceptsAll(e) == TRUE

Accepts(e) == KindOk(e) /\ TagOk(e) /\ (v2 => AuthorOk(e))

Finish(o) ==
  /\ pc' = "done"
  /\ outcome' = o
  /\ listening' = FALSE
  /\ probe' = IF probe = "running" THEN "aborted" ELSE probe

(* Mutant: the message is sent before the subscription is made. *)
MutNextPlace(place) ==
  CASE place = "start" -> "send" [] place = "send" -> "subscribe"
    [] place = "subscribe" -> "spawn" [] place = "spawn" -> "wait"

(* The order of the statements. *)
NextPlace(place) ==
  CASE place = "start" -> "subscribe" [] place = "subscribe" -> "send"
    [] place = "send" -> "spawn" [] place = "spawn" -> "wait"

(* The startup ends the command or hands it over to the wait. *)
Startup ==
  /\ pc = "start"
  /\ \/ /\ ConnectRelays \/ ResolveTransport
        /\ UNCHANGED <<pc, outcome, listening, probe>>
     \/ /\ ConnectFails
        /\ Finish("error")
  /\ UNCHANGED <<pow, configured, heard, chan, lagged, subscribed, request, noise, arrived>>

(* TRANSPORT is read here; what it holds may be unusable. *)
OpenNotifications ==
  /\ pc = "start"
  /\ stage = "ready"
  /\ IF Usable(setting)
     THEN /\ pc' = NextPlace(pc)
          /\ listening' = TRUE
          /\ UNCHANGED <<probe, outcome>>
     ELSE Finish("error")
  /\ UNCHANGED <<world, heard, chan, lagged, subscribed, request, noise, arrived>>

Subscribe ==
  /\ pc = "subscribe"
  /\ \/ /\ Finish("error")
        /\ UNCHANGED subscribed
     \/ /\ pc' = NextPlace(pc)
        /\ subscribed' = TRUE
        /\ UNCHANGED <<listening, probe, outcome>>
  /\ UNCHANGED <<world, heard, chan, lagged, request, noise, arrived>>

(* Mutant: an error of the send is dropped. *)
MutSendIgnoresError ==
  /\ pc = "send"
  /\ pc' = NextPlace(pc)
  /\ request' \in {"none", "sent"}
  /\ UNCHANGED <<world, heard, chan, lagged, listening, subscribed, noise, arrived,
                 probe, outcome>>

SendMessage ==
  /\ pc = "send"
  /\ \/ /\ Finish("error")
        /\ UNCHANGED request
     \/ /\ pc' = NextPlace(pc)
        /\ request' = "sent"
        /\ UNCHANGED <<listening, probe, outcome>>
  /\ UNCHANGED <<world, heard, chan, lagged, subscribed, noise, arrived>>

SpawnProbe ==
  /\ pc = "spawn"
  /\ pc' = NextPlace(pc)
  /\ probe' = "running"
  /\ UNCHANGED <<world, heard, chan, lagged, listening, subscribed, request, noise,
                 arrived, outcome>>

(* Mutant: a report of dropped notifications is passed over. *)
MutRecvSkipsLag ==
  /\ pc = "wait"
  /\ \/ /\ lagged /\ lagged' = FALSE
        /\ UNCHANGED <<chan, pc, outcome, listening, probe>>
     \/ /\ ~lagged
        /\ chan # <<>>
        /\ chan' = Tail(chan)
        /\ IF Accepts(Head(chan))
           THEN Finish(Head(chan))
           ELSE UNCHANGED <<pc, outcome, listening, probe>>
        /\ UNCHANGED lagged
  /\ UNCHANGED <<world, heard, subscribed, request, noise, arrived>>

(* One turn of the loop.  A channel that dropped notifications reports     *)
(* that before it hands out the next one.                                  *)
Recv ==
  /\ pc = "wait"
  /\ \/ /\ lagged
        /\ Finish("error")
        /\ UNCHANGED chan
     \/ /\ ~lagged
        /\ chan # <<>>
        /\ chan' = Tail(chan)
        /\ IF Accepts(Head(chan))
           THEN Finish(Head(chan))
           ELSE UNCHANGED <<pc, outcome, listening, probe>>
  /\ UNCHANGED <<world, heard, lagged, subscribed, request, noise, arrived>>

(* tokio polls the loop before the timer, so the timer only wins when      *)
(* there is nothing left to read; the receiver is dropped with the loop.   *)
Timer ==
  /\ pc = "wait"
  /\ chan = <<>> /\ ~lagged
  /\ pc' = "probing"
  /\ listening' = FALSE
  /\ UNCHANGED <<world, heard, chan, lagged, subscribed, request, noise, arrived,
                 probe, outcome>>

Unmet(req, conf) == req > conf

Classify ==
  /\ pc = "probing"
  /\ probe = "answered"
  /\ Finish(IF heard # {} /\ Unmet(pow[Newest(heard)], configured) THEN "pow" ELSE "timeout")
  /\ UNCHANGED <<world, heard, chan, lagged, subscribed, request, noise, arrived>>

(* Mutant: the probe is awaited without the 3 s cap. *)
MutNoCap ==
  /\ pc = "probing"
  /\ probe = "running"
  /\ UNCHANGED vars

ProbeCap ==
  /\ pc = "probing"
  /\ probe = "running"
  /\ Finish("timeout")
  /\ UNCHANGED <<world, heard, chan, lagged, subscribed, request, noise, arrived>>

Client ==
  Startup \/ OpenNotifications \/ Subscribe \/ SendMessage \/ SpawnProbe \/ Recv \/ Timer
    \/ Classify \/ ProbeCap

-----------------------------------------------------------------------------
(* Relays and daemon. *)

Enqueue(e) ==
  /\ listening
  /\ chan' = Append(chan, e)
  /\ arrived' = arrived \cup ({e} \cap (IF v2 THEN FromDaemon ELSE FromDaemon \cup {"peer"}))

(* The relays forward a message and keep nothing for a subscription that   *)
(* asks for no stored events: a client that does not listen and subscribe  *)
(* yet misses it.                                                          *)
Deliver(e) ==
  IF listening /\ subscribed
  THEN Enqueue(e)
  ELSE arrived' = arrived \cup {e} /\ UNCHANGED chan

(* The daemon does not see a request on another transport than its own and *)
(* drops one with too little work, both silently.  Its reply is delivered  *)
(* in time, or lost on the way or too late.                                *)
DaemonReply ==
  /\ request = "sent"
  /\ Spoken = node
  /\ configured >= pow[Current]
  /\ request' = "handled"
  /\ \/ /\ pc \notin {"probing", "done"}
        /\ Deliver("reply")
     \/ UNCHANGED <<chan, arrived>>
  /\ UNCHANGED <<world, heard, pc, lagged, listening, subscribed, noise, probe, outcome>>

(* Any other event, in any number up to the bound, or an overflow, which   *)
(* drops the oldest notifications.                                         *)
Noise ==
  /\ noise > 0
  /\ noise' = noise - 1
  /\ \/ /\ \E e \in {"info", "elsewhere"} : Enqueue(e)
        /\ UNCHANGED lagged
     \/ /\ subscribed
        /\ \E e \in {"late", "peer"} : (e = "late" => Spoken = node) /\ Enqueue(e)
        /\ UNCHANGED lagged
     \/ /\ listening
        /\ lagged' = TRUE
        /\ \E n \in 0..Len(chan) : chan' = SubSeq(chan, n + 1, Len(chan))
        /\ UNCHANGED arrived
  /\ UNCHANGED <<world, heard, pc, listening, subscribed, request, probe, outcome>>

(* The probe gets what revisions the relays that answer hold, not always   *)
(* the current one, or nothing it can use.  Its answer is also seen on the *)
(* notification channel.                                                   *)
ProbeAnswer ==
  /\ probe = "running"
  /\ probe' = "answered"
  /\ heard' \in SUBSET Revisions
  /\ IF listening /\ heard' # {} THEN Enqueue("info") ELSE UNCHANGED <<chan, arrived>>
  /\ UNCHANGED <<world, pc, lagged, listening, subscribed, request, noise, outcome>>

World == DaemonReply \/ Noise \/ ProbeAnswer

Next == Client \/ World

(* The client's own steps are scheduled by tokio and its timers fire;      *)
(* nothing is assumed of relays and daemon.                                *)
Fairness == WF_vars(Client)

Spec == Init /\ [][Next]_vars /\ Fairness

-----------------------------------------------------------------------------
(* execute_add_bond_invoice: silence is the happy path. *)

(* Mutant: whatever goes wrong is taken for silence. *)
MutBondSubmitted == outcome \in {"timeout", "pow", "error"}

BondSubmitted == outcome = "timeout"

-----------------------------------------------------------------------------
(* The transport a request goes out on.  The operator's word is final, and *)
(* one that means nothing sends nothing.  Otherwise "Auto-detect from the  *)
(* node's advertised protocol_version so the operator need not match it by *)
(* hand" (cli.rs:504-505): whoever left TRANSPORT unset or blank, and      *)
(* whose relays showed the current info event, sends on the transport the  *)
(* daemon listens to.                                                      *)
RightTransport ==
  request # "none" =>
    /\ asked \notin Blank => Spoken = asked
    /\ asked \in Blank /\ informed /\ node # "unknown" => Spoken = node

(* "Send message here after opening notifications to avoid missing         *)
(* messages" (messaging.rs:367): silence is reported only if the relays    *)
(* delivered no message for the key while the wait lasted.  A reply that   *)
(* came before the client listened and subscribed would be missed, and so  *)
(* would one that an overflow dropped, were the lag not an error.          *)
NoMissedReply == outcome \in {"timeout", "pow"} => arrived = {}

(* Where the current info event is among the probe's answers, whatever     *)
(* older ones came with it ("Pick the newest", docs/pow_error_handling.md: *)
(* 108): a request the daemon handled is not said to lack work, and one it *)
(* dropped for that is not passed off as a timeout.                        *)
PowBlameIsRight ==
  Current \in heard =>
    /\ outcome = "pow" => request = "sent"
    /\ outcome = "timeout" => configured >= pow[Current]

(* "Reading that tag on the CLI side lets us answer the only question we   *)
(* care about: did this Mostro instance reject our event because we didn't *)
(* provide enough PoW?" (docs/pow_error_handling.md:60), from any relay.   *)
PowBlameIsCertain == outcome = "pow" => request = "sent"

(* "Any other error means the reply may never have been sent" (add_bond_   *)
(* invoice.rs:90-92): submission is claimed only of a request that left.   *)
BondClaimIsHonest == BondSubmitted => request # "none"

(* The wait ends, whatever relays, probe and daemon do. *)
Terminates == <>(outcome # "pending")

(* The wait implements the abstract request/reply exchange. *)
RR == INSTANCE RequestReply WITH
        Mail <- FromDaemon \cup {"peer"}, Pending <- "pending", Timeout <- "timeout",
        PowUnmet <- "pow", Error <- "error",
        powShort <- \E r \in Revisions : configured < pow[r], sent <- request # "none",
        mail <- arrived, outcome <- outcome

ImplementsRequestReply == RR!Spec

=============================================================================
