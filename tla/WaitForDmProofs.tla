-------------------------- MODULE WaitForDmProofs --------------------------
(***************************************************************************)
(* WaitForDm for any relays, difficulties and amount of stray events.  The *)
(* invariant follows the transport through the startup, and what came for  *)
(* this key through the channel: until it is read it is still queued, or   *)
(* the channel says that it dropped something, and what the loop accepts   *)
(* is nothing else.  When the request leaves, the client already listens   *)
(* and is subscribed.                                                      *)
(***************************************************************************)
EXTENDS WaitForDm, SequenceTheorems, TLAPS

Waiting == {"subscribe", "send", "spawn", "wait"}

(* What is known of the transport at each stage of the startup. *)
Chosen ==
  /\ stage \in {"connect", "probe"} =>
       setting = asked /\ node = SpokenBy(advert[Current]) /\ pc = "start"
  /\ stage = "ready" =>
       /\ asked \notin Blank => setting = asked
       /\ asked \in Blank => setting \in Blank \cup {"nip44"}
       /\ asked \in Blank /\ informed /\ node # "unknown" => Spoken = node
  /\ stage = "failed" => pc = "done"

(* How far the request is, by the place in wait_for_dm. *)
Progress ==
  /\ outcome = "pending" <=> pc # "done"
  /\ listening <=> pc \in Waiting
  /\ pc \in Waiting \cup {"probing"} => stage = "ready" /\ Usable(setting)
  /\ request # "none" => stage = "ready" /\ Usable(setting)
  /\ pc \in {"start", "subscribe", "send"} => request = "none"
  /\ pc \in {"spawn", "wait", "probing"} => request # "none"
  /\ pc \in {"send", "spawn", "wait"} => subscribed
  /\ request = "handled" => configured >= pow[Current]
  /\ pc \in {"start", "subscribe", "send", "spawn"} => probe = "off"
  /\ probe # "answered" => heard = {}
  /\ pc = "done" => probe # "running"

(* Messages for this key that the loop lets through. *)
ForUs == IF v2 THEN FromDaemon ELSE FromDaemon \cup {"peer"}

Queued ==
  /\ arrived \subseteq ForUs
  /\ pc \in {"start", "probing"} => arrived = {}
  /\ pc = "start" => chan = <<>>
  /\ listening /\ ~lagged => \A e \in arrived : \E i \in 1..Len(chan) : chan[i] = e
  /\ listening => \A i \in 1..Len(chan) : chan[i] \in ForUs => chan[i] \in arrived

Decided ==
  /\ outcome \in Events => outcome \in ForUs
  /\ outcome \in {"timeout", "pow"} => arrived = {} /\ request # "none"
  /\ outcome = "pow" => heard # {} /\ configured < pow[Newest(heard)]
  /\ outcome = "timeout" /\ Current \in heard => configured >= pow[Current]

IInv == TypeOK /\ Chosen /\ Progress /\ Queued /\ Decided
-----------------------------------------------------------------------------
(* The filter of the loop lets through what is for this key, on either     *)
(* transport.                                                              *)
LEMMA AcceptsForUs == \A e \in Events : Accepts(e) <=> e \in ForUs
BY DEF Events, Accepts, KindOk, TagOk, AuthorOk, ForUs, FromDaemon

(* The newest of some revisions with the current one among them. *)
LEMMA NewestIsCurrent ==
  ASSUME NEW S \in SUBSET Revisions, Current \in S
  PROVE  Newest(S) = Current
<1>1. 2 \in S /\ \A y \in S : y \in {1, 2}
  BY DEF Revisions, Older, Current
<1>2. 2 \in S /\ \A y \in S : 2 >= y
  BY <1>1
<1>3. Max(S) \in S /\ \A y \in S : Max(S) >= y
  BY <1>2 DEF Max
<1>4. Max(S) >= 2 /\ Max(S) \in {1, 2}
  BY <1>1, <1>3
<1> QED
  BY <1>4 DEF Newest, Current

LEMMA NewestIsAmong ==
  ASSUME NEW S \in SUBSET Revisions, S # {}
  PROVE  Newest(S) \in S
<1>1. CASE 2 \in S
  BY <1>1, NewestIsCurrent DEF Current
<1>2. CASE 2 \notin S
  <2>0. \A y \in S : y = 1
    BY <1>2 DEF Revisions, Older, Current
  <2>1. 1 \in S /\ \A y \in S : 1 >= y
    BY <2>0
  <2> QED
    BY <2>1 DEF Newest, Max
<1> QED
  BY <1>1, <1>2

(* Relays that hold the current info event tell what it says. *)
LEMMA InformedHears ==
  ASSUME TransportTypes, NEW answering \in SUBSET Relays, \E r \in answering : copy[r] = Current
  PROVE  Advertised(answering) = advert[Current]
<1> DEFINE S == {copy[r] : r \in answering} \ {NoCopy}
<1>1. S \in SUBSET Revisions /\ Current \in S
  BY DEF TransportTypes, Revisions, Older, Current, NoCopy
<1>2. Newest(S) = Current /\ S # {}
  BY <1>1, NewestIsCurrent
<1> QED
  BY <1>2 DEF Advertised

LEMMA InitIInv == Init => IInv
<1> SUFFICES ASSUME Init PROVE IInv
  OBVIOUS
<1>1. TypeOK
  <2>1. TransportTypes
    BY DEF Init, TransportInit, TransportTypes, SpokenBy, Settings
  <2>2. chan \in Seq(Events) /\ noise \in 0..MaxNoise /\ outcome \in Outcomes
    BY WaitAssumption DEF Init, Outcomes
  <2> QED
    BY <2>1, <2>2 DEF Init, TypeOK
<1>2. Chosen /\ Progress /\ Queued /\ Decided
  BY DEF Init, TransportInit, Chosen, Progress, Queued, Decided, Waiting, Events, FromDaemon, ForUs
<1> QED
  BY <1>1, <1>2 DEF IInv
-----------------------------------------------------------------------------
(* The startup: what ResolveTransport leaves in TRANSPORT. *)
LEMMA ResolveChosen ==
  ASSUME IInv, ResolveTransport, UNCHANGED pc
  PROVE  Chosen'
<1> USE DEF IInv
<1>1. PICK answering \in SUBSET Relays :
        /\ informed' = \E r \in answering : copy[r] = Current
        /\ setting' = IF ~Explicit(setting) /\ Advertised(answering) = 2 THEN "nip44" ELSE setting
  BY DEF ResolveTransport
<1>2. /\ stage' = "ready" /\ asked' = asked /\ node' = node
      /\ setting = asked /\ node = SpokenBy(advert[Current])
  BY DEF ResolveTransport, Chosen
<1>3. asked \notin Blank => setting' = asked
  BY <1>1, <1>2 DEF Explicit
<1>4. asked \in Blank => setting' \in Blank \cup {"nip44"}
  BY <1>1, <1>2
<1>5. ASSUME asked \in Blank, informed', node # "unknown"
      PROVE  Spoken' = node
  <2>1. Advertised(answering) = advert[Current]
    BY <1>1, <1>5, InformedHears DEF TypeOK
  <2>2. CASE advert[Current] = 2
    BY <1>1, <1>2, <1>5, <2>1, <2>2 DEF Explicit, SpokenBy, Spoken
  <2>3. CASE advert[Current] # 2
    <3>1. setting' = asked /\ Spoken' = "gift-wrap"
      BY <1>1, <1>2, <1>5, <2>1, <2>3 DEF Spoken, Blank
    <3>2. node = "gift-wrap"
      BY <1>2, <1>5, <2>3 DEF SpokenBy
    <3> QED
      BY <3>1, <3>2
  <2> QED
    BY <2>2, <2>3
<1> QED
  BY <1>2, <1>3, <1>4, <1>5 DEF Chosen

LEMMA StartupIInv == ASSUME IInv, Startup PROVE IInv'
<1> USE DEF IInv
<1>0. /\ pc = "start" /\ request = "none" /\ ~listening /\ arrived = {} /\ outcome = "pending"
      /\ UNCHANGED <<pow, configured, heard, chan, lagged, subscribed, request, noise, arrived>>
  BY DEF Startup, Progress, Queued, Waiting
<1>1. CASE ConnectRelays /\ UNCHANGED <<pc, outcome, listening, probe>>
  BY <1>0, <1>1 DEF ConnectRelays, TypeOK, TransportTypes, Chosen, Progress, Queued, Decided,
                    Waiting, Events, ForUs
<1>2. CASE ResolveTransport /\ UNCHANGED <<pc, outcome, listening, probe>>
  <2>1. TypeOK'
    BY <1>0, <1>2 DEF ResolveTransport, TypeOK, TransportTypes, Settings, Versions, NoTag, NoCopy
  <2>2. Chosen'
    BY <1>2, ResolveChosen
  <2>3. (Progress /\ Queued /\ Decided)'
    BY <1>0, <1>2 DEF ResolveTransport, Progress, Queued, Decided, Waiting, Events
  <2> QED
    BY <2>1, <2>2, <2>3
<1>3. CASE ConnectFails /\ Finish("error")
  BY <1>0, <1>3 DEF ConnectFails, Finish, TypeOK, TransportTypes, Chosen, Progress, Queued, Decided,
                    Waiting, Events, Outcomes, ForUs
<1> QED
  BY <1>1, <1>2, <1>3 DEF Startup
-----------------------------------------------------------------------------
(* Once started, a step that leaves the choice of transport alone keeps    *)
(* what is known of it.                                                    *)
LEMMA ChosenStays ==
  ASSUME Chosen, UNCHANGED transport, pc = "start" => stage = "ready", pc = "done" => pc' = "done"
  PROVE  Chosen'
BY DEF Chosen, transport, Spoken

LEMMA ForUsStays == ASSUME UNCHANGED transport PROVE ForUs' = ForUs
BY DEF ForUs, v2, Spoken, transport

(* Ending a command with an error. *)
LEMMA ErrorIInv ==
  ASSUME IInv, Finish("error"), UNCHANGED <<world, heard, request, arrived>>, stage = "ready",
         pc # "done", chan' \in Seq(Events), lagged' \in BOOLEAN, subscribed' \in BOOLEAN,
         noise' = noise
  PROVE  IInv'
<1> USE DEF IInv
<1>1. UNCHANGED transport /\ ForUs' = ForUs
  BY ForUsStays DEF world
<1>2. TypeOK'
  BY DEF TypeOK, Finish, TransportTypes, transport, world, Outcomes
<1>3. Chosen'
  BY <1>1, ChosenStays
<1>4. (Progress /\ Queued /\ Decided)'
  BY <1>1 DEF Progress, Queued, Decided, Finish, Waiting, Events, world, transport
<1> QED
  BY <1>2, <1>3, <1>4

LEMMA OpenNotificationsIInv == ASSUME IInv, OpenNotifications PROVE IInv'
<1> USE DEF IInv
<1>1. CASE Usable(setting)
  <2>1. UNCHANGED transport /\ ForUs' = ForUs
    BY ForUsStays DEF OpenNotifications, world
  <2>2. TypeOK'
    BY <1>1 DEF OpenNotifications, NextPlace, TypeOK, TransportTypes, transport, world
  <2>3. Chosen'
    BY <2>1, ChosenStays DEF OpenNotifications
  <2>4. (Progress /\ Queued /\ Decided)'
    BY <1>1, <2>1 DEF OpenNotifications, NextPlace, TypeOK, Progress, Queued, Decided, Waiting, world, transport, ForUs
  <2> QED
    BY <2>2, <2>3, <2>4
<1>2. CASE ~Usable(setting)
  BY <1>2, ErrorIInv DEF OpenNotifications, TypeOK
<1> QED
  BY <1>1, <1>2

(* Before the loop the client only moves on, or ends with an error. *)
LEMMA SubscribeIInv == ASSUME IInv, Subscribe PROVE IInv'
<1> USE DEF IInv
<1>0. /\ pc = "subscribe" /\ stage = "ready" /\ request = "none" /\ listening /\ outcome = "pending"
      /\ UNCHANGED <<world, heard, chan, lagged, request, noise, arrived>>
  BY DEF Subscribe, Progress, Waiting
<1>1. CASE Finish("error") /\ UNCHANGED subscribed
  BY <1>0, <1>1, ErrorIInv DEF TypeOK
<1>2. CASE pc' = NextPlace(pc) /\ subscribed' = TRUE /\ UNCHANGED <<listening, probe, outcome>>
  <2>1. UNCHANGED transport /\ ForUs' = ForUs
    BY <1>0, ForUsStays DEF world
  <2>2. TypeOK'
    BY <1>0, <1>2 DEF NextPlace, TypeOK, TransportTypes, transport, world
  <2>3. Chosen'
    BY <1>0, <2>1, ChosenStays
  <2>4. (Progress /\ Queued /\ Decided)'
    BY <1>0, <1>2, <2>1 DEF NextPlace, Progress, Queued, Decided, Waiting, world, transport
  <2> QED
    BY <2>2, <2>3, <2>4
<1> QED
  BY <1>1, <1>2 DEF Subscribe

LEMMA SendMessageIInv == ASSUME IInv, SendMessage PROVE IInv'
<1> USE DEF IInv
<1>0. /\ pc = "send" /\ subscribed /\ stage = "ready" /\ request = "none" /\ listening /\ outcome = "pending"
      /\ UNCHANGED <<world, heard, chan, lagged, subscribed, noise, arrived>>
  BY DEF SendMessage, Progress, Waiting
<1>1. CASE Finish("error") /\ UNCHANGED request
  BY <1>0, <1>1, ErrorIInv DEF TypeOK
<1>2. CASE pc' = NextPlace(pc) /\ request' = "sent" /\ UNCHANGED <<listening, probe, outcome>>
  <2>1. UNCHANGED transport /\ ForUs' = ForUs
    BY <1>0, ForUsStays DEF world
  <2>2. TypeOK'
    BY <1>0, <1>2 DEF NextPlace, TypeOK, TransportTypes, transport, world
  <2>3. Chosen'
    BY <1>0, <2>1, ChosenStays
  <2>4. (Progress /\ Queued /\ Decided)'
    BY <1>0, <1>2, <2>1 DEF NextPlace, Progress, Queued, Decided, Waiting, world, transport
  <2> QED
    BY <2>2, <2>3, <2>4
<1> QED
  BY <1>1, <1>2 DEF SendMessage

LEMMA SpawnProbeIInv == ASSUME IInv, SpawnProbe PROVE IInv'
<1> USE DEF IInv
<1>1. UNCHANGED transport /\ ForUs' = ForUs
  BY ForUsStays DEF SpawnProbe, world
<1>2. TypeOK'
  BY DEF SpawnProbe, NextPlace, TypeOK, TransportTypes, transport, world
<1>3. Chosen'
  BY <1>1, ChosenStays DEF SpawnProbe
<1>4. (Progress /\ Queued /\ Decided)'
  BY <1>1 DEF SpawnProbe, NextPlace, Progress, Queued, Decided, Waiting, world, transport
<1> QED
  BY <1>2, <1>3, <1>4

(* The loop reads the head of the channel and stops at a message for us.   *)
LEMMA RecvIInv == ASSUME IInv, Recv PROVE IInv'
<1> USE DEF IInv
<1>0. /\ pc = "wait" /\ stage = "ready" /\ request # "none" /\ listening /\ outcome = "pending"
      /\ subscribed /\ UNCHANGED <<world, heard, lagged, subscribed, request, noise, arrived>>
  BY DEF Recv, Progress, Waiting
<1>1. CASE lagged /\ Finish("error") /\ UNCHANGED chan
  BY <1>0, <1>1, ErrorIInv DEF TypeOK
<1>2. CASE /\ ~lagged /\ chan # <<>> /\ chan' = Tail(chan)
           /\ IF Accepts(Head(chan)) THEN Finish(Head(chan))
                                     ELSE UNCHANGED <<pc, outcome, listening, probe>>
  <2>1. UNCHANGED transport /\ ForUs' = ForUs
    BY <1>0, ForUsStays DEF world
  <2>2. /\ Head(chan) \in Events /\ Head(chan) = chan[1] /\ chan' \in Seq(Events)
        /\ Len(chan) \in Nat /\ Len(chan') = Len(chan) - 1
        /\ \A i \in 1..Len(chan') : chan'[i] = chan[i + 1]
    BY <1>2 DEF TypeOK
  <2>3. Chosen'
    BY <1>0, <2>1, ChosenStays
  <2>4. CASE Accepts(Head(chan))
    <3>1. Finish(Head(chan)) /\ Head(chan) \in ForUs
      BY <1>2, <2>2, <2>4, AcceptsForUs
    <3>2. Head(chan) \in FromDaemon \cup {"peer"}
      BY <3>1 DEF ForUs
    <3>3. TypeOK'
      BY <1>0, <2>2, <3>1, <3>2 DEF TypeOK, TransportTypes, transport, world, Finish, Outcomes
    <3>4. (Progress /\ Queued /\ Decided)'
      BY <1>0, <2>1, <3>1, <3>2
         DEF Progress, Queued, Decided, Waiting, world, transport, Finish, FromDaemon
    <3> QED
      BY <2>3, <3>3, <3>4
  <2>5. CASE ~Accepts(Head(chan))
    <3>1. UNCHANGED <<pc, outcome, listening, probe>> /\ chan[1] \notin ForUs
      BY <1>2, <2>2, <2>5, AcceptsForUs
    <3>2. TypeOK'
      BY <1>0, <2>2, <3>1 DEF TypeOK, TransportTypes, transport, world
    <3>3. \A e \in arrived : \E i \in 1..Len(chan') : chan'[i] = e
      <4> SUFFICES ASSUME NEW e \in arrived PROVE \E i \in 1..Len(chan') : chan'[i] = e
        OBVIOUS
      <4>1. PICK i \in 1..Len(chan) : chan[i] = e
        BY <1>0, <1>2 DEF Queued
      <4>2. i # 1
        BY <3>1, <4>1 DEF Queued
      <4>3. i - 1 \in 1..Len(chan') /\ chan'[i - 1] = e
        BY <2>2, <4>1, <4>2
      <4> QED
        BY <4>3
    <3>4. \A i \in 1..Len(chan') : chan'[i] \in ForUs => chan'[i] \in arrived
      BY <1>0, <2>2 DEF Queued
    <3>5. Queued'
      BY <1>0, <2>1, <3>1, <3>3, <3>4 DEF Queued
    <3>6. (Progress /\ Decided)'
      BY <1>0, <2>1, <3>1 DEF Progress, Decided, Waiting, world, transport
    <3> QED
      BY <2>3, <3>2, <3>5, <3>6
  <2> QED
    BY <2>4, <2>5
<1> QED
  BY <1>1, <1>2 DEF Recv

(* The timer fires on an empty channel: nothing for us has arrived. *)
LEMMA TimerIInv == ASSUME IInv, Timer PROVE IInv'
<1> USE DEF IInv
<1>1. UNCHANGED transport /\ ForUs' = ForUs
  BY ForUsStays DEF Timer, world
<1>2. listening /\ arrived = {}
  <2>1. listening
    BY DEF Timer, Progress, Waiting
  <2>2. 1..Len(chan) = {}
    BY DEF Timer
  <2>3. ~lagged
    BY DEF Timer
  <2> QED
    BY <2>1, <2>2, <2>3 DEF Queued
<1>3. TypeOK'
  BY DEF Timer, TypeOK, TransportTypes, transport, world
<1>4. Chosen'
  BY <1>1, ChosenStays DEF Timer
<1>5. (Progress /\ Queued /\ Decided)'
  BY <1>1, <1>2 DEF Timer, Progress, Queued, Decided, Waiting, world, transport
<1> QED
  BY <1>3, <1>4, <1>5

LEMMA GiveUpIInv ==
  ASSUME IInv, pc = "probing", NEW o \in {"timeout", "pow"}, Finish(o),
         o = "pow" => heard # {} /\ configured < pow[Newest(heard)],
         o = "timeout" /\ Current \in heard => configured >= pow[Current],
         UNCHANGED <<world, heard, chan, lagged, subscribed, request, noise, arrived>>
  PROVE  IInv'
<1> USE DEF IInv
<1>1. UNCHANGED transport /\ ForUs' = ForUs
  BY ForUsStays DEF world
<1>2. TypeOK'
  BY DEF Finish, TypeOK, TransportTypes, transport, world, Outcomes
<1>3. Chosen'
  BY <1>1, ChosenStays
<1>4. (Progress /\ Queued /\ Decided)'
  BY <1>1 DEF Finish, Progress, Queued, Decided, Waiting, Events, world, transport
<1> QED
  BY <1>2, <1>3, <1>4

LEMMA PowIsNat ==
  ASSUME TypeOK
  PROVE  configured \in Nat /\ \A v \in Revisions : pow[v] \in Nat
BY WaitAssumption DEF TypeOK

LEMMA ClassifyIInv == ASSUME IInv, Classify \/ ProbeCap PROVE IInv'
<1>1. CASE ProbeCap
  <2>1. heard = {}
    BY <1>1 DEF ProbeCap, IInv, Progress
  <2> QED
    BY <1>1, <2>1, GiveUpIInv DEF ProbeCap
<1>2. CASE Classify
  <2>1. heard \subseteq Revisions
    BY DEF IInv, TypeOK
  <2>2. CASE heard # {} /\ Unmet(pow[Newest(heard)], configured)
    <3>1. configured < pow[Newest(heard)]
      BY <2>1, <2>2, NewestIsAmong, PowIsNat DEF Unmet, IInv
    <3> QED
      BY <1>2, <2>2, <3>1, GiveUpIInv DEF Classify
  <2>3. CASE ~(heard # {} /\ Unmet(pow[Newest(heard)], configured))
    <3>1. ASSUME Current \in heard PROVE configured >= pow[Current]
      <4>1. Newest(heard) = Current
        BY <2>1, <3>1, NewestIsCurrent
      <4>2. pow[Current] \in Nat /\ configured \in Nat
        BY <2>1, <3>1, PowIsNat DEF IInv
      <4> QED
        BY <2>3, <3>1, <4>1, <4>2 DEF Unmet
    <3> QED
      BY <1>2, <2>3, <3>1, GiveUpIInv DEF Classify
  <2> QED
    BY <2>2, <2>3
<1> QED
  BY <1>1, <1>2
-----------------------------------------------------------------------------
(* The world changes nothing of the client but its channel. *)
LEMMA EnqueueQueued ==
  ASSUME IInv, NEW e \in Events, Enqueue(e), UNCHANGED <<transport, pc, listening, lagged>>
  PROVE  /\ Queued'
         /\ chan' \in Seq(Events) /\ arrived' \subseteq FromDaemon \cup {"peer"}
<1> USE DEF IInv
<1>1. ForUs' = ForUs /\ listening /\ pc \in Waiting
  BY ForUsStays DEF Enqueue, Progress
<1>2. /\ chan' = Append(chan, e) /\ arrived' = arrived \cup ({e} \cap ForUs)
      /\ ForUs \subseteq FromDaemon \cup {"peer"}
  BY DEF Enqueue, ForUs
<1>3. /\ chan' \in Seq(Events) /\ Len(chan) \in Nat /\ Len(chan') = Len(chan) + 1
      /\ chan'[Len(chan) + 1] = e
      /\ \A i \in 1..Len(chan) : chan'[i] = chan[i]
  BY <1>2 DEF TypeOK
<1>4. ~lagged => \A d \in arrived' : \E i \in 1..Len(chan') : chan'[i] = d
  <2> SUFFICES ASSUME ~lagged, NEW d \in arrived' PROVE \E i \in 1..Len(chan') : chan'[i] = d
    OBVIOUS
  <2>1. CASE d \in arrived
    <3>1. PICK i \in 1..Len(chan) : chan[i] = d
      BY <1>1, <2>1 DEF Queued
    <3> QED
      BY <1>3, <3>1
  <2>2. CASE d = e
    BY <1>3, <2>2
  <2> QED
    BY <1>2, <2>1, <2>2
<1>5. \A i \in 1..Len(chan') : chan'[i] \in ForUs => chan'[i] \in arrived'
  <2> SUFFICES ASSUME NEW i \in 1..Len(chan'), chan'[i] \in ForUs PROVE chan'[i] \in arrived'
    OBVIOUS
  <2>1. CASE i = Len(chan) + 1
    BY <1>2, <1>3, <2>1
  <2>2. CASE i # Len(chan) + 1
    <3>1. i \in 1..Len(chan)
      BY <1>3, <2>2
    <3>2. chan[i] \in arrived
      BY <1>1, <1>3, <3>1 DEF Queued
    <3> QED
      BY <1>2, <1>3, <3>1, <3>2
  <2> QED
    BY <2>1, <2>2
<1>6. Queued'
  BY <1>1, <1>2, <1>4, <1>5 DEF Queued, Waiting
<1> QED
  BY <1>2, <1>3, <1>6 DEF TypeOK

(* While a reply can still come in time the client listens and is          *)
(* subscribed; once the receiver is gone nothing is enqueued, so a         *)
(* decision stays right; and a request with too little work is not handled.*)
LEMMA DaemonDelivers ==
  ASSUME IInv, DaemonReply
  PROVE  Enqueue("reply") \/ UNCHANGED <<chan, arrived>>
<1>1. CASE pc \notin {"probing", "done"} /\ Deliver("reply")
  <2>1. pc \in {"spawn", "wait"}
    BY <1>1 DEF DaemonReply, IInv, TypeOK, Progress
  <2>2. listening /\ subscribed
    BY <2>1 DEF IInv, Progress, Waiting
  <2> QED
    BY <1>1, <2>2 DEF Deliver
<1> QED
  BY <1>1 DEF DaemonReply

LEMMA DaemonReplyIInv == ASSUME IInv, DaemonReply PROVE IInv'
<1> USE DEF IInv
<1>0. /\ request = "sent" /\ request' = "handled" /\ configured >= pow[Current]
      /\ UNCHANGED <<world, heard, pc, lagged, listening, subscribed, noise, probe, outcome>>
      /\ Enqueue("reply") \/ UNCHANGED <<chan, arrived>>
  BY DaemonDelivers DEF DaemonReply
<1>1. UNCHANGED transport /\ ForUs' = ForUs
  BY <1>0, ForUsStays DEF world
<1>2. Queued' /\ chan' \in Seq(Events) /\ arrived' \subseteq FromDaemon \cup {"peer"}
  <2>1. CASE Enqueue("reply")
    BY <1>0, <1>1, <2>1, EnqueueQueued DEF Events
  <2>2. CASE UNCHANGED <<chan, arrived>>
    BY <1>0, <1>1, <2>2 DEF Queued, TypeOK
  <2> QED
    BY <1>0, <2>1, <2>2
<1>3. ~listening => arrived' = arrived
  BY <1>0 DEF Enqueue
<1>4. TypeOK'
  BY <1>0, <1>2 DEF TypeOK, TransportTypes, transport, world
<1>5. Chosen'
  BY <1>0, <1>1, ChosenStays DEF Chosen, Progress, Waiting
<1>6. Progress'
  BY <1>0 DEF Progress, Waiting, world, transport
<1>7. Decided'
  BY <1>0, <1>1, <1>3 DEF Decided, Progress, Waiting, world, Events
<1> QED
  BY <1>2, <1>4, <1>5, <1>6, <1>7

LEMMA NoiseIInv == ASSUME IInv, Noise PROVE IInv'
<1> USE DEF IInv
<1>0. /\ noise > 0 /\ noise' = noise - 1
      /\ UNCHANGED <<world, heard, pc, listening, subscribed, request, probe, outcome>>
  BY DEF Noise
<1>1. UNCHANGED transport /\ ForUs' = ForUs
  BY <1>0, ForUsStays DEF world
<1>2. /\ Queued' /\ chan' \in Seq(Events) /\ arrived' \subseteq FromDaemon \cup {"peer"}
      /\ lagged' \in BOOLEAN
  <2>1. ASSUME NEW e \in {"info", "elsewhere", "late", "peer"}, Enqueue(e), UNCHANGED lagged
        PROVE  /\ Queued' /\ chan' \in Seq(Events) /\ arrived' \subseteq FromDaemon \cup {"peer"}
               /\ lagged' \in BOOLEAN
    BY <1>0, <1>1, <2>1, EnqueueQueued DEF Events, TypeOK
  <2>2. ASSUME listening, lagged' = TRUE, arrived' = arrived,
               NEW n \in 0..Len(chan), chan' = SubSeq(chan, n + 1, Len(chan))
        PROVE  /\ Queued' /\ chan' \in Seq(Events) /\ arrived' \subseteq FromDaemon \cup {"peer"}
               /\ lagged' \in BOOLEAN
    <3>1. chan \in Seq(Events) /\ Len(chan) \in Nat /\ n \in Nat /\ n <= Len(chan)
      BY DEF TypeOK
    <3>2. n + 1 \in 1..(Len(chan) + 1) /\ Len(chan) \in n..Len(chan)
      BY <3>1
    <3>3. /\ chan' \in Seq(Events) /\ Len(chan') = Len(chan) - n
          /\ \A i \in 1..Len(chan') : chan'[i] = chan[n + i]
      BY <2>2, <3>1, <3>2, SubSeqProperties
    <3>4. \A i \in 1..Len(chan') : n + i \in 1..Len(chan)
      BY <3>1, <3>3
    <3>5. pc \in Waiting
      BY <2>2 DEF Progress
    <3> QED
      BY <1>0, <1>1, <2>2, <3>3, <3>4, <3>5 DEF Queued, TypeOK, Waiting
  <2> QED
    BY <2>1, <2>2 DEF Noise
<1>3. ~listening => arrived' = arrived
  BY DEF Noise, Enqueue
<1>4. noise' \in 0..MaxNoise
  BY <1>0, WaitAssumption DEF TypeOK
<1>5. TypeOK'
  BY <1>0, <1>2, <1>4 DEF TypeOK, TransportTypes, transport, world
<1>6. Chosen'
  BY <1>0, <1>1 DEF Chosen, transport, Spoken
<1>7. (Progress /\ Decided)'
  BY <1>0, <1>1, <1>3 DEF Progress, Decided, Waiting, world, transport, Events
<1> QED
  BY <1>2, <1>5, <1>6, <1>7

LEMMA ProbeAnswerIInv == ASSUME IInv, ProbeAnswer PROVE IInv'
<1> USE DEF IInv
<1>0. /\ probe = "running" /\ probe' = "answered" /\ heard' \subseteq Revisions
      /\ UNCHANGED <<world, pc, lagged, listening, subscribed, request, noise, outcome>>
  BY DEF ProbeAnswer
<1>1. UNCHANGED transport /\ ForUs' = ForUs
  BY <1>0, ForUsStays DEF world
<1>2. /\ Queued' /\ chan' \in Seq(Events) /\ arrived' \subseteq FromDaemon \cup {"peer"}
  <2>1. CASE Enqueue("info")
    BY <1>0, <1>1, <2>1, EnqueueQueued DEF Events
  <2>2. CASE UNCHANGED <<chan, arrived>>
    BY <1>0, <1>1, <2>2 DEF Queued, TypeOK
  <2> QED
    BY <2>1, <2>2 DEF ProbeAnswer
<1>3. ~listening => arrived' = arrived
  BY DEF ProbeAnswer, Enqueue
<1>4. TypeOK'
  BY <1>0, <1>2 DEF TypeOK, TransportTypes, transport, world
<1>5. Chosen'
  BY <1>0, <1>1 DEF Chosen, transport, Spoken
<1>6. (Progress /\ Decided)'
  BY <1>0, <1>1, <1>3 DEF Progress, Decided, Waiting, world, transport, Events
<1> QED
  BY <1>2, <1>4, <1>5, <1>6

LEMMA StepIInv == IInv /\ [Next]_vars => IInv'
<1> SUFFICES ASSUME IInv, [Next]_vars PROVE IInv'
  OBVIOUS
<1>1. CASE UNCHANGED vars
  BY <1>1 DEF vars, transport, IInv, TypeOK, TransportTypes, Chosen, Progress, Queued, Decided,
              ForUs, v2, Spoken
<1> QED
  BY <1>1, StartupIInv, OpenNotificationsIInv, SubscribeIInv, SendMessageIInv, SpawnProbeIInv,
     RecvIInv, TimerIInv, ClassifyIInv, DaemonReplyIInv, NoiseIInv, ProbeAnswerIInv
     DEF Next, Client, World

LEMMA Invariance == Spec => []IInv
BY InitIInv, StepIInv, PTL DEF Spec
-----------------------------------------------------------------------------
(* The variables keep their types. *)
THEOREM TypeCorrect == Spec => []TypeOK
BY Invariance, PTL DEF IInv

(* However many relays there are and whatever they hold: a transport asked *)
(* for is the one spoken, or nothing is sent; left to itself the client    *)
(* speaks the daemon's transport if a relay that answered had the current  *)
(* info event (parse_transport_env, resolve_transport).                    *)
THEOREM RightTransportAlways == Spec => []RightTransport
<1>1. IInv => RightTransport
  BY DEF IInv, TypeOK, TransportTypes, Settings, Chosen, Progress, RightTransport, Usable, Spoken
<1> QED
  BY Invariance, <1>1, PTL

(* Silence is reported only if the relays delivered nothing for the key    *)
(* while the wait lasted: wait_for_dm listens and subscribes before it     *)
(* sends, and a channel that dropped notifications ends it with an error.  *)
THEOREM NoMissedReplyAlways == Spec => []NoMissedReply
<1>1. IInv => NoMissedReply
  BY DEF IInv, Decided, NoMissedReply
<1> QED
  BY Invariance, <1>1, PTL

(* Whatever older info events came with the current one: a request the     *)
(* daemon handled is not said to lack work, and one that lacks it is not   *)
(* passed off as a timeout (wait_for_dm, fetch_required_pow_with).         *)
THEOREM PowBlameIsRightAlways == Spec => []PowBlameIsRight
<1>1. IInv => PowBlameIsRight
  <2> SUFFICES ASSUME IInv, Current \in heard
               PROVE  /\ outcome = "pow" => request = "sent"
                      /\ outcome = "timeout" => configured >= pow[Current]
    BY DEF PowBlameIsRight
  <2>1. heard \subseteq Revisions
    BY DEF IInv, TypeOK
  <2>2. Newest(heard) = Current /\ pow[Current] \in Nat /\ configured \in Nat
    BY <2>1, NewestIsCurrent, PowIsNat DEF IInv
  <2>3. ASSUME outcome = "pow" PROVE request = "sent"
    <3>1. request # "none" /\ configured < pow[Current]
      BY <2>2, <2>3 DEF IInv, Decided
    <3> QED
      BY <2>2, <3>1 DEF IInv, TypeOK, Progress
  <2> QED
    BY <2>3 DEF IInv, Decided
<1> QED
  BY Invariance, <1>1, PTL

(* Submission is claimed only of a request that left                       *)
(* (execute_add_bond_invoice).                                             *)
THEOREM BondClaimIsHonestAlways == Spec => []BondClaimIsHonest
<1>1. IInv => BondClaimIsHonest
  BY DEF IInv, Decided, BondClaimIsHonest, BondSubmitted
<1> QED
  BY Invariance, <1>1, PTL
-----------------------------------------------------------------------------
(* The wait implements the request/reply exchange: its steps are submit,   *)
(* arrive, answer, give up and fail, or change nothing of it.              *)
LEMMA InitRefines == Init => RR!Init
BY DEF Init, RR!Init

LEMMA StutterRefines ==
  ASSUME UNCHANGED <<pow, configured, arrived, outcome>>,
         (request # "none") <=> (request' # "none")
  PROVE  UNCHANGED RR!vars
BY DEF RR!vars

LEMMA FailRefines ==
  ASSUME IInv, pc # "done", Finish("error"), UNCHANGED <<pow, configured, arrived, request>>
  PROVE  RR!Fail
BY DEF IInv, Progress, Finish, RR!Fail

LEMMA ArriveRefines ==
  ASSUME IInv, NEW e \in Events, Enqueue(e), UNCHANGED <<transport, pow, configured, outcome>>,
         (request # "none") <=> (request' # "none")
  PROVE  RR!Arrive \/ UNCHANGED RR!vars
<1>1. arrived' = arrived \cup ({e} \cap ForUs) /\ listening
  BY DEF Enqueue, ForUs
<1>2. CASE e \in ForUs
  <2>1. e \in FromDaemon \cup {"peer"} /\ arrived' = arrived \cup {e}
    BY <1>1, <1>2 DEF ForUs
  <2>2. outcome = "pending"
    BY <1>1 DEF IInv, Progress, Waiting
  <2> QED
    BY <2>1, <2>2 DEF RR!Arrive
<1>3. CASE e \notin ForUs
  BY <1>1, <1>3, StutterRefines
<1> QED
  BY <1>2, <1>3

LEMMA StepRefines == IInv /\ [Next]_vars => [RR!Next]_(RR!vars)
<1> SUFFICES ASSUME IInv, [Next]_vars PROVE RR!Next \/ UNCHANGED RR!vars
  OBVIOUS
<1> USE DEF RR!Next
<1>1. CASE UNCHANGED vars
  BY <1>1, StutterRefines DEF vars
<1>2. CASE Startup
  BY <1>2, StutterRefines, FailRefines DEF Startup
<1>3. CASE OpenNotifications
  BY <1>3, StutterRefines, FailRefines DEF OpenNotifications, world
<1>4. CASE Subscribe
  BY <1>4, StutterRefines, FailRefines DEF Subscribe, world
<1>5. CASE SendMessage
  <2>1. CASE Finish("error") /\ UNCHANGED request
    BY <1>5, <2>1, FailRefines DEF SendMessage, world
  <2>2. CASE request' = "sent" /\ UNCHANGED outcome
    <3>1. request = "none" /\ outcome = "pending"
      BY <1>5 DEF SendMessage, IInv, Progress
    <3> QED
      BY <1>5, <2>2, <3>1 DEF SendMessage, world, RR!Submit
  <2> QED
    BY <1>5, <2>1, <2>2 DEF SendMessage
<1>6. CASE SpawnProbe
  BY <1>6, StutterRefines DEF SpawnProbe, world
<1>7. CASE Recv
  <2>1. CASE Finish("error")
    BY <1>7, <2>1, FailRefines DEF Recv, world
  <2>2. CASE chan # <<>> /\ Accepts(Head(chan)) /\ Finish(Head(chan))
    <3>1. Head(chan) = chan[1] /\ 1 \in 1..Len(chan) /\ Head(chan) \in Events
      BY <2>2 DEF IInv, TypeOK
    <3>2. Head(chan) \in arrived
      BY <1>7, <2>2, <3>1, AcceptsForUs DEF Recv, IInv, Progress, Queued, Waiting
    <3>3. outcome = "pending" /\ request # "none" /\ outcome' = Head(chan)
      BY <1>7, <2>2 DEF Recv, IInv, Progress, Finish
    <3> QED
      BY <1>7, <3>2, <3>3 DEF Recv, world, RR!Answer
  <2>3. CASE UNCHANGED outcome
    BY <1>7, <2>3, StutterRefines DEF Recv, world
  <2> QED
    BY <1>7, <2>1, <2>2, <2>3 DEF Recv
<1>8. CASE Timer
  BY <1>8, StutterRefines DEF Timer, world
<1>9. CASE Classify \/ ProbeCap
  <2>1. /\ outcome = "pending" /\ request # "none" /\ arrived = {}
        /\ UNCHANGED <<world, request, arrived>>
    BY <1>9 DEF Classify, ProbeCap, IInv, Progress, Queued
  <2>2. outcome' = "timeout" \/ (outcome' = "pow" /\ \E v \in Revisions : configured < pow[v])
    <3>1. heard # {} /\ Unmet(pow[Newest(heard)], configured) => \E v \in Revisions : configured < pow[v]
      <4> SUFFICES ASSUME heard # {}, Unmet(pow[Newest(heard)], configured)
                   PROVE  \E v \in Revisions : configured < pow[v]
        OBVIOUS
      <4>1. Newest(heard) \in Revisions
        BY NewestIsAmong DEF IInv, TypeOK
      <4> QED
        BY <4>1, PowIsNat DEF Unmet, IInv
    <3> QED
      BY <1>9, <3>1 DEF Classify, ProbeCap, Finish
  <2> QED
    BY <2>1, <2>2 DEF world, RR!GiveUp
<1>10. CASE DaemonReply
  BY <1>10, DaemonDelivers, StutterRefines, ArriveRefines DEF DaemonReply, world, Events
<1>11. CASE Noise
  BY <1>11, StutterRefines, ArriveRefines DEF Noise, world, Events
<1>12. CASE ProbeAnswer
  BY <1>12, StutterRefines, ArriveRefines DEF ProbeAnswer, world, Events
<1> QED
  BY <1>1, <1>2, <1>3, <1>4, <1>5, <1>6, <1>7, <1>8, <1>9, <1>10, <1>11, <1>12
     DEF Next, Client, World

(* Every step of the client, the relays and the daemon is a step of the    *)
(* exchange or none; that it ends is left to model checking.               *)
THEOREM WaitIsAnExchange == Spec => RR!Init /\ [][RR!Next]_(RR!vars)
BY InitRefines, StepRefines, Invariance, PTL DEF Spec
=============================================================================
