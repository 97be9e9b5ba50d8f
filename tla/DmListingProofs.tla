-------------------------- MODULE DmListingProofs --------------------------
(***************************************************************************)
(* DmListing for any trade index, windows, set-back and --since.  The      *)
(* invariant says where a message that is asked for can be while the scan  *)
(* runs: its key is still ahead, it is fetched and not yet parsed, or it   *)
(* is shown.                                                               *)
(***************************************************************************)
EXTENDS DmListing, TLAPS, FiniteSetTheorems

(* The outer time is set back by Tweak at most, and only on gift wraps. *)
Dated ==
  /\ IsFiniteSet(inbox)
  /\ \A m \in inbox : m.outer >= m.sent - (IF Wrapped(m.form) THEN Tweak ELSE 0)

(* What is being parsed belongs to the key being scanned. *)
Scanning ==
  /\ pc \in {"fetch", "parse"} => index \in FirstKey..LastKey
  /\ pc # "parse" => todo = {}
  /\ pc = "start" => shown = {}
  /\ \A m \in todo : m.key = index
  /\ pc = "retain" => mode = "shared"

Collected ==
  \A m \in shown :
    /\ m.key \in FirstKey..LastKey
    /\ Decodes(m)
    /\ mode # "shared" => m.sent >= began - since
    /\ pc = "done" /\ mode = "shared" => m.form = "toUser" /\ (since > 0 => m.sent >= began - since)

Pending(m) ==
  \/ pc = "fetch" /\ m.key >= index
  \/ pc = "parse" /\ (m.key > index \/ m \in todo)

Covered ==
  pc \notin {"start", "failed"} /\ ~partial /\ since + Slack <= Window =>
    \A m \in before : Asked(m) => Pending(m) \/ m \in shown

IInv == TypeOK /\ Dated /\ Scanning /\ Collected /\ Covered
-----------------------------------------------------------------------------
LEMMA Constants ==
  /\ TradeIndex \in Nat \ {0} /\ Tweak \in Nat /\ FakeSince \in Nat /\ HalfHour \in Nat
  /\ SevenDays \in Nat /\ MaxMessages \in Nat /\ \A s \in Sinces : s \in Nat
BY DmListingAssumption

(* The keys a command scans. *)
LEMMA Keys ==
  ASSUME TypeOK
  PROVE  /\ FirstKey \in 0..1 /\ LastKey \in 0..TradeIndex /\ FirstKey <= LastKey
         /\ Window \in Nat /\ Slack \in Nat /\ since \in Nat
BY Constants DEF TypeOK, FirstKey, LastKey, Window, Slack, Modes

(* A message that is asked for passes the filter of its own key. *)
LEMMA AskedMatches ==
  ASSUME TypeOK, Dated, since + Slack <= Window, NEW m \in inbox, Asked(m), m.key = index
  PROVE  Matches(m)
<1> USE Constants, Keys DEF TypeOK, Message
<1>1. m.sent \in Nat /\ m.outer \in Int /\ m.sent >= now - since
  BY DEF Asked
<1>2. (IF Wrapped(m.form) THEN Tweak ELSE 0) <= Slack
  BY DEF Asked, Meant, Wrapped, Slack, Modes, Transports
<1>3. m.outer >= m.sent - (IF Wrapped(m.form) THEN Tweak ELSE 0)
  BY DEF Dated
<1>4. m.outer >= now - Window
  BY <1>1, <1>2, <1>3
<1>5. FilterKind(m.form)
  BY DEF Asked, Meant, FilterKind, SharedWraps, EventKind, Wrapped, Modes, Transports
<1> QED
  BY <1>4, <1>5 DEF Matches

(* It also decodes, and is recent enough for the loop. *)
LEMMA AskedDecodes ==
  ASSUME TypeOK, NEW m \in inbox, Asked(m)
  PROVE  Decodes(m) /\ Recent(m)
BY DEF Asked, Meant, Decodes, UnwrapsShared, Recent, TypeOK, Modes

LEMMA InitIInv == Init => IInv
<1> SUFFICES ASSUME Init PROVE IInv
  OBVIOUS
<1>1. TypeOK
  <2>1. began \in 0..now /\ index \in 0..TradeIndex + 1
    BY Constants DEF Init
  <2> QED
    BY <2>1 DEF Init, TypeOK
<1>2. Dated
  BY FS_EmptySet DEF Init, Dated
<1>3. Scanning /\ Collected /\ Covered
  BY DEF Init, Scanning, Collected, Covered
<1> QED
  BY <1>1, <1>2, <1>3 DEF IInv

-----------------------------------------------------------------------------
(* The steps of the world only add to the inbox or move the clock. *)
LEMMA ArrivesIInv ==
  ASSUME IInv, NEW key \in 0..TradeIndex, NEW form \in Forms,
         NEW back \in 0..Tweak, ~Wrapped(form) => back = 0, Arrives(key, form, back)
  PROVE  IInv'
<1> USE Constants DEF IInv
<1> DEFINE new == [n |-> Cardinality(inbox) + 1, key |-> key, form |-> form,
                   sent |-> now, outer |-> now - back]
<1>3. back \in Nat /\ back <= Tweak /\ now \in Nat
  BY DEF TypeOK
<1>4. Cardinality(inbox) \in Nat
  BY FS_CardinalityType DEF Dated
<1>5. new \in Message
  BY <1>3, <1>4 DEF Message
<1>6. /\ inbox' = inbox \cup {new}
      /\ new.outer >= new.sent - (IF Wrapped(new.form) THEN Tweak ELSE 0)
      /\ new.outer <= new.sent /\ new.sent <= now
  BY <1>3 DEF Arrives
<1>7. UNCHANGED <<now, command, pc, began, before, index, todo, shown, partial>>
  BY DEF Arrives
<1> HIDE DEF new
<1>8. TypeOK'
  BY <1>5, <1>6, <1>7 DEF TypeOK, command
<1>9. Dated'
  BY <1>6, <1>7, FS_AddElement DEF Dated, command, Wrapped
<1>10. (Scanning /\ Collected /\ Covered)'
  BY <1>7 DEF Scanning, Collected, Covered, Pending, Asked, Meant, Decodes, UnwrapsShared, FirstKey, LastKey,
             Slack, Window, command
<1> QED
  BY <1>8, <1>9, <1>10

(* However a protocol message is published. *)
LEMMA PublishIInv ==
  ASSUME IInv, NEW key \in 0..TradeIndex, NEW form \in Forms, Publish(key, form)
  PROVE  IInv'
<1>1. PICK back \in (IF Wrapped(form) THEN 0..Tweak ELSE {0}) : Arrives(key, form, back)
  BY DEF Publish
<1>2. back \in 0..Tweak /\ (~Wrapped(form) => back = 0)
  BY <1>1, Constants
<1> QED
  BY <1>1, <1>2, ArrivesIInv

LEMMA SendersIInv == ASSUME IInv, Senders PROVE IInv'
<1>1. CASE MostroSends
  BY <1>1, PublishIInv DEF MostroSends, Forms
<1>2. CASE SendDm
  BY <1>2, PublishIInv DEF SendDm, Forms
<1>3. CASE AdmSendDm
  <2>1. PICK key \in 1..TradeIndex : Publish(key, "sendDm")
    BY <1>3 DEF AdmSendDm
  <2>2. key \in 0..TradeIndex
    BY Constants
  <2> QED
    BY <2>1, <2>2, PublishIInv DEF Forms
<1>4. CASE DmToUser
  <2>1. PICK form \in {"toUser", "own"}, back \in 0..Tweak : Arrives(0, form, back)
    BY <1>4 DEF DmToUser
  <2>2. 0 \in 0..TradeIndex /\ form \in Forms /\ Wrapped(form)
    BY Constants DEF Forms, Wrapped
  <2> QED
    BY <2>1, <2>2, ArrivesIInv
<1>5. CASE PeerChat
  <2>1. PICK key \in 1..TradeIndex : Arrives(key, "chat", 0)
    BY <1>5 DEF PeerChat
  <2>2. key \in 0..TradeIndex /\ 0 \in 0..Tweak
    BY Constants
  <2> QED
    BY <2>1, <2>2, ArrivesIInv DEF Forms
<1> QED
  BY <1>1, <1>2, <1>3, <1>4, <1>5 DEF Senders

LEMMA TickIInv == ASSUME IInv, Tick PROVE IInv'
<1> USE Constants, Keys DEF IInv, Tick, command
<1>1. TypeOK'
  BY DEF TypeOK, Message
<1>2. Dated'
  BY DEF Dated, Wrapped
<1>3. Scanning' /\ Collected'
  BY DEF Scanning, Collected, Decodes, UnwrapsShared, FirstKey, LastKey
<1>4. Covered'
  <2>1. \A m \in before : Asked(m)' => Asked(m)
    BY DEF TypeOK, Message, Asked, Meant, FirstKey, LastKey
  <2> QED
    BY <2>1 DEF Covered, Pending, Slack, Window
<1> QED
  BY <1>1, <1>2, <1>3, <1>4

LEMMA StartIInv == ASSUME IInv, Start PROVE IInv'
<1> USE Constants, Keys DEF IInv, Start, command
<1>1. TypeOK'
  BY DEF TypeOK
<1>2. Dated'
  BY DEF Dated, Wrapped
<1>4. Scanning'
  BY DEF Scanning, FirstKey, LastKey, TypeOK
<1>5. Collected'
  BY DEF Collected, Scanning
<1>6. Covered'
  BY DEF Covered, Pending, Asked, Meant, TypeOK, Message, FirstKey, LastKey
<1> QED
  BY <1>1, <1>2, <1>4, <1>5, <1>6

(* An answer holds nothing but matches, and, if complete, every match. *)
LEMMA FetchIInv == ASSUME IInv, Fetch PROVE IInv'
<1> USE Constants, Keys DEF IInv, command
<1>1. CASE pc' = "failed"
  <2>1. /\ shown' = {} /\ UNCHANGED <<now, inbox, command, began, before, index, todo, partial>>
        /\ pc = "fetch"
    BY <1>1 DEF Fetch
  <2>2. TypeOK'
    BY <1>1, <2>1 DEF TypeOK
  <2>3. Dated'
    BY <2>1 DEF Dated, Wrapped
  <2>4. Scanning' /\ Collected' /\ Covered'
    BY <1>1, <2>1 DEF Scanning, Collected, Covered
  <2> QED
    BY <2>2, <2>3, <2>4
<1>2. CASE pc' # "failed"
  <2>1. PICK answer \in SUBSET {m \in inbox : Matches(m)} :
          /\ todo' = answer
          /\ partial' = (partial \/ answer # {m \in inbox : Matches(m)})
          /\ pc' = "parse"
          /\ UNCHANGED shown
    BY <1>2 DEF Fetch
  <2>2. pc = "fetch" /\ UNCHANGED <<now, inbox, command, began, before, index>>
    BY DEF Fetch
  <2>3. TypeOK'
    BY <2>1, <2>2 DEF TypeOK
  <2>4. Dated'
    BY <2>2 DEF Dated, Wrapped
  <2>5. Scanning'
    BY <2>1, <2>2 DEF Scanning, FirstKey, LastKey, Matches
  <2>6. Collected'
    BY <2>1, <2>2 DEF Collected, Decodes, UnwrapsShared, FirstKey, LastKey
  <2>7. Covered'
    <3> SUFFICES ASSUME ~partial', since + Slack <= Window, NEW m \in before, Asked(m)
                 PROVE  Pending(m)' \/ m \in shown'
      BY <2>2 DEF Covered, Asked, Meant, Slack, Window, FirstKey, LastKey
    <3>1. ~partial /\ answer = {k \in inbox : Matches(k)}
      BY <2>1 DEF TypeOK
    <3>2. m.key >= index \/ m \in shown
      BY <2>2, <3>1 DEF Covered, Pending
    <3>3. m \in inbox /\ m.key \in Int /\ index \in Int
      BY DEF TypeOK, Message
    <3>4. CASE m.key = index
      BY <2>1, <3>1, <3>3, <3>4, AskedMatches DEF Pending
    <3>5. CASE m.key > index
      BY <2>1, <2>2, <3>5 DEF Pending
    <3>6. m.key = index \/ m.key > index \/ m \in shown
      BY <3>2, <3>3
    <3> QED
      BY <2>1, <3>4, <3>5, <3>6
  <2> QED
    BY <2>3, <2>4, <2>5, <2>6, <2>7
<1> QED
  BY <1>1, <1>2

LEMMA ParseIInv == ASSUME IInv, Parse PROVE IInv'
<1> USE Constants, Keys DEF IInv, command
<1>1. PICK m \in todo :
        /\ todo' = todo \ {m}
        /\ shown' = IF Decodes(m) /\ (mode # "shared" => Recent(m)) THEN shown \cup {m} ELSE shown
  BY DEF Parse
<1>2. pc = "parse" /\ UNCHANGED <<now, inbox, command, pc, began, before, index, partial>>
  BY DEF Parse
<1>3. m \in inbox /\ m.key = index /\ m.sent \in Nat
  BY DEF TypeOK, Message, Scanning
<1>4. TypeOK'
  BY <1>1, <1>2, <1>3 DEF TypeOK
<1>5. Dated'
  BY <1>2 DEF Dated, Wrapped
<1>6. Scanning'
  BY <1>1, <1>2 DEF Scanning, FirstKey, LastKey
<1>7. Collected'
  <2>1. m.key \in FirstKey..LastKey
    BY <1>2, <1>3 DEF Scanning
  <2>2. Recent(m) => m.sent >= began - since
    BY <1>3 DEF Recent, TypeOK
  <2> QED
    BY <1>1, <1>2, <2>1, <2>2 DEF Collected, Decodes, UnwrapsShared, FirstKey, LastKey
<1>8. Covered'
  <2> SUFFICES ASSUME ~partial, since + Slack <= Window, NEW k \in before, Asked(k)
               PROVE  Pending(k)' \/ k \in shown'
    BY <1>2 DEF Covered, Asked, Meant, Slack, Window, FirstKey, LastKey
  <2>1. k.key > index \/ k \in todo \/ k \in shown
    BY <1>2 DEF Covered, Pending
  <2>2. CASE k = m
    BY <1>1, <1>3, <2>2, AskedDecodes
  <2>3. CASE k # m
    BY <1>1, <1>2, <2>1, <2>3 DEF Pending
  <2> QED
    BY <2>2, <2>3
<1> QED
  BY <1>4, <1>5, <1>6, <1>7, <1>8

(* Nothing is left of the key, so what is ahead starts with the next one. *)
LEMMA NextKeyIInv == ASSUME IInv, NextKey PROVE IInv'
<1> USE Constants, Keys DEF IInv, command
<1>1. /\ pc = "parse" /\ todo = {} /\ index' = index + 1
      /\ pc' = IF index < LastKey THEN "fetch" ELSE IF mode = "shared" THEN "retain" ELSE "done"
      /\ UNCHANGED <<now, inbox, command, began, before, todo, shown, partial>>
  BY DEF NextKey
<1>2. index \in FirstKey..LastKey /\ index \in Nat
  BY <1>1 DEF Scanning, TypeOK
<1>3. TypeOK'
  BY <1>1, <1>2 DEF TypeOK
<1>4. Dated'
  BY <1>1 DEF Dated, Wrapped
<1>5. Scanning'
  BY <1>1, <1>2 DEF Scanning, FirstKey, LastKey
<1>6. Collected'
  BY <1>1 DEF Collected, Decodes, UnwrapsShared, FirstKey, LastKey
<1>7. Covered'
  <2> SUFFICES ASSUME ~partial, since + Slack <= Window, NEW k \in before, Asked(k)
               PROVE  Pending(k)' \/ k \in shown
    BY <1>1 DEF Covered, Asked, Meant, Slack, Window, FirstKey, LastKey
  <2>1. k.key > index \/ k \in shown
    BY <1>1 DEF Covered, Pending
  <2>2. k.key \in Int /\ k.key <= LastKey
    BY DEF Asked, Meant, TypeOK, Message
  <2> QED
    BY <1>1, <1>2, <2>1, <2>2 DEF Pending
<1> QED
  BY <1>3, <1>4, <1>5, <1>6, <1>7

LEMMA RetainIInv == ASSUME IInv, Retain PROVE IInv'
<1> USE Constants, Keys DEF IInv, command
<1>1. /\ pc = "retain" /\ pc' = "done" /\ mode = "shared"
      /\ shown' = {m \in shown : (since > 0 => Recent(m)) /\ m.form = "toUser"}
      /\ UNCHANGED <<now, inbox, command, began, before, index, todo, partial>>
  BY DEF Retain, Scanning
<1>2. TypeOK'
  BY <1>1 DEF TypeOK
<1>3. Dated'
  BY <1>1 DEF Dated, Wrapped
<1>4. Scanning'
  BY <1>1 DEF Scanning, FirstKey, LastKey
<1>5. Collected'
  <2>1. \A m \in shown : Recent(m) => m.sent >= began - since
    BY DEF Recent, TypeOK, Message
  <2> QED
    BY <1>1, <2>1 DEF Collected, Decodes, UnwrapsShared, FirstKey, LastKey
<1>6. Covered'
  <2> SUFFICES ASSUME ~partial, since + Slack <= Window, NEW k \in before, Asked(k)
               PROVE  k \in shown'
    BY <1>1 DEF Covered, Asked, Meant, Slack, Window, FirstKey, LastKey
  <2>1. k \in shown
    BY <1>1 DEF Covered, Pending
  <2>2. Recent(k)
    BY AskedDecodes DEF TypeOK
  <2>3. k.form = "toUser"
    BY <1>1 DEF Asked, Meant
  <2> QED
    BY <1>1, <2>1, <2>2, <2>3
<1> QED
  BY <1>2, <1>3, <1>4, <1>5, <1>6

LEMMA StepIInv == IInv /\ [Next]_vars => IInv'
<1> SUFFICES ASSUME IInv, [Next]_vars PROVE IInv'
  OBVIOUS
<1>1. CASE UNCHANGED vars
  BY <1>1 DEF vars, IInv, TypeOK, Dated, Scanning, Collected, Covered, Pending, Asked, Meant,
              Decodes, UnwrapsShared, Wrapped, FirstKey, LastKey, Slack, Window
<1> QED
  BY <1>1, SendersIInv, TickIInv, StartIInv, FetchIInv, ParseIInv, NextKeyIInv, RetainIInv DEF Next

LEMMA Invariance == Spec => []IInv
BY InitIInv, StepIInv, PTL DEF Spec
-----------------------------------------------------------------------------
(* The variables keep their types. *)
THEOREM TypeCorrect == Spec => []TypeOK
BY Invariance, PTL DEF IInv

(* Nothing is printed that was not asked for (parse_dm_events,             *)
(* execute_get_dm_user).                                                   *)
THEOREM ShownIsAskedForAlways == Spec => []ShownIsAskedFor
<1>1. IInv => ShownIsAskedFor
  <2> SUFFICES ASSUME IInv, pc = "done", NEW m \in shown
               PROVE  /\ m.key \in FirstKey..LastKey
                      /\ m.form \in (CASE mode \in {"user", "admin"} -> {"mostro", "sendDm"}
                                       [] mode = "fromUser" -> {"chat"}
                                       [] mode = "shared" -> {"toUser"})
                      /\ ~(mode = "shared" /\ since = 0) => m.sent >= began - since
    BY DEF ShownIsAskedFor
  <2>1. m.key \in FirstKey..LastKey /\ Decodes(m) /\ mode \in Modes /\ since \in Nat
    BY Keys DEF IInv, Collected, TypeOK
  <2>2. ~(mode = "shared" /\ since = 0) => m.sent >= began - since
    BY <2>1 DEF IInv, Collected
  <2>3. CASE mode = "shared"
    BY <2>1, <2>2, <2>3 DEF IInv, Collected
  <2>4. CASE mode # "shared"
    BY <2>1, <2>2, <2>4 DEF Decodes, UnwrapsShared, Modes
  <2> QED
    BY <2>3, <2>4
<1> QED
  BY Invariance, <1>1, PTL

(* Whatever the windows and the set-back: a --since that fits into the     *)
(* window with the set-back to spare misses nothing (create_filter,        *)
(* fetch_events_list, fetch_gift_wraps_for_shared_key).                    *)
THEOREM WindowCoversAlways == Spec => []WindowCovers
<1>1. IInv => WindowCovers
  BY DEF IInv, Covered, Pending, WindowCovers, Finished, AllShown
<1> QED
  BY Invariance, <1>1, PTL
=============================================================================
