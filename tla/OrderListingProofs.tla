------------------------- MODULE OrderListingProofs -------------------------
(***************************************************************************)
(* OrderListing for any events, filters, relays and limits: the loop of    *)
(* parse_orders_events and the retain and dedup of parse_dispute_events    *)
(* list the newest revision of each id, whatever the order of the events.  *)
(***************************************************************************)
EXTENDS OrderListing, TLAPS, FiniteSetTheorems, WellFoundedInduction

Seen == fetched \ todo

(* The map holds, under every id seen, its newest usable event seen. *)
Reduced ==
  /\ what = "orders" =>
       /\ \A i \in DOMAIN latest : UsableOrder(latest[i])
       /\ \A e \in Seen : UsableOrder(e) => e.id \in DOMAIN latest /\ e.at <= latest[e.id].at
  /\ pc = "fetch" => fetched = {}

(* The list of disputes holds the usable events seen, and no others. *)
Gathered ==
  what = "disputes" =>
    /\ \A i \in DOMAIN found : UsableDispute(found[i])
    /\ \A e \in Seen : UsableDispute(e) => \E i \in DOMAIN found : found[i] = e

Listed ==
  /\ pc # "done" => list = << >>
  /\ ListedIsNewest /\ OncePerId

(* What the relays hold does not change once they have answered. *)
Answered ==
  /\ \A e \in published : e.at <= now
  /\ pc # "fetch" =>
       \E R \in SUBSET Relays : fetched \in NewestOf(SevenDays(UNION {held[r] : r \in R}))

(* The list leaves out nothing of what it is made from. *)
Printed ==
  pc = "done" =>
    /\ todo = {}
    /\ Range(list) = IF what = "orders" THEN Requested ELSE {found[i] : i \in FirstOfId(Retained)}

IInv == TypeOK /\ IsFiniteSet(published) /\ Reduced /\ Gathered /\ Listed /\ Answered /\ Printed
-----------------------------------------------------------------------------
(* A sorted arrangement lists the members of a set, each once. *)
LEMMA ArrangedFacts ==
  ASSUME NEW S, IsFiniteSet(S), NEW s \in Arranged(S)
  PROVE  /\ s \in Seq(S) /\ DOMAIN s = 1..Cardinality(S)
         /\ \A i, j \in DOMAIN s : s[i] = s[j] => i = j
         /\ Range(s) = S
<1>1. Cardinality(S) \in Nat
  BY FS_CardinalityType
<1>2. s \in [1..Cardinality(S) -> S] /\ IsInjective(s)
  BY DEF Arranged, Bijection, Injection
<1>3. \A e \in S : \E i \in 1..Cardinality(S) : s[i] = e
  BY DEF Arranged, Bijection, Surjection
<1>4. Range(s) = S
  BY <1>2, <1>3 DEF Range
<1> QED
  BY <1>1, <1>2, <1>4 DEF IsInjective

(* A set of naturals has a least member. *)
LEMMA Smallest ==
  ASSUME NEW S \in SUBSET Nat, S # {}
  PROVE  \E m \in S : \A k \in S : m <= k
<1> DEFINE Less == OpToRel(<, Nat)
<1>1. PICK m \in S : \A k \in S : ~(<<k, m>> \in Less)
  BY NatLessThanWellFounded, WFMin
<1>2. \A k \in S : k < m => <<k, m>> \in Less
  BY DEF OpToRel
<1> HIDE DEF Less
<1>3. \A k \in S : ~(k < m)
  BY <1>1, <1>2
<1> QED
  BY <1>3

(* It depends on nothing else. *)
LEMMA AnsweredStays ==
  ASSUME Answered, now' = now, published' = published, held' = held, fetched' = fetched,
         pc # "fetch"
  PROVE  Answered'
<1>1. PICK R \in SUBSET Relays : fetched \in NewestOf(SevenDays(UNION {held[r] : r \in R}))
  BY DEF Answered
<1>2. (fetched \in NewestOf(SevenDays(UNION {held[r] : r \in R})))'
  BY <1>1, Zenon DEF NewestOf, SevenDays
<1> QED
  BY <1>2 DEF Answered

LEMMA InitIInv == Init => IInv
<1> SUFFICES ASSUME Init PROVE IInv
  OBVIOUS
<1>1. TypeOK
  BY DEF Init, TypeOK
<1>2. IsFiniteSet(published)
  BY FS_EmptySet DEF Init
<1>3. Reduced /\ Gathered /\ Listed
  BY DEF Init, Reduced, Gathered, Listed, Seen, ListedIsNewest, OncePerId
<1>4. Answered /\ Printed
  BY DEF Init, Answered, Printed
<1> QED
  BY <1>1, <1>2, <1>3, <1>4 DEF IInv

LEMMA PublishIInv == ASSUME IInv, Publish PROVE IInv'
<1> USE DEF IInv
<1>1. PICK e \in [id : Ids \cup {NoTag}, at : {now}, kind : Kinds \cup {NoTag},
                  status : AnyStatus, fiat : Fiats] :
        \E R \in SUBSET Relays \ {{}} :
          /\ published' = published \cup {e}
          /\ held' = [r \in Relays |->
               IF r \in R THEN {f \in held[r] : f.id # e.id} \cup {e} ELSE held[r]]
  BY DEF Publish
<1>2. UNCHANGED <<now, what, want, pc, fetched, todo, latest, found, list>>
  BY DEF Publish
<1>3. e \in Event
  BY DEF TypeOK, Event
<1>4. published' = published \cup {e} /\ held' \in [Relays -> SUBSET published']
  BY <1>1 DEF TypeOK
<1>5. TypeOK'
  BY <1>2, <1>3, <1>4 DEF TypeOK
<1>6. IsFiniteSet(published)'
  BY <1>4, FS_AddElement
<1>7. (Reduced /\ Gathered /\ Listed)'
  BY <1>2 DEF Reduced, Gathered, Listed, Seen, ListedIsNewest, OncePerId, Newest, Selected, Usable, Passes
<1>8. (Answered /\ Printed)'
  <2>1. e.at = now /\ now \in Nat
    BY <1>1 DEF TypeOK
  <2> QED
    BY <1>2, <1>4, <2>1 DEF Publish, Answered, Printed
<1> QED
  BY <1>5, <1>6, <1>7, <1>8

LEMMA FetchIInv == ASSUME IInv, Fetch PROVE IInv'
<1> USE DEF IInv
<1>1. PICK R \in SUBSET Relays : fetched' \in NewestOf(SevenDays(UNION {held[r] : r \in R}))
  BY DEF Fetch
<1>2. fetched' \subseteq published
  BY <1>1 DEF NewestOf, SevenDays, TypeOK
<1>3. /\ pc = "fetch" /\ pc' = what /\ todo' = fetched' /\ fetched = {}
      /\ UNCHANGED <<now, published, held, what, want, latest, found, list>>
  BY DEF Fetch, world, Reduced
<1>4. DOMAIN latest = {} /\ found = << >> /\ list = << >>
  <2>1. DOMAIN latest = {}
    BY <1>3 DEF TypeOK
  <2>2. found \in Seq({})
    BY <1>3 DEF TypeOK
  <2>3. Len(found) = 0
    BY <2>2
  <2>4. list = << >>
    BY <1>3 DEF Listed
  <2> QED
    BY <2>1, <2>2, <2>3, <2>4
<1>5. TypeOK'
  BY <1>2, <1>3, <1>4 DEF TypeOK
<1>6. (Reduced /\ Gathered /\ Listed)'
  BY <1>3, <1>4 DEF Reduced, Gathered, Listed, Seen, ListedIsNewest, OncePerId, TypeOK
<1>7. Answered'
  <2>1. now' = now /\ held' = held /\ published' = published
    BY <1>3
  <2>2. (fetched \in NewestOf(SevenDays(UNION {held[r] : r \in R})))'
    BY <1>1, <2>1, Zenon DEF NewestOf, SevenDays
  <2> QED
    BY <2>1, <2>2 DEF Answered
<1>8. Printed'
  BY <1>3 DEF Printed, TypeOK
<1> QED
  BY <1>3, <1>5, <1>6, <1>7, <1>8

(* One turn of the loop over orders. *)
LEMMA ReadOrderIInv == ASSUME IInv, ReadOrder PROVE IInv'
<1> USE DEF IInv
<1>1. PICK e \in todo :
        todo' = todo \ {e} /\ latest' = IF UsableOrder(e) THEN Merge(e) ELSE latest
  BY DEF ReadOrder
<1>2. /\ pc = "orders" /\ what = "orders"
      /\ UNCHANGED <<now, published, held, what, want, pc, fetched, found, list>>
  BY DEF ReadOrder, world, TypeOK
<1>3. e \in Event /\ e \in fetched /\ Seen' = Seen \cup {e}
  BY <1>1, <1>2 DEF TypeOK, Seen
<1>4. /\ DOMAIN latest' \subseteq Ids
      /\ \A i \in DOMAIN latest' : latest'[i] \in Seen' /\ latest'[i].id = i /\ UsableOrder(latest'[i])
  BY <1>1, <1>2, <1>3 DEF Merge, UsableOrder, TypeOK, Reduced, Event, Seen
<1>5. \A f \in Seen' : UsableOrder(f) => f.id \in DOMAIN latest' /\ f.at <= latest'[f.id].at
  <2> SUFFICES ASSUME NEW f \in Seen', UsableOrder(f)
               PROVE  f.id \in DOMAIN latest' /\ f.at <= latest'[f.id].at
    OBVIOUS
  <2>1. f.at \in Nat /\ e.at \in Nat /\ \A i \in DOMAIN latest : latest[i].at \in Nat
    BY <1>3 DEF TypeOK, Event, Seen
  <2>2. CASE ~UsableOrder(e)
    BY <1>1, <1>2, <1>3, <2>2 DEF Reduced
  <2>3. CASE UsableOrder(e) /\ f = e
    BY <1>1, <2>1, <2>3 DEF Merge
  <2>4. CASE UsableOrder(e) /\ f # e
    <3>1. f.id \in DOMAIN latest /\ f.at <= latest[f.id].at
      BY <1>2, <1>3, <2>4 DEF Reduced
    <3> QED
      BY <1>1, <2>1, <2>4, <3>1 DEF Merge
  <2> QED
    BY <2>2, <2>3, <2>4
<1>6. TypeOK'
  BY <1>1, <1>2, <1>3, <1>4 DEF TypeOK, Seen
<1>7. (Reduced /\ Gathered /\ Listed)'
  BY <1>2, <1>4, <1>5 DEF Reduced, Gathered, Listed, ListedIsNewest, OncePerId
<1>8. Answered'
  BY <1>2, AnsweredStays
<1>9. Printed'
  BY <1>2 DEF Printed
<1> QED
  BY <1>2, <1>6, <1>7, <1>8, <1>9

LEMMA ListOrdersIInv == ASSUME IInv, ListOrders PROVE IInv'
<1> USE DEF IInv
<1>1. /\ pc = "orders" /\ what = "orders" /\ todo = {} /\ pc' = "done"
      /\ list' \in Arranged(Requested)
      /\ UNCHANGED <<now, published, held, what, want, fetched, todo, latest, found>>
  BY DEF ListOrders, world, TypeOK
<1>2. \A e \in Requested :
        e \in fetched /\ e.id \in DOMAIN latest /\ e = latest[e.id] /\ Passes(e)
  BY DEF Requested, Range, TypeOK
<1>3. IsFiniteSet(Requested)
  BY <1>2, FS_Subset DEF TypeOK
<1>4. /\ list' \in Seq(Requested)
      /\ \A i, j \in DOMAIN list' : list'[i] = list'[j] => i = j
      /\ Range(list') = Requested
  BY <1>1, <1>3, ArrangedFacts
<1>5. \A i \in DOMAIN list' : list'[i] \in Requested
  BY <1>4
<1>6. TypeOK'
  BY <1>1, <1>2, <1>4 DEF TypeOK
<1>7. ListedIsNewest'
  BY <1>1, <1>2, <1>5
     DEF ListedIsNewest, Usable, Newest, Selected, Reduced, Seen, Passes
<1>8. OncePerId'
  BY <1>2, <1>4, <1>5 DEF OncePerId
<1>9. Answered'
  BY <1>1, AnsweredStays
<1>10. Printed'
  BY <1>1, <1>4 DEF Printed, Requested, Passes
<1> QED
  BY <1>1, <1>6, <1>7, <1>8, <1>9, <1>10 DEF Reduced, Gathered, Listed, Seen

LEMMA ReadDisputeIInv == ASSUME IInv, ReadDispute PROVE IInv'
<1> USE DEF IInv
<1>1. PICK e \in todo :
        todo' = todo \ {e} /\ found' = IF UsableDispute(e) THEN Append(found, e) ELSE found
  BY DEF ReadDispute
<1>2. /\ pc = "disputes" /\ what = "disputes"
      /\ UNCHANGED <<now, published, held, what, want, pc, fetched, latest, list>>
  BY DEF ReadDispute, world, TypeOK
<1>3. e \in fetched /\ Seen' = Seen \cup {e} /\ Seen \subseteq Seen'
  BY <1>1, <1>2 DEF TypeOK, Seen
<1>4. found \in Seq(Seen')
  BY <1>3 DEF TypeOK, Seen
<1>5. found' \in Seq(Seen')
  BY <1>1, <1>3, <1>4
<1>6. \A i \in DOMAIN found' : UsableDispute(found'[i])
  BY <1>1, <1>2, <1>4 DEF Gathered
<1>7. \A f \in Seen' : UsableDispute(f) => \E i \in DOMAIN found' : found'[i] = f
  <2> SUFFICES ASSUME NEW f \in Seen', UsableDispute(f)
               PROVE  \E i \in DOMAIN found' : found'[i] = f
    OBVIOUS
  <2>1. CASE f = e
    <3>1. found' = Append(found, e) /\ Len(found) + 1 \in DOMAIN found'
      BY <1>1, <1>4, <2>1
    <3> QED
      BY <1>4, <2>1, <3>1
  <2>2. CASE f # e
    <3>1. PICK i \in DOMAIN found : found[i] = f
      BY <1>2, <1>3, <2>2 DEF Gathered
    <3>2. i \in DOMAIN found' /\ found'[i] = found[i]
      BY <1>1, <1>4, <3>1
    <3> QED
      BY <3>1, <3>2
  <2> QED
    BY <2>1, <2>2
<1>8. TypeOK'
  BY <1>1, <1>2, <1>3, <1>5 DEF TypeOK, Seen
<1>9. (Reduced /\ Gathered /\ Listed)'
  BY <1>2, <1>6, <1>7 DEF Reduced, Gathered, Listed, ListedIsNewest, OncePerId
<1>10. Answered'
  BY <1>2, AnsweredStays
<1>11. Printed'
  BY <1>2 DEF Printed
<1> QED
  BY <1>2, <1>8, <1>9, <1>10, <1>11

LEMMA ListDisputesIInv == ASSUME IInv, ListDisputes PROVE IInv'
<1> USE DEF IInv
<1> DEFINE S == {found[i] : i \in FirstOfId(Retained)}
<1>1. /\ pc = "disputes" /\ what = "disputes" /\ todo = {} /\ pc' = "done"
      /\ list' \in Arranged(S)
      /\ UNCHANGED <<now, published, held, what, want, fetched, todo, latest, found>>
  BY DEF ListDisputes, world, TypeOK
<1>2. \A i \in FirstOfId(Retained) : i \in DOMAIN found /\ found[i] \in fetched /\ i \in Nat
  BY <1>1 DEF FirstOfId, Retained, TypeOK
<1>3. \A e \in S : e \in fetched /\ UsableDispute(e) /\ Newest(e)
  <2> SUFFICES ASSUME NEW i \in FirstOfId(Retained)
               PROVE  found[i] \in fetched /\ UsableDispute(found[i]) /\ Newest(found[i])
    OBVIOUS
  <2>1. found[i] \in fetched /\ UsableDispute(found[i])
    BY <1>1, <1>2 DEF Gathered
  <2>2. ASSUME NEW f \in fetched, Usable(f), f.id = found[i].id
        PROVE  f.at <= found[i].at
    <3>1. PICK j \in DOMAIN found : found[j] = f
      BY <1>1, <2>2 DEF Gathered, Seen, Usable
    <3>2. ~(f.at > found[i].at)
      BY <2>2, <3>1 DEF FirstOfId, Retained
    <3>3. f.at \in Nat /\ found[i].at \in Nat
      BY <2>1 DEF TypeOK, Event
    <3> QED
      BY <3>2, <3>3
  <2> QED
    BY <2>1, <2>2 DEF Newest
<1>4. \A d, e \in S : d.id = e.id => d = e
  <2> SUFFICES ASSUME NEW i \in FirstOfId(Retained), NEW j \in FirstOfId(Retained),
                      found[i].id = found[j].id
               PROVE  found[i] = found[j]
    OBVIOUS
  <2>1. i <= j /\ j <= i /\ i \in Nat /\ j \in Nat
    BY <1>2 DEF FirstOfId
  <2> QED
    BY <2>1
<1>5. IsFiniteSet(S)
  BY <1>3, FS_Subset DEF TypeOK
<1> HIDE DEF S
<1>6. /\ list' \in Seq(S)
      /\ \A i, j \in DOMAIN list' : list'[i] = list'[j] => i = j
      /\ Range(list') = S
  BY <1>1, <1>5, ArrangedFacts
<1>7. \A i \in DOMAIN list' : list'[i] \in S
  BY <1>6
<1>8. TypeOK'
  BY <1>1, <1>3, <1>6 DEF TypeOK
<1>9. ListedIsNewest'
  BY <1>1, <1>3, <1>7 DEF ListedIsNewest, Usable, Newest, Selected
<1>10. OncePerId'
  BY <1>4, <1>6, <1>7 DEF OncePerId
<1>11. Answered'
  BY <1>1, AnsweredStays
<1>12. Printed'
  BY <1>1, <1>6 DEF S, Printed, FirstOfId, Retained
<1> QED
  BY <1>1, <1>8, <1>9, <1>10, <1>11, <1>12 DEF Reduced, Gathered, Listed, Seen

LEMMA TickIInv == ASSUME IInv, Tick PROVE IInv'
<1> USE DEF IInv
<1>1. /\ pc = "fetch" /\ now' = now + 1
      /\ UNCHANGED <<published, held, what, want, pc, fetched, todo, latest, found, list>>
  BY DEF Tick
<1>2. (TypeOK /\ IsFiniteSet(published) /\ Reduced /\ Gathered /\ Listed)'
  BY <1>1 DEF TypeOK, Reduced, Gathered, Listed, Seen, ListedIsNewest, OncePerId,
              Newest, Selected, Usable, Passes
<1>3. Answered'
  BY <1>1 DEF Answered, TypeOK, Event
<1>4. Printed'
  BY <1>1 DEF Printed
<1> QED
  BY <1>2, <1>3, <1>4

LEMMA StepIInv == IInv /\ [Next]_vars => IInv'
<1> SUFFICES ASSUME IInv, [Next]_vars PROVE IInv'
  OBVIOUS
<1>1. CASE UNCHANGED vars
  <2>1. (TypeOK /\ IsFiniteSet(published) /\ Reduced /\ Gathered /\ Listed)'
    BY <1>1 DEF vars, IInv, TypeOK, Reduced, Gathered, Listed, Seen, ListedIsNewest, OncePerId,
                Newest, Selected, Usable, Passes
  <2>2. Answered'
    <3>1. CASE pc = "fetch"
      BY <1>1, <3>1 DEF vars, IInv, Answered
    <3> QED
      BY <1>1, <3>1, AnsweredStays DEF vars, IInv
  <2>3. Printed'
    BY <1>1 DEF vars, IInv, Printed, Requested, Passes, FirstOfId, Retained
  <2> QED
    BY <2>1, <2>2, <2>3 DEF IInv
<1> QED
  BY <1>1, PublishIInv, TickIInv, FetchIInv, ReadOrderIInv, ListOrdersIInv, ReadDisputeIInv,
     ListDisputesIInv DEF Next

LEMMA Invariance == Spec => []IInv
BY InitIInv, StepIInv, PTL DEF Spec
-----------------------------------------------------------------------------
(* The variables keep their types. *)
THEOREM TypeCorrect == Spec => []TypeOK
BY Invariance, PTL DEF IInv

(* What is listed is the newest usable revision fetched, and the filters   *)
(* hold for it (parse_orders_events, parse_dispute_events).                *)
THEOREM ListedIsNewestAlways == Spec => []ListedIsNewest
BY Invariance, PTL DEF IInv, Listed

(* No order or dispute is listed twice. *)
THEOREM OncePerIdAlways == Spec => []OncePerId
BY Invariance, PTL DEF IInv, Listed

-----------------------------------------------------------------------------
(* Among the disputes found with an id there are newest ones, and of these *)
(* a first one, which is kept.                                             *)
LEMMA DisputeIsKept ==
  ASSUME IInv, what = "disputes", pc = "done", NEW e \in fetched, UsableDispute(e)
  PROVE  \E k \in FirstOfId(Retained) : found[k].id = e.id
<1> USE DEF IInv
<1> DEFINE Same == {i \in DOMAIN found : found[i].id = e.id}
           Ages == {now - found[i].at : i \in Same}
<1>1. found \in Seq(published) /\ Seen = fetched /\ now \in Nat
  BY DEF TypeOK, Seen, Printed
<1>2. \A i \in DOMAIN found : i \in Nat /\ found[i].at \in Nat /\ found[i].at <= now
  <2>1. \A i \in DOMAIN found : i \in Nat /\ found[i] \in published
    BY <1>1
  <2> QED
    BY <2>1 DEF TypeOK, Event, Answered
<1>3. PICK n \in DOMAIN found : found[n] = e
  BY <1>1 DEF Gathered
<1>4. Ages \in SUBSET Nat /\ Ages # {}
  BY <1>1, <1>2, <1>3
<1>5. PICK age \in Ages : \A b \in Ages : age <= b
  BY <1>4, Smallest
<1>6. PICK m \in Same : \A i \in Same : found[i].at <= found[m].at
  <2>1. PICK m \in Same : age = now - found[m].at
    BY <1>5
  <2>2. \A i \in Same : now - found[m].at <= now - found[i].at
    BY <1>5, <2>1
  <2>3. \A i \in Same : found[i].at <= found[m].at
    BY <1>1, <1>2, <2>1, <2>2
  <2> QED
    BY <2>1, <2>3
<1> DEFINE Newer == {i \in Same : found[i].at = found[m].at}
<1>7. Newer \in SUBSET Nat /\ Newer # {}
  BY <1>2, <1>6
<1>8. PICK k \in Newer : \A i \in Newer : k <= i
  BY <1>7, Smallest
<1>9. k \in Retained
  BY <1>2, <1>6, <1>8 DEF Retained
<1>10. ASSUME NEW j \in Retained, found[j].id = found[k].id
       PROVE  k <= j
  <2>1. j \in Same /\ ~(found[k].at > found[j].at)
    BY <1>8, <1>10 DEF Retained
  <2>2. j \in Newer
    BY <1>2, <1>6, <1>8, <2>1
  <2> QED
    BY <1>8, <2>2
<1>11. k \in FirstOfId(Retained) /\ found[k].id = e.id
  BY <1>8, <1>9, <1>10 DEF FirstOfId
<1> QED
  BY <1>11

(* The map holds a newest revision of every usable order fetched.          *)
LEMMA OrderIsKept ==
  ASSUME IInv, what = "orders", pc = "done", NEW e \in fetched, UsableOrder(e)
  PROVE  /\ e.id \in DOMAIN latest
         /\ latest[e.id] \in fetched /\ latest[e.id].id = e.id
         /\ UsableOrder(latest[e.id]) /\ Newest(latest[e.id])
<1> USE DEF IInv
<1>1. Seen = fetched
  BY DEF Printed, Seen
<1>2. e.id \in DOMAIN latest
  BY <1>1 DEF Reduced
<1>3. latest[e.id] \in fetched /\ latest[e.id].id = e.id /\ UsableOrder(latest[e.id])
  BY <1>2 DEF TypeOK, Reduced
<1>4. Newest(latest[e.id])
  BY <1>1, <1>3 DEF Newest, Usable, Reduced
<1> QED
  BY <1>2, <1>3, <1>4

LEMMA ListHolds ==
  ASSUME NEW e \in Range(list)
  PROVE  \E i \in DOMAIN list : list[i] = e
BY DEF Range

(* Nothing usable that the filters hold for is lost on the way from the    *)
(* answer of the relays to the list (parse_orders_events,                  *)
(* parse_dispute_events).                                                  *)
THEOREM NoneLostAlways == Spec => []NoneLost
<1>1. IInv => NoneLost
  <2> SUFFICES ASSUME IInv, pc = "done", NEW e \in fetched, Usable(e),
                      \A f \in fetched : Usable(f) /\ f.id = e.id /\ Newest(f) => Selected(f)
               PROVE  \E i \in DOMAIN list : list[i].id = e.id
    BY DEF NoneLost
  <2>1. CASE what = "orders"
    <3>1. latest[e.id] \in Requested
      BY <2>1, OrderIsKept DEF Usable, Selected, Requested, Range
    <3>2. latest[e.id] \in Range(list) /\ latest[e.id].id = e.id
      BY <2>1, <3>1, OrderIsKept DEF IInv, Printed, Usable
    <3> QED
      BY <3>2, ListHolds
  <2>2. CASE what = "disputes"
    <3>1. PICK k \in FirstOfId(Retained) : found[k].id = e.id
      BY <2>2, DisputeIsKept DEF Usable
    <3>2. found[k] \in Range(list)
      BY <2>2, <3>1 DEF IInv, Printed
    <3> QED
      BY <3>1, <3>2, ListHolds
  <2> QED
    BY <2>1, <2>2 DEF IInv, TypeOK
<1> QED
  BY Invariance, <1>1, PTL

(* When the events of the week fit into the answer, it is all of them.     *)
LEMMA WholeWeekFetched ==
  ASSUME IInv, pc = "done", fetched # {}, Cardinality(Live) <= Limit,
         \A r \in Relays : held[r] = {e \in published : Current(e)}
  PROVE  fetched = Live
<1> USE DEF IInv
<1>1. PICK R \in SUBSET Relays : fetched \in NewestOf(SevenDays(UNION {held[r] : r \in R}))
  BY DEF Answered
<1>2. R # {}
  BY <1>1 DEF NewestOf, SevenDays
<1>3. UNION {held[r] : r \in R} = {e \in published : Current(e)}
  BY <1>2
<1>4. SevenDays(UNION {held[r] : r \in R}) = Live
  BY <1>3 DEF SevenDays, Live
<1>5. IsFiniteSet(Live) /\ Cardinality(Live) \in Nat
  BY FS_Subset, FS_CardinalityType DEF Live
<1>6. /\ fetched \in SUBSET Live
      /\ Cardinality(fetched) = IF Cardinality(Live) < Limit THEN Cardinality(Live) ELSE Limit
  BY <1>1, <1>4 DEF NewestOf
<1>7. Cardinality(fetched) = Cardinality(Live)
  BY <1>5, <1>6, ListingAssumption
<1> QED
  BY <1>5, <1>6, <1>7, FS_Subset

(* For any limit and any number of days: the default list is the open      *)
(* orders as long as the window holds (create_seven_days_filter,           *)
(* parse_orders_events).                                                   *)
THEOREM OpenOrdersListedAlways == Spec => []OpenOrdersListed
<1>1. IInv => OpenOrdersListed
  <2> SUFFICES ASSUME IInv, pc = "done", what = "orders", fetched = Live,
                      want = [status |-> "pending", fiat |-> NoTag, kind |-> NoTag]
               PROVE  Range(list) = Open
    BY WholeWeekFetched DEF OpenOrdersListed
  <2>1. \A e : Passes(e) <=> StatusOf(e) = "pending"
    BY DEF Passes
  <2>2. ASSUME NEW e \in Requested PROVE e \in Open
    <3>1. PICK i \in DOMAIN latest : e = latest[i]
      BY DEF Requested, Range
    <3>2. e \in fetched /\ UsableOrder(e) /\ Passes(e)
      BY <3>1 DEF IInv, TypeOK, Reduced, Requested
    <3> QED
      BY <2>1, <3>2 DEF Open
  <2>3. ASSUME NEW e \in Open PROVE e \in Requested
    <3>1. e \in fetched /\ UsableOrder(e) /\ Current(e) /\ Passes(e)
      BY <2>1 DEF Open, Live
    <3>2. /\ e.id \in DOMAIN latest /\ latest[e.id] \in published
          /\ latest[e.id].id = e.id /\ e.at <= latest[e.id].at
      BY <3>1, OrderIsKept DEF IInv, TypeOK, Newest, Usable
    <3>3. e.at \in Nat /\ latest[e.id].at \in Nat
      BY <3>1, <3>2 DEF IInv, TypeOK, Event
    <3>4. latest[e.id] = e
      BY <3>1, <3>2, <3>3 DEF Current
    <3> QED
      BY <3>1, <3>2, <3>4 DEF Requested, Range
  <2>4. Requested = Open
    BY <2>2, <2>3
  <2> QED
    BY <2>4 DEF IInv, Printed
<1> QED
  BY Invariance, <1>1, PTL
=============================================================================
