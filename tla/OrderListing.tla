---------------------------- MODULE OrderListing ----------------------------
(***************************************************************************)
(* listorders and listdisputes: fetch the daemon's addressable events of   *)
(* the last days, reduce them to the newest revision of every order or     *)
(* dispute, filter, sort, print.  The relays are external: each keeps one  *)
(* revision per id, possibly an old one, and answers with its newest       *)
(* events up to the limit of the request.  nostr-sdk merges the answers    *)
(* and keeps the newest of them; in which order it iterates over them is   *)
(* left open.                                                              *)
(***************************************************************************)
EXTENDS Integers, Sequences, FiniteSets, Functions

CONSTANTS
  Ids,      \* ids of orders or disputes
  NoTag,    \* value of a tag that is missing or cannot be parsed
  Kinds,    \* order kinds; for a dispute event, any of them: the tags parse
  Fiats,    \* currencies
  Relays,
  Limit,    \* at most so many events are fetched (50)
  Week,     \* at most so old (7 days)
  Filters,  \* the filters listorders may be given
  MaxTime,  \* bound on the clock
  MaxEvents \* bound on the number of events published

ASSUME ListingAssumption ==
  /\ NoTag \notin Ids \cup Kinds \cup Fiats \cup {"pending", "active", "unheardOf"}
  /\ Filters \subseteq [status : {"pending", "active"}, fiat : Fiats \cup {NoTag}, kind : Kinds \cup {NoTag}]
  /\ Limit \in Nat /\ Week \in Nat /\ MaxTime \in Nat /\ MaxEvents \in Nat

AnyStatus == {"pending", "active", "unheardOf", NoTag}
Event == [id : Ids \cup {NoTag}, at : Nat, kind : Kinds \cup {NoTag},
          status : AnyStatus, fiat : Fiats]

VARIABLES
  now, published, held,  \* the daemon's events and what each relay keeps
  what,                  \* "orders" or "disputes"
  want,                  \* the filters of listorders
  pc,
  fetched,               \* what the request returned
  todo,                  \* fetched events the loop has not seen yet
  latest,                \* latest_by_id: order id -> newest revision seen
  found,                 \* disputes_list
  list                   \* the result

vars == <<now, published, held, what, want, pc, fetched, todo, latest, found, list>>
world == <<now, published, held>>

(* listdisputes takes no filter; which one it ignores does not matter.     *)
Init ==
  /\ now = 0 /\ published = {} /\ held = [r \in Relays |-> {}]
  /\ what \in {"orders", "disputes"}
  /\ want \in Filters
  /\ what = "disputes" => want = CHOOSE f \in Filters : TRUE
  /\ pc = "fetch" /\ fetched = {} /\ todo = {}
  /\ latest = << >> /\ found = << >> /\ list = << >>

(* The daemon publishes a revision; some relays take it and drop theirs.   *)
(* Only the fetch looks at the world, so it need not go on afterwards.     *)
Publish ==
  /\ pc = "fetch"
  /\ Cardinality(published) < MaxEvents
  /\ \E e \in [id : Ids \cup {NoTag}, at : {now}, kind : Kinds \cup {NoTag},
               status : AnyStatus, fiat : Fiats], R \in SUBSET Relays \ {{}} :
       /\ published' = published \cup {e}
       /\ held' = [r \in Relays |->
            IF r \in R THEN {f \in held[r] : f.id # e.id} \cup {e} ELSE held[r]]
  /\ UNCHANGED <<now, what, want, pc, fetched, todo, latest, found, list>>

Tick ==
  /\ pc = "fetch" /\ now < MaxTime
  /\ now' = now + 1
  /\ UNCHANGED <<published, held, what, want, pc, fetched, todo, latest, found, list>>

(* The newest Limit events of a set: any choice among equally old ones. *)
NewestOf(S) ==
  {T \in SUBSET S : /\ Cardinality(T) = IF Cardinality(S) < Limit THEN Cardinality(S) ELSE Limit
                    /\ \A e \in T, f \in S \ T : e.at >= f.at}

(* Mutant: an event of exactly this age is too old. *)
MutSevenDays(S) == {e \in S : e.at > now - Week}

SevenDays(S) == {e \in S : e.at >= now - Week}

(* fetch_events: the relays that answer in time. *)
Fetch ==
  /\ pc = "fetch"
  /\ \E R \in SUBSET Relays :
       fetched' \in NewestOf(SevenDays(UNION {held[r] : r \in R}))
  /\ todo' = fetched'
  /\ pc' = what
  /\ UNCHANGED <<world, what, want, latest, found, list>>

(* order_from_tags: a status it does not know is pending, one that is      *)
(* missing stays unset and passes no filter.                               *)
StatusOf(e) == IF e.status = "unheardOf" THEN "pending" ELSE e.status

(* Mutant: an order without an id is kept. *)
MutUsableOrder(e) == e.kind # NoTag

UsableOrder(e) == e.id # NoTag /\ e.kind # NoTag
UsableDispute(e) == e.kind # NoTag
Usable(e) == IF what = "orders" THEN UsableOrder(e) ELSE UsableDispute(e)

Passes(e) ==
  /\ StatusOf(e) = want.status
  /\ want.fiat \in {NoTag, e.fiat}
  /\ want.kind \in {NoTag, e.kind}

(* The entry API of the map: a strictly newer event replaces the entry. *)
Merge(e) ==
  [i \in DOMAIN latest \cup {e.id} |->
     IF i = e.id /\ (i \in DOMAIN latest => e.at > latest[i].at) THEN e ELSE latest[i]]

(* Mutant: the filters are applied before revisions are compared. *)
MutReadOrder ==
  /\ pc = "orders"
  /\ \E e \in todo :
       /\ todo' = todo \ {e}
       /\ latest' = IF UsableOrder(e) /\ Passes(e) THEN Merge(e) ELSE latest
  /\ UNCHANGED <<world, what, want, pc, fetched, found, list>>

ReadOrder ==
  /\ pc = "orders"
  /\ \E e \in todo :
       /\ todo' = todo \ {e}
       /\ latest' = IF UsableOrder(e) THEN Merge(e) ELSE latest
  /\ UNCHANGED <<world, what, want, pc, fetched, found, list>>

(* The results of sorting a set of events, newest first. *)
Arranged(S) ==
  {s \in Bijection(1..Cardinality(S), S) :
     \A i, j \in 1..Cardinality(S) : i < j => s[i].at >= s[j].at}

Requested == {e \in Range(latest) : Passes(e)}

ListOrders ==
  /\ pc = "orders" /\ todo = {}
  /\ list' \in Arranged(Requested)
  /\ pc' = "done"
  /\ UNCHANGED <<world, what, want, fetched, todo, latest, found>>

(* An id that is missing leaves the default one in place, a bad tag is an  *)
(* error and the event is passed over.                                     *)
ReadDispute ==
  /\ pc = "disputes"
  /\ \E e \in todo :
       /\ todo' = todo \ {e}
       /\ found' = IF UsableDispute(e) THEN Append(found, e) ELSE found
  /\ UNCHANGED <<world, what, want, pc, fetched, latest, list>>

(* Mutant: an equally old revision counts as a newer one. *)
MutRetained == {i \in DOMAIN found : ~\E j \in DOMAIN found \ {i} : found[j].id = found[i].id /\ found[j].at >= found[i].at}

Retained == {i \in DOMAIN found : ~\E j \in DOMAIN found : found[j].id = found[i].id /\ found[j].at > found[i].at}

(* Mutant: no dedup_by. *)
MutFirstOfId(I) == I

(* sort_by is stable, so dedup_by keeps the first retained event of an id. *)
FirstOfId(I) == {i \in I : \A j \in I : found[j].id = found[i].id => i <= j}

ListDisputes ==
  /\ pc = "disputes" /\ todo = {}
  /\ list' \in Arranged({found[i] : i \in FirstOfId(Retained)})
  /\ pc' = "done"
  /\ UNCHANGED <<world, what, want, fetched, todo, latest, found>>

Next == Publish \/ Tick \/ Fetch \/ ReadOrder \/ ListOrders \/ ReadDispute \/ ListDisputes

Spec == Init /\ [][Next]_vars
-----------------------------------------------------------------------------
(* Types, and the map is keyed by the id of what it holds. *)
TypeOK ==
  /\ now \in Nat
  /\ published \subseteq Event
  /\ held \in [Relays -> SUBSET published]
  /\ what \in {"orders", "disputes"}
  /\ want \in Filters
  /\ pc \in {"fetch", "done", what}
  /\ fetched \subseteq published
  /\ todo \subseteq fetched
  /\ DOMAIN latest \subseteq Ids
  /\ \A i \in DOMAIN latest : latest[i] \in fetched \ todo /\ latest[i].id = i
  /\ found \in Seq(fetched \ todo)
  /\ list \in Seq(fetched)

Newest(e) == \A f \in fetched : Usable(f) /\ f.id = e.id => f.at <= e.at

Selected(e) == what = "orders" => Passes(e)

(* What is listed is the newest usable revision that was fetched, and it   *)
(* is this revision the filters hold for: an order taken since is not      *)
(* shown as pending because an older event of it is around                 *)
(* (parse_orders_events, parse_dispute_events).                            *)
ListedIsNewest ==
  \A i \in DOMAIN list : Usable(list[i]) /\ Newest(list[i]) /\ Selected(list[i])

(* An order or dispute is listed once, however many revisions of it came,  *)
(* of whatever age.                                                        *)
OncePerId == \A i, j \in DOMAIN list : list[i].id = list[j].id => i = j

(* Nothing is lost: a usable event whose every newest revision the filters *)
(* hold for has its order or dispute in the list.                          *)
NoneLost ==
  pc = "done" =>
    \A e \in fetched :
      (Usable(e) /\ \A f \in fetched : Usable(f) /\ f.id = e.id /\ Newest(f) => Selected(f))
        => \E i \in DOMAIN list : list[i].id = e.id

Current(e) == \A f \in published : f.id = e.id => f.at < e.at \/ f = e
Live == {e \in published : Current(e) /\ e.at >= now - Week}
Open == {e \in Live : UsableOrder(e) /\ StatusOf(e) = "pending"}

(* docs/commands.md: "Requests open orders from the configured Mostro      *)
(* pubkey."  With relays that are up to date, the default list is the open *)
(* orders of the week and no others, as long as the events of the week fit *)
(* into one request: those of orders of every other status count as well.  *)
OpenOrdersListed ==
  /\ pc = "done" /\ what = "orders" /\ fetched # {}
  /\ want = [status |-> "pending", fiat |-> NoTag, kind |-> NoTag]
  /\ \A r \in Relays : held[r] = {e \in published : Current(e)}
  /\ Cardinality(Live) <= Limit
  => Range(list) = Open
=============================================================================
