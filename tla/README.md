# TLA+ models of mostro-cli

This directory holds a verification development for `mostro-cli`, the Nostr
command-line client of a Mostro peer-to-peer exchange: TLA+ modules translated
from the Rust sources, TLC configurations that check them on small instances,
and TLAPS proofs for every value of the constants. Paths below are relative to
the repository root; line numbers refer to the modelled commit.

- [Inventory](#inventory)
- [Modules](#modules)
- [Runs and bounds](#runs-and-bounds)
- [Fairness and assumptions](#fairness-and-assumptions)
- [Proofs](#proofs)
- [Divergences](#divergences)
- [Not modelled](#not-modelled)
- [Plan](#plan)

## Inventory

`mostro-cli` is a program that runs one command and ends. What makes it a
concurrent system is what its commands share: the sqlite database
`~/.mcli/mcli.db`, the Nostr keys derived from one mnemonic, and the relays,
which store messages, deliver them to whoever subscribes, and may delay, repeat,
reorder or drop them. Nothing stops a user from running two commands at once or
from killing one.

| Component | Code | State | Operations |
|---|---|---|---|
| Command session and trade keys | `src/cli.rs` (`init_context`, `Commands::run`), `src/cli/new_order.rs`, `take_order.rs`, `send_msg.rs`, `add_invoice.rs`, `add_bond_invoice.rs`, `last_trade_index.rs`, `src/util/storage.rs` | `users.last_trade_index`, `orders`; per process the `Context` with one trade key and index | `neworder`, `takesell`, `takebuy`, `fiatsent`, `release`, `cancel`, `dispute`, `addinvoice`, `addbondinvoice`, `getlasttradeindex` |
| Local database and first run | `src/db.rs` (`connect`, `User`, `Order`), `src/util/misc.rs` | directory, file and their modes, tables, the user row | create, tighten, migrate, load |
| Request and reply wait | `src/util/messaging.rs` (`wait_for_dm`), `src/util/events.rs` (`fetch_required_pow_with`) | subscription, broadcast channel, two timers, the probe task | subscribe, send, receive, time out, classify |
| Reply dispatch | `src/util/messaging.rs` (`print_dm_events`), `src/parser/dms.rs` (`print_commands_results`) | one message, the row it names | validate, dispatch, save, update, delete |
| Admin dispute commands | `src/cli/take_dispute.rs` | the admin key, one outstanding request per process | `admtakedispute`, `admcancel`, `admsettle`, `admaddsolver` |
| Attachment upload | `src/cli/send_admin_dm_attach.rs` | file, blob, loop over servers and content types | check, read, encrypt, upload, send |
| Order and dispute listing | `src/parser/orders.rs`, `disputes.rs`, `src/nip33.rs`, `src/util/events.rs` | fetched events, newest revision per id | fetch, reduce, filter, deduplicate, sort |
| DM listings and time windows | `src/util/events.rs`, `src/cli/get_dm.rs`, `get_dm_user.rs`, `src/parser/dms.rs` | scanned key, collected messages | `getdm` (`--from-user`), `getadmindm`, `getdmuser` |
| Direct messages between users | `src/cli/dm_to_user.rs`, `send_dm.rs`, `adm_send_dm.rs` | none | `dmtouser`, `senddm`, `admsenddm` |
| Transport and relay connection | `src/cli.rs` (`resolve_transport`), `src/util/net.rs`, `src/util/messaging.rs` (`parse_transport_env`) | the environment variable `TRANSPORT` | connect, probe, choose, read again |
| Session restore, order info, rating | `src/cli/restore.rs`, `orders_info.rs`, `rate_user.rs` | none of their own | `restore`, `ordersinfo`, `rate` |
| Arguments, display, invoices | `src/main.rs`, `src/lightning/mod.rs`, `src/parser/mod.rs`, ... | none | parse, format |

How they interact. A command validates its configuration, opens the database
(first run), derives its trade key from `last_trade_index + 1` and keeps both in
its `Context`. It sends one request signed with a trade key, the identity key or
the admin key, and waits (`wait_for_dm`) for one event addressed to that key.
The event is validated and dispatched, and the dispatch writes to the database.
`release` on a range order goes on: it has promised the daemon a key for the
child order and afterwards looks for the child's message on that key.

What is hard about it:

- *interleaving*: the `Context` is a snapshot; other processes read and write
  the same index and rows between any two statements;
- *ordering*: the reply may be there before anybody listens; channel, timer and
  probe race;
- *unreliable delivery*: replies to commands that ended long ago still sit on
  the relays, under the same key; pushes carry no request id;
- *crash recovery*: a process may end between creating the file, the tables and
  the user, or between writing a row and writing the index;
- *partial failure*: many failing writes are printed, not returned;
- *shared environment*: the transport is chosen once, from whatever the relays
  hold at that moment, and kept in a variable that is read again later;
- *time*: two clocks decide what a DM listing shows, and gift wraps falsify one
  of them on purpose.

What makes the components correct, in a sentence each: every saved order is
stored under the key the daemon knows it by, and no two orders share one; all
commands work with one identity that no other local user can read; a request
goes out on the transport the daemon listens to; a wait ends, with a message for
the right key or with an honest reason; only an answer to the command's own
request, or a push, changes the database, but for the two callers that compare
no request id, and a dispatch that fails has written nothing; a reported
resolution of a dispute was one; the admin is told an address where the
attachment is; a listing shows the newest revision of everything once; a DM
listing shows what was asked for, and all of it.

`PROJECT.json` lists the hazards, each at its line, with the properties that
guard against it.

## Modules

| Module | Extends | Contents |
|---|---|---|
| `KeyLedger` | | abstract: what the orders table promises about trade keys |
| `TradeSession` | | concurrent commands, the two tables, the daemon; implements `KeyLedger` |
| `FirstRun` | | how a command comes by its identity |
| `RequestReply` | | abstract: what a command may rely on when it waits |
| `Transport` | | connecting to relays and choosing the transport |
| `WaitForDm` | `Transport` | `wait_for_dm` behind the choice of its transport; implements `RequestReply` |
| `ReplyDispatch` | | one message through validation and dispatch, statement by statement |
| `AdminDispute` | | admin commands on one shared key |
| `AttachmentUpload` | | the loop over Blossom servers |
| `OrderListing` | | `listorders`, `listdisputes` |
| `DmListing` | | what the sending commands publish; `getdm`, `getadmindm`, `getdmuser` |
| `MC...` | the module and `TLC` | symmetry sets, values of constants |
| `...Proofs` | the module and `TLAPS` | inductive invariants, lemmas, theorems |

Definitions named `Mut...` are wrong variants of the definition that follows
them, written as a slip in the code would read. They are not used by any
specification; substituting one shows that a property notices the slip.

### TradeSession

A trade key is its derivation index, an order its id. `last` is
`users.last_trade_index`, `rows` the `orders` table reduced to key and status.
Each process runs one command at a time; `job` holds the locals of its
`Context` and `execute_*` function: the key and index read at start (`ctx`), the
promised index of a child (`next`), the key the request was signed with (`key`),
its request id (`rid`) and the fetched copy of a row (`copy`).

| Action | Code |
|---|---|
| `Start` | `init_context`: reads `last_trade_index + 1` once |
| `SendNewOrder`, `SendTake` | `send_dm` under the context's key, with its index |
| `SendSync`, `SendRestore`, `SendOrdersInfo` | under the identity key, without an index |
| `SendOrderMsg`, `SendInvoice`, `SendBondInvoice`, `SendRating` | under the key of the order's row, which must be there |
| `Prepare`, `BumpIndex` | `create_next_trade_payload`, then the index is stored *before* anything is sent; a failing write is only printed |
| `Reject` | `CantDo`, or what the command's own check (`Accepted`) refuses: `validate_response`, the action alone (`getlasttradeindex`, `restore`), the request id alone (`ordersinfo`) |
| `ReceiveOrder`, `SaveUser` | `save_order`: two writes, either may fail silently |
| `ReceiveStatus`, `SaveStatus` | `get_by_id`, then an `UPDATE` of the whole row |
| `ReceiveCanceled`, `ReceiveNotice`, `ReceiveIndex` | the other arms of `print_commands_results` |
| `FollowUp` | `execute_send_msg` after a `release`: the child found on the promised key is saved under `ctx` |
| `Exit` | return, timeout or kill, at any point |
| `DaemonTrade`, `DaemonOrder`, `DaemonBond`, `DaemonAccount`, `DaemonPush` | external: `mostrod` refuses an index it has seen, binds an order to the key that created or took it, answers on that key |

Messages stay in `msgs` for ever. With `LateReplies` any process that waits on a
key may receive any message to this key; without, only replies to its own
request and pushes. `getlasttradeindex`, `restore` and `rate` send no request id
(`Anonymous`); `rate` then validates the answer against an id it has invented,
and gets by because `RateReceived` counts as a push.

### KeyLedger

Two variables: the key each order is `bound` to, and the key `kept` with it.
`Bind` happens once per order, to a key above all bound before; `Keep` keeps the
bound key, `Drop` keeps none. `TradeSession` maps `bound` to the daemon's
bindings and `kept` to the keys in `rows`: `AllKeys` for all orders,
`DirectKeys` for created and taken ones. A row under any other key, or a child
under a key used before, is a step the ledger does not have.

### FirstRun

One process is one command; a mnemonic is named after the process that generated
it. `Validate` stands before everything that touches the disk, as in
`init_context`. `MakeDir`, `ChmodDir`, `CheckFile`, then either `CreateFile`,
`CreateTables`, `InsertUser` (three steps, and `create_new` fails on a file that
appeared since the check) or `ChmodFile`, `Migrate`; then `LoadUser`. `Fail` is
an error of any call, `Exit` the end of the process at any point. The initial
states include a database left by an older version: readable by others, with the
legacy token columns.

### RequestReply, Transport and WaitForDm

`RequestReply` is the promise: exactly one outcome; an answer only out of the
mail that arrived; "nobody answered" only after sending and with no mail in
hand; the proof of work blamed only if some info event asks for more than was
sent. `WaitForDm` is the code: receiver, subscription and send in the order
`NextPlace` gives, the probe as a task, the loop over the notification channel
with its filter (kind, `p` tag and, on the NIP-44 transport, the author), the
timer, the cap on the probe, and the classification. `Transport` comes before:
`ConnectRelays` or `ConnectFails` (`connect_nostr`), then `ResolveTransport`,
which keeps an explicit `TRANSPORT` and otherwise takes the newest info event
among the relays that answer in time. A relay holds the current revision of that
event, an older one or none. `setting` is the environment variable, read again
by `parse_transport_env` in `wait_for_dm`, where an unusable value becomes an
error before anything is sent.

The difficulty is a function `pow` of the revision of the info event. The daemon
enforces that of the current one; the probe hears (`heard`) any set of revisions
and takes the newest, which is an old one if only lagging relays answer.
`PowBlameIsRight` is claimed where the current revision is among them.

The channel is global to the client: it carries the probe's own info event,
events of other subscriptions, other users' messages to the same key. When it
overflows it loses its oldest notifications, the reply perhaps among them, and
the next `recv` says so (`lagged`). A relay delivers a reply whether or not the
client is ready for it (`Deliver`): `arrived` counts it from then on, but it is
only queued if the client listens and is subscribed, since the subscription asks
for no stored events. So `NoMissedReply` fails if the request is sent too early,
and also if the loop passes over the lag. A reply that is lost on the way or
comes after the timer does not count as delivered. `Timer` is enabled only with
an empty channel since tokio's `timeout` polls the inner future before the
timer, and the loop reads until the channel is empty; the model leaves aside
that tokio's cooperative budget can interrupt that reading after a hundred-odd
events. The refinement maps `sent` to `request # "none"`, `mail` to `arrived`,
and `powShort` to `configured < pow[r]` for some revision `r`.

### ReplyDispatch

Where `TradeSession` takes a write as one step, this module takes it apart:
every database statement is a step, and `OtherCommand` may change the row
between any two of them. The message ranges over all actions, payload shapes,
with or without id, index and request id, so that each arm of
`print_commands_results` and each early return is exercised. `validate_response`
belongs to `mostro-core` and is external.

`via` is the caller. `PrintDmEvents` compares the request id. `FetchChild`, the
follow-up of a `release`, and `ReadIndexReply`, `getlasttradeindex`, only look
at the action; what that leaves possible is stated in `OnlyTrustedWrites` and
`OnlyAnswersAreSaved`. The other callers of `print_commands_results`
(`restore`, `ordersinfo`, the admin commands) reach only arms that write
nothing. `wrote` counts writes to either table in this dispatch.
`FailedDispatchWroteNothing` is about the dispatch and not about the command
around it: `release` stores the next index before it sends
(`src/cli/send_msg.rs:64-76`), and its first reply may write before the
follow-up fails, so a failed command is not in general one without effect.

### AdminDispute

One key for all admin commands and no request id: a waiting command sees every
message to the admin key, including replies to other commands and users'
messages, and judges it by sender and action (`Succeeds`). `AddSolver` is
`admaddsolver`: it sends, reports success and does not wait, so the daemon's
answer to it stays on the admin key for the next command. `asked` keeps every
request ever sent. The daemon is external and keeps the state of each dispute.

### AttachmentUpload

The program counter follows `execute_send_admin_dm_attach` and
`upload_to_blossom`: metadata check, read, order key and encryption, then for
each server each content type, then the DM. Servers are external: a `200` has
stored the blob whatever becomes of its body; an error or no answer may have.
`WriteFile` is another program writing the file, and `edited` records whether it
did between the check and the read.

### OrderListing

The daemon publishes revisions, each relay keeps the last one it got per id, and
`Fetch` merges the answers of the relays that answer, newest first up to the
limit of the request. The loop then visits the events in any order: `ReadOrder`
is the map entry API of `parse_orders_events`, `ReadDispute` the push of
`parse_dispute_events`, and `ListOrders`, `ListDisputes` are filter, retain,
dedup and the stable sort. A tag that is missing is `NoTag`, and so is one that
does not parse where the code makes nothing of it; an order without a status is
read like any other and passes no filter for a status.

### DmListing

The senders are actions of their own: `MostroSends`; `SendDm` and `AdmSendDm`,
protocol messages on whichever transport the node speaks; `DmToUser`, which
wraps by hand on either transport; `PeerChat`, a kind-14 message no command of
this program sends. Every message has the time it was sent and the outer time of
its event, set back by up to `Tweak` on a gift wrap (nostr's NIP-59 draws it
from two days). The relay compares the outer time with the window of the
request, the client compares the inner time with `--since`, at the time it
parses. `Fetch` and `Parse` go through the keys `1..TradeIndex` (or the one
admin or shared key) while the senders and `Tick` go on. `partial` records that
an answer was incomplete (a relay that is late, the limit of 100 events in
`getdmuser`); completeness is claimed only without it.

## Runs and bounds

| Run | Checks | What it shows |
|---|---|---|
| `TradeSession_sequential` | `TypeOK`, `KeyCoverage`, `KeyPerOrder`, `SyncedIndexIsReal`, `ImplementsLedger` | one command at a time, killed anywhere, writes failing: every saved order, children included, has the daemon's key, a key of its own, and is within reach of `getdm`; a synchronised index is not behind them |
| `TradeSession_concurrent` | `DirectKeyAgreement`, `RowsFromOwnCommand`, `ImplementsDirectLedger` | two commands at a time with late replies: created and taken orders keep the daemon's key, one each, and appear only through the command that asked for them |
| `TradeSession_shared_key` | `KeyPerOrder` (violated) | two commands at a time: a child order shares a key |
| `FirstRun` | `TypeOK`, `ContextsAgree`, `OpenedPrivate`, `NoSecretFromBadConfig`, `IdentityIsStable` | three first runs race, one of them misconfigured |
| `FirstRun_wedged` | `FirstCommandCreatesUser` (violated) | a crash half-way through the creation is never repaired |
| `WaitForDm` | `TypeOK`, `RightTransport`, `NoMissedReply`, `PowBlameIsRight`, `BondClaimIsHonest`, `Terminates`, `ImplementsRequestReply` | one command from the choice of its transport to its outcome, against every kind of event, lost notifications and old info events; termination; the refinement |
| `ReplyDispatch` | `TypeOK`, `OnlyTrustedWrites`, `OnlyAnswersAreSaved`, `FailedDispatchWroteNothing` | every message through every caller that may write, against every row, another command in between |
| `AdminDispute` | `TypeOK`, `SuccessIsOfItsKind`, `SuccessIsRealIfAlone` | two commands, two disputes, late replies: a reported resolution was granted, and for this very dispute if the admin asked for it nowhere else |
| `AdminDispute_stale` | `SuccessIsReal` (violated) | a late reply is taken for another's success |
| `AttachmentUpload` | `TypeOK`, `StoredWasChecked`, `ReportIsTrue`, `NoSecondCopy` | the nine servers with any answers, the file changing meanwhile |
| `OrderListing` | `TypeOK`, `ListedIsNewest`, `OncePerId`, `NoneLost`, `OpenOrdersListed` | any three revisions of two orders or disputes over two relays |
| `DmListing` | `TypeOK`, `ShownIsAskedFor`, `WindowCovers` | all four listings and every sender, both transports, messages arriving during the scan |

Bounds, and why they are enough:

- `MaxRid` (3 or 4 commands in a behaviour): the shortest counterexamples to
  variants of the key properties take a `neworder`, a `release` and one more
  command; four commands let a child order be saved, cancelled and followed by a
  new order. Two processes suffice for any two commands to interleave; a third
  would only repeat what one of the two can do after `Exit`. Two created orders,
  one taken and one child cover every pair of kinds.
- `TradeSession_sequential` has no late replies and pushes `Canceled` and
  `RateReceived`: with `LateReplies = TRUE` a late `LastTradeIndex` breaks
  `SyncedIndexIsReal` and, with `MaxRid = 4`, `KeyCoverage` (see Divergences).
  `KeyAgreement`, `KeyPerOrder` and `ImplementsLedger` do not need these limits:
  `TradeSessionProofs` proves them for a single process with any pushes and late
  replies.
- `FirstRun` has no bound: its processes run commands for ever. Three processes
  are the creator, one that finds the file and one that is misconfigured.
- `MaxNoise = 3` stray events besides the reply and the probe's event: enough
  for one before and one after the reply, and an overflow. Difficulties
  `{0, 1}`, for either revision and for the request, give less, equal and more
  than each asks for, and revisions that agree or differ. Two relays are one
  that is up to date and one that lags, is empty or stays silent.
- `AdminDispute`: three requests are two that end and a third that meets their
  replies.
- `Servers = 9` is the length of `BLOSSOM_SERVERS`: nothing is bounded.
- `OrderListing`: three events give an order of old, equal and new revisions and
  a second id beside them; `Limit = 2` makes the limit cut, as 50 does. Two
  relays suffice for one that lags or stays silent.
- `DmListing`: times 0..3 with a window of 2, a set-back of 1 and `--since` from
  0 to 3 lie on either side of every comparison; two messages, two trade keys.

`CHECK_DEADLOCK FALSE` is set where a behaviour ends by design: a bounded number
of commands, one request, one message, one listing.

## Fairness and assumptions

Only `WaitForDm` states fairness: `WF_vars(Client)`, the client's own steps. The
tokio runtime schedules the task and its timers fire (`tokio::time::timeout`
around the loop and around the probe). Nothing is assumed of relays, daemon or
probe: they may stay silent, and the wait ends all the same. The other modules
state safety; their processes may stop anywhere, as a killed command does.

Of external parts the models assume: the daemon refuses a trade index it has
already seen and binds an order to the key that created or took it; request ids
(UUIDs) are fresh; an sqlite statement is atomic; `create_new` is atomic;
`sort_by` is stable; a gift wrap is set back by at most `Tweak`; relays that
answer completely return all matching events they hold.

## Proofs

TLAPS checks the following for every value of the constants that satisfies the
modules' assumptions.

**`FirstRunProofs`** proves all of `FirstRun`'s properties for any number of
processes. None is inductive alone. `IInv` adds `OneCreator` (at most one
process is between creating the file and inserting the user, and while it is
there is no user; before the file there is neither), `OneUser`, `Tightened`
(which program points imply a private directory and file) and `Validated` (past
the validation a process has a valid configuration). `IdentityIsStable` follows
from `OneCreator`: the only step that changes `users` starts from none.

**`TradeSessionProofs`** rests on `BaseInv`, which holds whatever commands run
at the same time and whatever is pushed, delayed, repeated or lost: request ids
are unique to a process and nothing carries one before it is sent (`Fresh`); a
request says what its sender's context says (`Faithful`); no bound index is
ahead of what the daemon has seen (`Bound`); a reply that gives an order goes to
the key the order is bound to, and its request id belongs to a command that
asked under this key, or it announces a child on another key than the command's
(`Answers`); a `release` that was not refused has used its promised index up, so
that no created or taken order will ever be bound to it (`UsedUp`, `Past`). On
it rest three inductive invariants, one for each set of circumstances in which
it holds. The conditions are hypotheses of the theorems, not assumptions of the
model:

- `DirectInv`, if there are no pushes or no range orders (`Separate`), for any
  number of concurrent commands and late replies. Created and taken orders are
  stored under the daemon's key (`DirectKeysAgree`), appear only through the
  command that asked for them (`RowsAreOwn`), never share a key
  (`DirectKeysDiffer`) and implement `KeyLedger` (`DirectLedgerKept`). Besides
  the rows (`Kept`), the copies about to be written back must have the right key
  (`Copied`), and a child must not be mistaken for a created or taken order
  (`Promised`). `OnceInv` adds that the daemon gives an order once and that the
  command which asked for a saved one has read its reply. `SavesAreInserts`
  follows: the first save of such an order never meets a row of it.
  `Order::new` inserts, and overwrites the row in a second statement if that
  fails; the model writes the row in one step, and for these orders the theorem
  shows that nothing is lost by it.
- `TableInv`, if one command runs at a time (`Alone`) or there are no range
  orders (together `Steady`), with any pushes and replies as late as they like.
  Now the whole table, children included, keeps the daemon's keys (`KeysAgree`),
  implements `KeyLedger` (`LedgerKept`) and has no two rows under one key
  (`KeysDiffer`). What a single command needs is `OwnIndex`: nobody else moves
  the last index, so the index a `release` promises is the one of its own
  context, under whose key the child is saved.
- `SyncInv`, if one command runs at a time and no reply outlives its command:
  every saved order is within the keys `getdm` scans (`OrdersInReach`), and
  after a `getlasttradeindex` that reports success the index is not behind any of
  them (`SyncTellsTheTruth`). `InReach` says that the last index is the one the
  running command started from or the one of its context, whichever write
  failed; `Told` that the index the daemon answers a waiting sync with is not
  behind a saved key.

So two orders can share a key only if there is a range order and two commands
run at once, which is what `TradeSession_shared_key` shows to happen. The
hypotheses are needed, and not for the proofs only. `Separate`: a push carries
no request id and passes the validation, so it can end a `release` before the
daemon has looked at the promised index. If another process's `neworder` uses
that index meanwhile, the follow-up takes the new order for the child and saves
it under the wrong key. TLC finds this with `TradeSession_concurrent.cfg` and
`Pushes = {"WaitingSellerToPay"}`. `LateReplies = FALSE`: see Divergences for
what a late `LastTradeIndex` does.

The refinement is proved step by step: each step binds one order above all
others (`OneBinding`), changes at most one row (`OneRow`) or neither.

**`WaitForDmProofs`** proves every invariant of `WaitForDm` for any relays,
difficulties and number of stray events, and `WaitIsAnExchange`, the safety half
of the refinement: a wait maps to the initial state and the steps of
`RequestReply`. `IInv` adds `Chosen` (what the start-up has settled about the
transport), `Progress` (how far request, subscription and probe are at each
place of the code), `Queued` (while the client listens, every message for its
key that was delivered is still in the channel unless the channel has lagged,
and the channel holds no other message for it) and `Decided` (what each outcome
presupposes). `Progress` has the client listening and subscribed whenever a
request is out and the wait not over, so nothing is delivered past it
(`DaemonDelivers`); `Queued` then makes silence honest: the timer fires on an
empty channel that has not lagged, so nothing had been delivered.

**`ReplyDispatchProofs`** proves the invariants of `ReplyDispatch` for any set
of pushes and each caller. `Passed` is what the caller lets through, and
`PassedMayWrite` what that allows by action. `Judged` carries what an early
check established about the message to the statement that relies on it;
`Untouched` says that only the two places that cannot return an error any more
are reached after a write.

**`AdminDisputeProofs`** proves `SuccessIsOfItsKind` and `SuccessIsRealIfAlone`
for any number of commands and disputes. `Earned` says that for every reply that
grants a resolution some request of this kind was granted, for good, and
`Succeeded` the same of every reported success; if all requests of the kind name
one dispute, it is that one. The set `asked` is finite, so requests can be
numbered.

**`AttachmentUploadProofs`** proves the properties of `AttachmentUpload` for any
number of servers: `Loop` (the servers before the present one have been tried,
and at "put" neither it nor any after it keeps a copy), `Address` (where an
address on its way to the admin comes from), `Checked` (a written file is the
only way past the size check).

**`OrderListingProofs`** proves `ListedIsNewest`, `OncePerId`, `NoneLost` and
`OpenOrdersListed` for any events, relays, filters and limits. `Reduced` and
`Gathered` are the loop invariants: the map holds for every id seen its newest
usable event; the list of disputes holds exactly the usable events seen. Sorting
enters through one lemma about `Arranged`. `NoneLost` needs a newest revision of
an id among arbitrarily many, and the first of several retained ones: both are
least members of sets of numbers, by well-founded induction. `OpenOrdersListed`
adds that a limit that is not reached cuts nothing and that up-to-date relays
hold one event per id.

**`DmListingProofs`** proves `ShownIsAskedFor` and `WindowCovers` for any
senders, trade index, windows, set-back and `--since`. `Covered` says where a
message asked for can be while the scan runs: its key is still ahead, it is
fetched and not parsed, or it is shown. `Scanning`, `Collected` and `Dated` are
what its steps need. The arithmetic is in `AskedMatches`: `outer >= sent - Tweak
>= now - since - Tweak >= now - Window`.

Only model-checked: liveness (`Terminates`, and the liveness half of
`ImplementsRequestReply`), which is out of the prover's reach. Every other
property of the passing runs is stated by a theorem; those of
`TradeSession_sequential` and `TradeSession_concurrent` under the hypotheses
above, which the configurations satisfy.

## Divergences

Three runs show the code at odds with what the repository says of it:

1. `TradeSession_shared_key`: `README.md:105` promises "a fresh keypair per
   order". The child order found after a `release` is saved under the key read
   when the release started (`src/parser/dms.rs:476`, called from
   `src/cli/send_msg.rs:142`), not under the promised one; a `neworder` that ran
   meanwhile has taken that key.
2. `FirstRun_wedged`: `README.md:112` says the first command creates the user,
   with no init step. `connect()` decides by the file's existence; a command
   killed after `create_private_db_file` and before `User::new` leaves a
   database no later command completes.
3. `AdminDispute_stale`: the comment at `src/cli/take_dispute.rs:92` says
   success is printed "only when the cancel actually went through". The reply is
   matched by sender and action on a key that never changes: the late reply to
   one `admcancel` ends another one, refused by the daemon, with success.

The modules state further properties that the repository's documents suggest and
the code does not have. They are not among the runs; each is refuted by TLC when
it takes the place of the properties in the named configuration, with the
changes given:

| Property | Configuration | What happens |
|---|---|---|
| `SyncedIndexIsReal` (`TradeSession`) | `TradeSession_concurrent.cfg` with `Procs = {p1}`, `Ranged = {}` | a late answer to an earlier `getlasttradeindex` ends a later one and sets the index back (`README.md:514`) |
| `TakenOrderKept` (`TradeSession`) | `TradeSession_sequential.cfg` with `Ranged = {}`, `TakeReplies = {"WaitingSellerToPay"}`, `Pushes = {}`, `MaxRid = 2` | a take with an invoice is answered by a status message, which finds no row (`README.md:305`, `320`) |
| `ToleratedIsPrinted` (`ReplyDispatch`) | `ReplyDispatch.cfg` | a child `NewOrder` without request id passes the validation made for it and fails before it is printed (`src/util/messaging.rs:560`) |
| `PowBlameIsCertain` (`WaitForDm`) | `WaitForDm.cfg` | only lagging relays answer the probe: their old info event asks for more work than the daemon does, and a request it handled, whose reply was lost, is said to lack work (`docs/pow_error_handling.md:60`) |
| `EveryServerIsTried` (`AttachmentUpload`, a PROPERTY) | `AttachmentUpload.cfg` | an unreadable body of a `200` ends the upload (`docs/send_admin_dm_attach_flow.md:319`) |
| `SizeLimitHolds` (`AttachmentUpload`) | `AttachmentUpload.cfg` | the file grows between check and read (`docs/send_admin_dm_attach_flow.md:51`) |
| `EverythingMostroSent` (`DmListing`) | `DmListing.cfg` with `Tweak = 2`, the code's ratio | a gift wrap set back past the window is not fetched (`README.md:238`) |
| `FromUserSince` (`DmListing`) | `DmListing.cfg` | `--from-user` always looks back 30 minutes (`docs/commands.md:112`) |
| `CounterpartIsRead` (`DmListing`) | `DmListing.cfg` | what `senddm` sends is not what `--from-user` reads (`README.md:348`) |

## Not modelled

- Cryptography, encoding, tables and wording, argument parsing, the invoice
  check: library code or pure functions without state. Key derivation is the
  identity of an index.
- Amounts: `Ranged` abstracts the comparison that decides whether a range order
  has room for a child.
- Commands that only print what is in the database or derived from the mnemonic
  (`conversationkey`, the private key of the last trade index): nothing changes.
- What `restore` and `ordersinfo` print: they write nothing, and are modelled as
  commands that may take another's message for their answer.
- Amounts of time: timeouts are steps that may happen whenever the code waits.
- Relay I/O and `nostr-sdk`: external, by what the client sees of them.

## Plan

Done: all components but argument parsing and display, with two abstract
specifications (`KeyLedger`, `RequestReply`) and the refinements to them.

Proved: all safety properties the passing runs check.

What is left: a refinement between the two models of `save_order`,
`ReplyDispatch` (statement by statement) and `TradeSession` (a step for the row,
a step for the index). No plain refinement mapping exists: if another command
deletes the row between the refused `INSERT` and the `UPDATE`, `TradeSession`
has the same outcome as an overwriting step followed by the deletion, but at the
`INSERT` it is not known yet that the deletion will come, and at the deletion
two steps would be due at once. It takes a prophecy variable. `SavesAreInserts`
covers the case that matters for the keys: for created and taken orders the
`UPDATE` is not reached.
