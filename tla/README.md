# A verification project for fauxchange

fauxchange is a simulated options venue. Gateways (REST, WebSocket, FIX) and the
venue's own drivers (market maker, price simulator, expiry roll) submit commands;
each underlying has one actor that puts its commands into a total order, journals
them, executes them against the order books and publishes what happened. The
promise the rest of the venue is built on is *determinism of the journal*: the
book, the stores and the feed are functions of the durable command stream.

This directory holds TLA+ models of the venue's components, TLC runs that check
them on small instances and TLAPS proofs for every instance. `PROJECT.json` maps
each definition to the lines it models.

## 1. Inventory

| component | state it keeps | operations | talks to |
|---|---|---|---|
| per-underlying actor (`exchange/actor.rs`) | next sequence, seal, epoch, executor, projections | `handle` (one turn), `capture`, `restore`, `journal_state` | journal, executor, stores, feed |
| its mailbox | bounded channel, shutdown token, reply channels | `submit`, `snapshot`, `run`, `drain_reject`, `shutdown` | every gateway |
| journal (`exchange/journal.rs`, `db/journal.rs`) | (sequence, kind) -> payload, header | `append`, `contains`, `records`, export | Postgres or memory |
| recovery (`exchange/recovery.rs`, `state.rs`) | none (rebuilds the others) | `reduce_into_executor`, `resume_sequence`, bootstrap in two passes | journal, executor, stores, ClOrdID index |
| matching executor (`exchange/executor.rs`) | books, order registry, idempotency map, instrument status | add, cancel, replace, mass cancel, evict, status, clock, control | upstream matching library |
| ClOrdID index (`exchange/clordid_index.rs`) | (account, ClOrdID) -> orders | `record`, `retire`, `resolve` | written by every actor, read by gateways |
| stores (`exchange/stores.rs`, `db/executions.rs`) | executions log, position folds | `record`, `list`, `fold`, slices for restore | written by every actor |
| venue state (`state.rs`) | actors, stores, clock, ingress buffer, expiry phases | submit, venue-global fan-out, expiry roll, boot | all |
| microstructure (`microstructure/`) | ingress keys, latency, fees, STP, specs | key assignment, release, admission, fingerprint | venue state, executor, replay |
| FIX session (`gateway/fix/fsm.rs`, `session.rs`, `store.rs`, `acceptor.rs`) | in and out sequence numbers, resend log, lease | logon, resend, gap fill, reset, logout, heartbeat | auth, venue state |
| FIX codec and reports (`gateway/fix/`) | none | decode, encode, render | FIX session |
| order entry (`gateway/rest/orders.rs`, `gateway/fix/order_flow.rs`) | tracking map of a FIX session | place, cancel, replace, status, bulk | ClOrdID index, actors |
| WebSocket and subscriptions (`subscription.rs`, `gateway/ws/`) | depth aggregate, per-instrument sequence, broadcast | subscribe, snapshot, delta, lag | actors' fan-out |
| auth (`auth.rs`, `gateway/rest/middleware.rs`) | accounts, epochs, tickets, rate-limit windows, slots | issue, verify, revoke, admit, redeem | gateways |
| market maker and simulator (`market_maker/`, `simulation/`) | quotes, kill switch, price cursor | step, requote, control, reconcile at boot | actors, through bounded sinks |
| configuration and seed (`config.rs`, `seed.rs`) | none | merge, validate, seed | boot |

What is hard here, and hard to test (the list with its lines is `hazards` in
`PROJECT.json`):

* **crash points.** Inside a turn; between the commit of a FIX order and the
  save of the inbound number; between the commit of an order and its publication;
  between a price step and its requote;
* **ambiguous appends.** Postgres may have committed an append whose answer was
  lost; the read-back of the tail can fail too, or run before the server commits;
* **fail-stop.** A seal must be final, and what it protects must not move;
* **restore in the middle of a journal** that is append-only and replayed whole;
* **shutdown against callers in every position**;
* **several actors, one caller, no lock**: fan-outs, the expiry roll, the kill
  switch, the ClOrdID index and the stores;
* **work done by somebody else's future**: the reorder buffer is drained by
  whichever caller comes next, and that caller may hang up;
* **bounded everything**: mailbox, broadcast, resend log, sinks, index, rate-limit
  keys, tickets, slots; what is dropped at a limit must not be forgotten silently;
* **retries** over another protocol, another connection, or after a restart;
* **silent peers, revocation and expiry** of sessions that were admitted once.

## 2. The modules

State machines:

| module | models | depends on |
|---|---|---|
| `SequencedLedger` | the abstract promise of one underlying | - |
| `UnderlyingActor` | the turn, the journal, crash, boot; the refinement mapping to `SequencedLedger` | `SequencedLedger` |
| `SnapshotRestore` | capture, restore and epoch markers on top of the turn | `UnderlyingActor` |
| `ActorMailbox` | the bounded mailbox and the receive loop | - |
| `MatchingExecutor` | what one committed command does to books, registry, idempotency map and statuses | - |
| `IngressReorder` | the reorder buffer, its keys, kicks and driver | - |
| `VenueFanout` | venue-global commands and the expiry roll over several actors | - |
| `OrderFlow` | order entry over REST and FIX with the index, the idempotency maps and the FIX tracking maps | - |
| `FixSession` | two connections of one comp id over the persisted session | - |
| `MarketData` | depth aggregate, broadcast and consumers | - |
| `Admission` | rate limiter, tokens, tickets, sockets | - |
| `MarketMaker` | simulator, sinks, requotes, kill switch, boot | - |
| `UnderlyingActorProofs` | theorems and proofs | `UnderlyingActor`, `SnapshotRestore`, `ActorMailbox` |
| `RequestPathProofs` | theorems and proofs | `IngressReorder`, `OrderFlow` |
| `...Proofs` of `MatchingExecutor`, `VenueFanout`, `MarketMaker`, `FixSession`, `MarketData`, `Admission` | theorems and proofs | the module itself |

Components that share a proof module keep their names apart: the specification of
`ActorMailbox` is `MailboxSpec`, that of `OrderFlow` is `FlowSpec`.

Pure algorithms, as operators, with statements of what they must do over bounded
inputs, most of them in a `...Checks` module:

| module | models | checked in |
|---|---|---|
| `TradeStores` | position arithmetic, executions log, slices, candles | `ReplayChecks` |
| `JournalStore` | record estimates, reads, header | `ReplayChecks` |
| `ScenarioReplay` | bundles: versions, gates, the replay of all streams | `ReplayChecks` |
| `Microstructure` | fees, latency, specs, knobs, fingerprint | `MicrostructureChecks` |
| `VenueConfig` | layers, parsing, bounds, redaction | `VenueConfigChecks` |
| `SeedManifest` | symbols, chains, personas, accounts, seeding | `SeedManifestChecks` |
| `FixWire` | the fields and the messages of FIX | `FixWireChecks` |
| `OrderReports` | REST and FIX orders, their command, answer and reports | `OrderReportsChecks` |
| `VenueErrors` | one failure on three surfaces | `VenueErrors` |
| `Validation` | checks made one after the other | - |

`MC*` modules and the `.cfg` files give the constants their values.

### UnderlyingActor

`commands`, `events` and `markers` are the journal's records by kind and
sequence; `inflight` holds appends that answered *ambiguous* and may still land.
The process state is lost in `Crash` and rebuilt by `Boot`, `ReplayCommand` and
`Resume`, one iteration of the recovery loop at a time.

A turn is three steps, cut at the points where a crash leaves different durable
states: `Submit` (write-ahead append and its read-back), `ExecuteAndAppendEvent`
and `FanOutAndAdvance` (or `ProjectionFails`). `UnderlyingActor::handle` is
synchronous inside one task, so nothing but a crash, a late append and the clock
comes between them. The executor is a parameter (`Book`, `NextBook`, `Outcome`),
as it is in the code (`CommandExecutor`); the runs use a one-level book in which
orders rest and fill.

Two answers of `append` that leave nothing behind (`AppendFailed`, `Conflict`)
are one case. `ReadBackReliable` says whether the tail read-back settles an
ambiguous append. With `TRUE` it always answers and the append has settled by
then, which is what the code's comments take for granted; with `FALSE` the read
may fail (`VenueJournal::contains` reads a failure as "absent") and the append
may land later. The runs look at both.

`acked`, `refused` and `trace` are history: what callers were told, and the
executor state before each sequence as the durable commands give it. The
publication of the ClOrdID index inside the turn is in `OrderFlow`.

### SnapshotRestore

Adds the administrator's snapshot, the in-memory epoch counter, and `line`, the
history of the line the live actor is on. A restore leaves a sequence that names
no command; `SkipSequence` is the recovery walk passing over it. It is checked with
`ReadBackReliable = TRUE` (late appends are the subject of `UnderlyingActor`
alone, and its next-state relation leaves them out).

### ActorMailbox

The select loop is cut between polling the token and polling the channel,
because the token can fire between the two; the second look at the token after a
receive is a step of its own. A caller sends one message; a snapshot request
behaves as a submit does. `TaskFails` is a panic inside the turn: the receiver
and all reply channels are dropped. The documentation of `submit`
(`actor.rs:1027`) says a submission after shutdown is answered
`JournalUnavailable`; the code and its tests answer `ShuttingDown`, and so does
the model.

### MatchingExecutor

The `Book` and `NextBook` that `UnderlyingActor` leaves open. One command is one
step. `leaves` is the upstream order book, modelled from what the executor relies
on (`Match`: the crossed makers in price-time order, `Priority`, are met one after
the other; self-trade prevention by owner; no rest for an immediate order); `resting`, `idToEngine`, `idempotency` and `status` are the
executor's own maps. A sequence number is the engine id of the order it adds, as
in the code. `MassCancel` takes a set of symbols for the scope. `EvictExpired`
drops every `Gtd` order: deadlines are not told apart. A restart only resets the
gateways' counter of order ids, because `UnderlyingActor` shows that recovery
re-executes the same commands. `orders` and `last` are history. Left out: `Fok`
(upstream refuses it whole or fills it whole), `Day` (its admission reads the wall
clock, which the code names as a limitation), and the overflow answers of
`build_fills`.

### IngressReorder and VenueFanout

`IngressReorder` has one step per point at which the tasks can interleave: the
clock read, the arrival counter, the two mutexes, the await of the actor. A
request that kicks the release drains orders of other callers, and a client that
hangs up drops the future that holds the batch. `late` marks an order whose
deadline had passed when it reached the buffer, the window that the module's
documentation excludes.

`VenueFanout` has one step per answer of an actor. The expiry roll strings a
sweep and one change of status per contract together and records the phase it has
reached; it may be refused at each of them, and starts again from the old phase.
`exposed` is history: what a roll has had no chance to sweep.

### OrderFlow

A request is resolved against the index, submitted, executed and journaled,
published, and rendered; other requests, a lost client or the end of the process
may come between any two. Whether an order rests, trades or is refused is the
executor's decision and is left open. An atomic batch cancels what it had placed
through the same queues. `journal` holds the committed turns that placed or replaced
an order, which are the ones the index is rebuilt from: `Replay` walks one journal,
`Rebuilt` the journals of all underlyings in the order of the configuration.
`minted`, `told` and `undone` are history: the ids handed out, the acceptances REST
callers heard, the orders of batches answered as rolled back.

### FixSession, MarketData, Admission, MarketMaker

`FixSession`: `store` is what is persisted, `conn` what a connection holds; a
takeover lets two connections run at once for a while. The order of commit, save
of the inbound number and send is the code's, and a crash may come at each.

`MarketData`: `book` is what the actor did, `orders` and `levels` the aggregate;
the delta is numbered under the instrument's guard and sent after it. The depth of
a level is the number of contracts its orders have there (`Contracts`), and an event
that takes several orders off takes them off together (`RemoveOrders`). Consumers
are WebSocket and FIX ones, with the drain limit of the latter.

`Admission`: what is not under one lock is a step of its own (the length of the
key table is read before the insert; the clock before the lock). One clock stands
for the venue clock and the wall clock; no property relates the two.

`MarketMaker`: four tasks (simulator and operators, step forwarder, command
forwarder, actors) around two bounded sinks. A price is the ordinal of its step;
what a quote costs is left out.

### The pure modules

An option of the code is a set of at most one value, a refusal the empty set or
the set of its errors; `FirstError` is the `?` of the code. Integers keep their
width as a constant, small in the runs, so that each checked operation can fail:

* `TradeStores`: the average price stays between the prices that opened a
  position; an overflow stops at the documented place; log and positions agree
  unless sealed; re-recording keeps its place; the durable log answers as the one
  in memory; a restore of one underlying leaves the others alone;
* `JournalStore`, `ScenarioReplay`: the estimate never admits a record beyond the
  ceiling; a read is complete or refused while the stream grows; a stream keeps
  its lineage; a replay does not depend on the order of the streams and is
  reached under the recorded configuration only;
* `Microstructure`: fees are exact or refused; boot and replay accept the same
  configurations; the fingerprint tells configurations apart; draws stay in their
  band and arrivals of a session keep their order;
* `VenueConfig`: the later layer wins; an accepted configuration is bounded; a
  refusal names its knob; no message shows a secret;
* `SeedManifest`: symbols identify contracts; chains are complete; every persona
  can quote; a second seeding keeps what recovery brought back;
* `FixWire`: prices are exact cents; what is written reads back;
  each code has one meaning; groups are whole; a refusal names the field; frames
  beyond the limits are refused before they are read;
* `OrderReports`: one command for both surfaces; the reports of one order add up;
  REST and FIX agree on the outcome; the FIX book is the WebSocket book;
* `VenueErrors`: the surfaces agree; internals are redacted; only what never ran
  is offered for a retry; a refused cancel does not tell whose order it was.

These statements are named assumptions; TLC evaluates them when it starts the run
whose module extends them (see the table of runs), and stops with an error if one
is false.

## 3. The runs

| run | bounds | states | also evaluates |
|---|---|---|---|
| `actor_reliable` | 2 commands, 3 sequences, 2 clock values | 231,228 | |
| `actor_ambiguous` | 2 commands, 2 sequences, late appends | 71,111 | |
| `snapshot_restore` | 2 commands, 3 sequences | 401,276 | `ReplayChecks` |
| `mailbox` | 4 callers, capacity 2 | 209,146 | `VenueConfigChecks` |
| `executor` | 1 book, 2 accounts of one STP owner and the maker, 1 client order id, 3 commands, captures, 1 restart | 552,398 | |
| `fix_session` | 2 connections, 1 order, numbers to 3, log of 1 frame, 1 reset | 179,352 | `FixWireChecks` |
| `market_data` | 1 instrument, 2 levels, 3 orders, broadcast of 1, drain of 1, 1 restart | 361,214 | |
| `ingress` | 3 requests of 2 sessions, buffer of 2, 4 instants | 960,870 | |
| `fanout` | 2 underlyings, 2 contracts of one of them, 3 instants | 919,320 | `MicrostructureChecks` |
| `admission` | 2 clients, 1 key, 1 ticket, 1 slot, 3 instants | 138,352 | `VenueErrors` |
| `order_flow` | 1 REST caller, 1 FIX session, 2 keys (symmetric), 2 underlyings, index of 1, 1 batch, 1 restart | 998,564 | `OrderReportsChecks` |
| `market_maker` | 2 underlyings, sinks of 2 and 1, 3 steps, 4 ids, 1 control, 1 restart | 1,345,064 | `SeedManifestChecks` |

What they show:

* `actor_reliable`: with a read-back that can be trusted, receipts stay durable
  (`AckedIsDurable`), the served book and stores are the replay of the journal
  (`BookIsReplay`, `StoresMatchJournal`), a refused command never runs
  (`RefusedNeverExecuted`), and the actor implements `SequencedLedger`
  (`ImplementsLedger`). `actor_ambiguous`: without it, types hold and a seal is
  final (`TypeOK`, `SealedIsFinal`);
* `snapshot_restore`: no sequence restarts or is skipped (`SequenceIsSound`), the
  book is the restored cut and what came after (`BookFollowsLine`), a boot honours
  every receipt or halts (`ResumeHonoursReceipts`);
* `mailbox`: what was queued at the cancel never runs, what is answered
  `ShuttingDown` has not run, a dropped handle runs all it accepted
  (`MessagesAccounted`); everybody is answered and shutdown ends (`LoopEndsWell`);
* `executor`: the registry follows the books and makers keep their attribution
  (`RegistryIsSound`), quantities are conserved and books uncrossed
  (`BooksAreSound`), a key opens one order (`OneOrderPerKey`), an order leaves only
  for a reason of its own (`RemovedForAReason`);
* `fix_session`: no number carries two messages and live counters equal the stored
  ones (`SequenceNumbersSound`), a consumed order is answered
  (`ConsumedIsAnswered`), a resend covers its range (`ResendIsComplete`), the expected number moves back only with an audit
  entry (`TargetMovesBackAudited`), silent and revoked sessions end
  (`SessionsEnd`);
* `market_data`: a consumer that caught up sees the depth (`DepthIsTrue`), moves by
  one or by a snapshot (`NoSilentGap`), and gets every numbered delta
  (`EveryDeltaArrives`);
* `ingress`: counts and answers are exact (`BufferAccounted`), only a late order is
  overtaken (`OnlyLateIsOvertaken`), the buffer drains (`BufferDrains`);
* `fanout`: a summary is true of what was committed (`FanoutIsTrue`), a recorded
  phase stands for closed books (`RolledIsClosed`), and what still rests is only
  what the roll could not take (`RolledRestsOnlyExposed`);
* `admission`: key space, budgets and slots are bounded (`BoundsHold`), a ticket
  admits once and nothing revoked gets in (`CredentialsHold`), a dead session gives
  its slot back (`DeadSessionEnds`);
* `order_flow`: counters and entries of the index are true and every resting order
  is reachable (`IndexIsSound`), retries name one order and a rolled-back batch has
  nothing on a book (`AnswersHold`), a key means the same after a restart
  (`RestartKeepsCorrelation`, for keys of one underlying and no ceiling met);
* `market_maker`: no quote rests untracked and no id is reused (`QuotesAccounted`),
  quotes follow their steps (`QuotesFollowSteps`), a committed kill holds
  (`KillHolds`).

Why the bounds are enough: three sequences let a turn follow a recovery that
followed a turn, and let the last sequence be reached with a command at it; two
commands interact (the second fills the first); two timestamps tell a retry from
the command itself. Four callers against a mailbox of two leave one running, two
queued and one refused. Three orders let one overtake another while a third pumps.
Every queue, log, index, key table and slot has a capacity that the actors exceed.
Three commands are enough for the executor: a maker rests, is touched, and is met
again; or an order is captured, changed, and restored. A type invariant is part
of the first composite invariant of each module.

Deadlock is checked except where the system may stop: the mailbox when everybody
has been answered, the executor at its last sequence, the FIX session when both
connections are closed and the numbers used up, order entry and the maker when
their bounds are used up.

### Fairness

Weak fairness of the loop's steps and of a caller waking up from a dropped reply
(`mailbox`; tokio polls a ready task again). Weak fairness of a connection's own
progress, of its timer and of time (`fix_session`; the timer is a branch of the
same select). Weak fairness of the broadcast send and of each consumer's receive
(`market_data`; the send follows the fold in one synchronous call). In `ingress`,
weak fairness of the forwarding steps, of the clock and of the cadence driver's
wake-up, and strong fairness of the driver's turn at the release lock, because
tokio's mutex is first come, first served. In `admission`, strong fairness of a
request's step under the limiter's lock and of the heartbeat, which is an interval
branch of the socket's select and is not starved by frames. Nothing is assumed of
clients, peers, operators, shutdown, crashes or failures.

## 4. Where the code and its words part

Each of these was met while modelling. The properties named are stated in the
modules, and not in a run, because the code does not keep them.

* **A refused command may run** (`RefusedNeverExecuted` with `ReadBackReliable =
  FALSE`; `actor.rs:667`): the read-back fails or comes too early, the caller is
  told nothing executed (`actor.rs:562`), and the next boot executes it. A
  conflicting next command may also proceed, as `contains` accepts any command at
  the sequence.
* **A restore can be undone by a restart** (`RestoreBoundaryHalts`;
  `recovery.rs:463`): boot replays the whole stream; when nothing after the restore
  depends on the book it resumes on the pre-restore book, where `recovery.rs:35`
  promises a halt.
* **Venue order ids repeat after a restart** (`MapsInLockstep`; `support.rs:27`):
  the gateways' counter starts at 0 while the lineage is kept, and an older order
  loses its id to a newer one (`executor.rs:464` says "kept in lockstep").
* **A replace enters a halted book** (`OnlyActiveBooksTakeOrders`;
  `executor.rs:1039`, against `executor.rs:599`).
* **A restore reactivates a halted instrument** (`RestoreKeepsStatus`;
  `executor.rs:1510`, against `executor.rs:1491`) and **installs bare books**
  without self-trade prevention, fees and specs (`NoSelfTrade`; `executor.rs:1597`,
  against `executor.rs:326`).
* **Swept orders stay in the depth** (`NoPhantomDepth`; `subscription.rs:686`, against
  `subscription.rs:331`): a control, an eviction or a wide sweep has no symbol, and
  `on_committed_event` returns before the aggregate.
* **A FIX session tracks a duplicate's id** (`TrackedIsReal`; `fsm.rs:2393`, against
  `fsm.rs:2391`): the id minted for the retry never entered the book.
* **A dropped sender does not mean shutdown** (`DroppedMeansShutdown`; `state.rs:1990`):
  the future that holds the batch is another client's, who may hang up.
* **A phase is recorded while orders rest** (`NeverRecordedWhileLive`; `state.rs:2164`):
  the sweep counts as committed when any underlying committed it, and orders enter
  before the change of status.
* FIX orders pass neither `validate_order_shape` nor `validate_gtd_expiry`
  (`models.rs:520` says the gateway maps both to a reject): only the configured
  specs bound them. An order status counts taker fills only, so an order filled
  as maker is reported New with all its quantity (`fsm.rs:2221` says "true current
  state").
* A logon with a reset leaves the resend log (`fsm.rs:1269`). A status report
  shares its ExecID with a fill. A timestamp is checked by shape only; integers
  take a leading `+`; the least fee is written and not read back.
* The index rebuilt at boot differs from the live one when two underlyings share a
  key or a ceiling was met. A replacement's key is unknown to the idempotency map.
  Bulk orders count any receipt as accepted; a batch whose caller leaves is not
  rolled back.
* The maker publishes a price when it enters the channel, before it is journaled;
  prices set by hand never drive the maker but become its reference at boot; a
  kill switch that only some underlyings committed may flip at a restart; a
  sequenced kill cancels nothing by itself.
* Seeding again is called a no-op (`seed.rs:48`) and journals every opening price
  again; a full price queue drops an opening price that the report counts; an
  account seeded again with another owner or password counts as unchanged.
* An override looser than its underlying's spec cannot be enforced. A projection
  that overflows fails at every boot (`state.rs:1486`). A bundle may hold two
  streams of one underlying.

## 5. The proofs

Each theorem holds for every value of the constants: every number of callers,
requests, connections or contracts, every capacity, every bound. One inductive
invariant per module carries its theorems; TLC checked each of them on the
module's run before it was proved, and one lemma per action shows that it is kept.

| module | theorem | states |
|---|---|---|
| `UnderlyingActorProofs` | `TypeCorrect`, `SealedStaysSealed` | types and `SealedIsFinal`, under every journal fault |
| | `BookIsAlwaysReplay`, `ReceiptsSurvive`, `JournalIsPaired`, `StoresAlwaysMatch`, `RecoveryIsFaithful`, `ActorImplementsLedger` | when the read-back is reliable |
| | `SequenceContinues`, `BookStaysOnLine`, `ReceiptsHonouredAcrossRestores` | all of `snapshot_restore`, when the read-back is reliable |
| | `MailboxAccountsForMessages` | `MessagesAccounted` |
| `MatchingExecutorProofs` | `RegistryAlwaysSound`, `BooksAlwaysSound`, `KeysOpenOneOrder`, `OrdersLeaveForAReason` | all of `executor` |
| `VenueFanoutProofs` | `FanoutAlwaysTrue`, `RollClosesBooks`, `RollLeavesOnlyExposed` | all of `fanout` |
| `RequestPathProofs` | `BufferAlwaysAccounted`, `OrderIsKept` | `BufferAccounted`, `OnlyLateIsOvertaken` |
| | `IndexAlwaysSound`, `AnswersAlwaysHold`, `CorrelationSurvives` | all of `order_flow`: `IndexIsSound`, `AnswersHold`, `RestartKeepsCorrelation` |
| `MarketMakerProofs` | `QuotesAlwaysAccounted`, `CauseBeforeEffect`, `KillSwitchHolds` | all of `market_maker` |
| `FixSessionProofs` | `NumbersAlwaysSound`, `ConsumedAlwaysAnswered`, `ResendAlwaysComplete`, `OnlyResetsMoveBack` | `SequenceNumbersSound`, `ConsumedIsAnswered`, `ResendIsComplete`, `TargetMovesBackAudited` |
| `MarketDataProofs` | `DepthAlwaysTrue`, `GapsAreNeverSilent` | `DepthIsTrue`, `NoSilentGap` |
| `AdmissionProofs` | `BoundsAlwaysHold`, `CredentialsAlwaysHold` | `BoundsHold`, `CredentialsHold` |

Every invariant and every action property that a run checks is the statement of one
of these theorems; only the liveness properties are not.

Without `ReadBackReliable` the theorems that assume it are false, as section 4 says.

### What the properties need to be inductive

* `UnderlyingActor` (`ReliableInv`). The properties speak of live states, and a
  crash throws the live state away. What carries over it is that the durable
  commands have no gap (`Contiguous`), that the history does not change past the
  last of them (`TraceIsFlat`), that the recovery walk has rebuilt exactly the
  history before its position (`InvWalk`, `InvStores`), that the turn's record is
  the durable one (`InvTurn`), and that no refused record is durable
  (`InvRefused`). `HistoryExtends` is the lemma about the history that an append
  needs; `ActorImplementsLedger` maps every step to a ledger step or a stutter.
* `SnapshotRestore` (`SnapInv`). A restore breaks `ReliableInv`: the book is no
  longer the replay of the stream. What remains is that commands and markers
  together leave no gap (`SnapJournal`), that a live actor stands at the end of them
  on its own line (`SnapLive`, `BookFollowsLine`), that receipts are durable, and
  that every stored event the walk has passed is what its re-execution gives
  (`SnapWalk`), which ties the recovered outcome to the receipt.
* `ActorMailbox` (`Inv`). Where each message is: in the channel, with the loop, or
  answered, and never in two of these (`InvPlaces`); what a step of the loop may
  hold (`InvLoop`); what the cancel found queued (`InvCancel`).
* `MatchingExecutor` (`Inv`). Books, registry and history agree in the live executor
  and in the captured one (`BookOK`, of both): every resting order is registered
  under the account and the owner that placed it (`Registry`, `Attribution`), its
  quantity is what was placed less what was filled (`Quantities`), the book is not
  crossed. Orders have sequence numbers of the past and every key that opened one is
  in the idempotency map that belongs to it (`KeysOK`), so a restore cannot bring back
  a map that forgot a key whose order it keeps. What a match does is `MatchOK`: makers
  are met once and for no more than they have, self-trade prevention removes the
  owner's orders only, and a taker with a remainder has emptied its side. `MatchFacts`
  proves it of `Match`, whose walk is followed maker by maker (`MeetFacts`);
  `PriorityExists` shows that every finite side has a price-time order.
* `VenueFanout` (`Inv`). The underlyings a fan-out has yet to ask and those that
  answered partition the venue (`InvFan`); a contract the roll has already changed
  cannot be reopened (`InvClosing`); what it swept and what came after
  (`InvSwept`).
* `IngressReorder` (`Inv`). Which future holds a request (`InvPlaces`); keys are
  unique and follow the arrival counter (`InvKeys`); a batch being forwarded lies
  below every key still pending (`InvOrder`). A drained batch is *some* sequence of
  the drained set in the order of keys (`InKeyOrder`); that there is one for every
  finite set is `OrderExists`.
* `MarketMaker` (`Inv`). The fate of every quote is one of: to come, on its way,
  on the book, on its way off, off (`InvFate`); the floor of ids a boot recovers is
  the maximum over the journals, so that ids are fresh over a restart (`InvIds`,
  `InvBoot`); the pipe never holds quotes of a later step before those of an
  earlier one (`InvOrder`); what a control has committed so far (`InvSwitch`).
* `FixSession` (`Inv`). The properties fail in the middle of a handler, whose
  commit, save and send are separate steps. The invariant says what the holder of
  the lease still has to do in every state (`Holder`: the operations left in
  `todo`, the counters they will leave), and that a connection which lost the
  lease (`Outside`) can no longer write. `ResendIsComplete` needs no more state than
  that the stored log is sorted up to the first reset (`Sorted`); the rest is about the walk that builds the
  reply: after each entry it has covered the range up to its cursor without a hole and
  filled no gap over a frame it will still meet (`ServedTo`), and `TurnsLeft` bounds
  the walk.
* `MarketData` (`IInv`). The properties compare what a consumer has applied with a
  depth that has moved on since, and the broadcast forgets what was sent. The invariant
  says that there are two histories: `h`, the messages of this boot by position, and
  `d`, the depth of each instrument at each sequence number. The aggregate is the depth of
  its last number (`Depths`), the numbers in `h` are consecutive per instrument and
  each delta patches one depth into the next (`Numbered`), what is in flight, in the
  ring and drained by a consumer are parts of `h` (`PartOf`), and a consumer with a
  baseline shows the depth of that number and has applied nothing beyond it (`Follows`).
  That the number of contracts of a level follows an add, a fill and a removal of any
  set of orders is proved from the cardinality of the sets themselves (`SplitsInto`).
* `Admission` (`IInv`). What a request under way has read and not yet used
  (`TasksOK`: which claims back it, and that no two tasks hold one ticket), that a ticket
  is drawn, in the store or spent (`StoreOK`), that whoever holds the gate between the
  length check and the insert still finds room for its key (`GateOK`), that the slot
  counter is the number of tasks that hold a slot (`SlotsOK`), and that a window knows
  everything it has admitted as long as no stale clock read blurred it (`WindowsOK`).
* `OrderFlow` (`FlowInv`). The index lags behind the journals by what has been
  committed and not published, and a crash closes the gap by itself. So the invariant
  says that there is a published prefix of each journal (`PublishedTo`: all of it,
  except the last turn of an underlying whose actor is running or sealed) which the
  index reflects (`Reflects`: exact counts, entries that name turns of the prefix, and
  for a key bound by one underlying the meaning its last binding gave it). At most one
  request runs in an underlying and its turn is the last of the journal (`RanOK`); an
  order id is claimed by one request, on one underlying (`ClaimsOK`), so that a cancel
  of a batch cannot meet somebody else's order; a batch has taken off the book what it
  has rolled back so far (`BatchFits`, `RolledBack`); the idempotency map remembers the
  first placement under a key, which is in the journal (`IdemOK`), and what callers were
  told is that placement (`ToldOK`). A restart publishes all of every
  journal: `Walked` is what the index reflects after the first `k`
  underlyings, and a turn of a replay keeps it.

### How

Induction over a finite set or a sequence is not available as a rule, so where a
fact about all finite sets or every position is needed (a smallest key, an
enumeration, the state of a walk after each maker, the index after each turn of a
replay) it is proved from a minimal counterexample: `MinimalFiniteSet` and
`LeastNatural` choose one, and removing an element contradicts it. A recursive function
over an interval is first shown to exist and to unroll (`Unrolls`), then what it keeps
is shown step by step in the same way. Facts that a fold would give (the greatest id,
the last switch, the last binding of a key) are stated as maxima. Where an action
changes several records at once, the lemmas are about constant-level predicates over
the old and the new values (`Core`, `Stream`), so that each action only has to show
which values it changes.

The assumptions are the named ASSUMEs of the modules, and TLC evaluates them: bounds
and capacities are naturals, capacities that the code clamps are not zero, callers,
requests and contracts are finite sets, tickers are listed once, each contract has
one underlying, `None` is no other value, prices are naturals and quantities are not
zero, the executor is a total function, order ids of the market data model are a
finite set, REST callers and FIX sessions are different clients, and a batch is a
sequence of items.

### Only model-checked

* Liveness (`LoopEndsWell`, `SessionsEnd`, `EveryDeltaArrives`, `BufferDrains`,
  `DeadSessionEnds`): fairness and ENABLED are out of the prover's reach.
* The pure modules, over the bounded inputs of their checks.

No module declares a RECURSIVE operator.

## 6. Not modelled

The SQL text and the pool; the conformance harness; the OpenAPI
description; the listing of instruments; pricing and the price walk, which are
floating-point streams; password hashes and key files; the start-up wiring of
`main`; serialisation attributes. These are data or I/O without control of their
own.

What a later change of the code should be held against: a new command needs an action
in `UnderlyingActor`'s executor parameter, in `MatchingExecutor` and, when it carries a
client order id, in `OrderFlow`; a new journal record needs a case in the recovery walk;
a new channel or table with a capacity needs its bound and what is dropped there.
