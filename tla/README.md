# A verification of rust-ibapi

rust-ibapi is a client library for the Interactive Brokers TWS and Gateway API.
It has an asynchronous (tokio) and a synchronous (threads) implementation of the
same design: a connection with one socket, a message bus that multiplexes
requests over it, and subscriptions that receive what the bus routes to them.
This directory holds TLA+ models of the parts where order, failure and
concurrency matter, the TLC configurations that check them, and proofs that
TLAPS checks. Paths below are relative to the package, `src/` (its code is in
`src/src/`). `PROJECT.json` is the index: components, runs, the lines each
definition models, findings, hazards and theorems.

## Inventory

| Component | State | Operations | Talks to |
|---|---|---|---|
| Asynchronous bus (`transport/async.rs`) | channels by request id, by order id, by execution id; shared channels by message kind; the order-update stream; cleanup queue; dispatcher task and its handle; `connected`, `shutdown_requested` | `send_request`, `send_order_request`, `send_shared_request`, cancels, `create_order_update_subscription`, route, reset, shutdown, cleanup | connection (write, read, reconnect, shutdown), subscriptions (broadcast channels), client |
| Asynchronous socket (`transport/async_io.rs`, `write_gate.rs`) | reader, writer and closer halves, each behind its lock; `closed`; the `closing` notification; an optional gate | write, gated write, read, reconnect, shutdown | the network, a user's gate |
| Asynchronous connection (`connection/async.rs`) | socket, metadata, server version, `handshaking` | reconnect with backoff, handshake, account info, write, read | socket, bus, start-up callbacks |
| Synchronous bus (`transport/sync/mod.rs`) | crossbeam channels by request, order and execution id; shared channels; order-update stream; notice broadcaster; two threads | as above, over threads | synchronous connection |
| Synchronous connection (`connection/sync.rs`) | socket with reader and writer locks, metadata | as above | |
| Subscriptions (`subscriptions/`) | cancelled, ended, snapshot and error flags, shared by clones | next, try_next, next_timeout, cancel, drop | bus (cancel message, cleanup signal) |
| One-shot requests (`common/request_helpers.rs`, `common/retry.rs`) | none | send, take the answer, retry on `ConnectionReset` | bus |
| Routing (`transport/routing.rs`, `messages/shared_channel_configuration.rs`) | none | which channel a message belongs to | bus |
| Handshake (`connection/common.rs`) | account info so far | collect, dispatch unsolicited messages, refuse a client id | connection |
| Id generators (`client/id_generator.rs`) | two atomic counters | next, set | clients, domain modules |
| Clients, builders (`client/`) | bus, ids, handshake results | connect, disconnect, drop | everything |
| Orders (`orders/`) | the builder's fields; ids taken | build, validate, bracket and group, submit one after another | ids, bus, broker |
| Historical data (`market_data/historical/`) | a handle's state and result; a tick buffer, its `done` and `cancelled` | answer, notices, cancel, drop; next, try_next, next_timeout | bus, subscriptions |
| Accounts, contracts, live market data, news, scanner, wsh, display groups | none of their own | build requests, decode answers | bus, subscriptions |
| Wire protocol, messages, protobuf, errors, time zones, trace, recorder, stubs | none that control depends on | | |

What is hard here: a call registers its channel before it writes, and may fail,
be refused, be cancelled at any await, or find its id registered again by the
time it gets to undo that; subscriptions are cleaned up later, by another task,
by id; a reconnect replaces socket and tables while calls go on; a close must
reach everybody, whatever lock they wait for; the dispatcher may be told to
end while it reads, routes, reconnects or resets; a slow reader loses messages,
and must not take what is left for the whole; a message carries a number from one
of two counters, and goes to whoever is filed under it; and several orders are
written one by one, any of which may fail. `hazards` in `PROJECT.json`
lists these at their lines, with the property that covers each or the reason why
none does.

## Modules

| Module | What it is | Instance | Theorems |
|---|---|---|---|
| `AsyncBus` | the asynchronous bus: tables, dispatcher, shutdown | `MCAsyncBus` | `AsyncBusProofs` |
| `AsyncSocket` | the asynchronous socket: gated writes, close, reconnect | `MCAsyncSocket` | `AsyncSocketProofs` |
| `SyncBus` | the synchronous bus: tables, its two threads, shutdown and join | `MCSyncBus` | `SyncBusProofs` |
| `AnswerStream` | abstract: what a channel of answers promises its readers | | |
| `AsyncSubscription` | a broadcast channel and the subscriptions on it; implements `AnswerStream` | `MCAsyncSubscription` | `DeliveryProofs` |
| `Messages` | tables of message kinds: ids, orders, shared channels | | |
| `Requests` | the calls of the API: how each is addressed, what it takes and what ends it | | |
| `Routing` | which message goes to which call, in both clients | `MCRouting` | `DeliveryProofs` |
| `Connection` | connect, handshake, loss and reconnect, and the broker at the other end | | |
| `Session` | one-shot calls and their retries over `Connection` | `MCSession` | `SessionProofs` |
| `OrderBuilder` | the fluent order builder and its validation, as operators | | |
| `Orders` | ids, submission of orders, brackets and groups, and the broker's books | `MCOrders` | `OrdersProofs` |
| `HistoricalRequest` | the historical request handle of the asynchronous client | `MCHistoricalRequest` | `HistoricalRequestProofs` |
| `SharedTicks` | one synchronous tick subscription used by several threads | `MCSharedTicks` | `SharedTicksProofs` |

`Routing` extends `Requests`, which extends `Messages`; `Session` extends
`Connection`; `Orders` extends `OrderBuilder`; `AsyncSubscription` instantiates
`AnswerStream`. `DeliveryProofs` extends both `Routing` and `AsyncSubscription`, the two
halves of the way of an answer, which is why the latter's specification is named
`SubscriptionSpec`. Buses and socket stay separate: AsyncBus's `StartWrite` needs the
socket open (`QueuedWritesAreRefused` is what makes that right) and its
`ReconnectSucceeds` needs it not closed (`ClosedForGood`'s second look);
`AsyncSubscription`'s `Close` is any removal of a channel's last sender by AsyncBus.
What interleaves within a registration or a cleanup is the buses' matter, and is
one step in `Routing`.

### AsyncBus

A *handle* is one call of `send_request` or `send_order_request` and the
subscription it returns, or a clone of one. `stage` is where it is: registered,
writing, withdrawing (the write failed), abandoning (its future was dropped),
subscribed, releasing, signalled (its message is in the cleanup queue), ended.
`channels[<<table, id>>]` is the entry of a table, named by the handle that
created the channel; `place[h]` is the entry a handle registered or joined,
`chan[h]` its channel, `previous[h]` the sender its registration replaced and
would restore. `receiver_count() > 0` is `ListensOn`: some handle on that
channel holds a receiver. The weak sender that a cleanup compares is `IsEntry`.

A step is one hold of a lock. `Replace`, `JoinExisting` and `JoinNew` are the two
registrations; `StartWrite`, `WriteSucceeds` and `WriteFails` the write, whose
own steps are the module AsyncSocket; `Withdraw` the undoing under the table's
lock; `AbandonCall` and `SignalWithdraw` the `Drop` of a cancelled call's guard,
receiver first and signal second; `DropSubscription` and `SignalRelease` the same
of a subscription. `CleanupTask` handles one signal. The dispatcher reads,
reconnects, resets (five separate lock acquisitions) and shuts the bus down,
from its own loop (`ReadEndsBus`, `ReconnectFails`) or from inside the message
it is routing (`ShutdownMessage`), where `select!` may cut it short
(`ShutdownCutShort`). A caller's disconnect marks, clears table by table, takes
the dispatcher's handle and waits for it, with the five-second timeout and the
abort after it. Dropping the client only marks.

Delivery is left to `Routing`: what is sent on a channel, to whom and in which
order does not change which entries exist. So are the shared channels and the
order-update stream, which are never registered per call.

### AsyncSocket

`pc[w]` is where a write is in `write_frame`'s loop; the handshake's write is
one of them. `lock` is the writer's lock, `writerOf` and `closerOf` the sockets
behind the two halves a reconnect installs one after the other. `shutdown()` is
three steps: the flag, the socket behind `closer`, the notification. `woken` are
the writes whose armed `Notified` it has reached. `write_all`, the path without
a gate, is the same loop with a gate that always admits and a deadline that
never passes. `connection` is the dispatcher: up, or at a step of
`AsyncConnection::reconnect` and `establish_connection`.

`sentLate` and `opened` are history variables for one property; no guard reads
them.

### SyncBus

A *handle* is one call and its subscription, `stage[h]` where it is,
`senders[<<table, id>>]` the entry of a table. Unlike the asynchronous bus's,
entries have no identity, a failed write leaves its entry behind, and a
subscription keeps a sender of its own channel: clearing a table does not end
it, so what matters is `told`, the channels an error was put in. Cancelling is
two steps after its message is written (`TellCancelled`, `RemoveCancelled`), or
local when it cannot be written (`CancelFails`; `try_cancel` may send it later).
Dropping queues an id, which `CleanEntry`, the cleanup thread, removes.

The dispatcher thread reads, reconnects (its twenty attempts are one step),
resets table by table and may shut down itself; `RequestShutdown(p)` is
`request_shutdown` step by step, by it or by a caller, who then joins: `joiner`
holds the lock on `handles` until both threads are joined. Registration needs no
permission of the bus: only the closed socket refuses a call, at its write.

Left to `Routing` and `Session`: answers and who takes them, the shared channels,
the executions table and the order-update stream, which neither end a call's
subscription nor keep a thread. `connected` and `shutdownRequested` are the two flags; a blocked read
ends with the socket or within a second, so `DispatcherStops` needs only the flag.

### AnswerStream and AsyncSubscription

`sent` is all that was put on one tokio broadcast channel, `pos[r]` how far a
subscription or clone has come. `HasNext` is that the next message is still among
the last `Capacity`; else the read is a lag (`PollLagged`, `RawLagged`), which
ends the stream by a flag of its own. `Poll` is `poll_next` of a typed subscription
(a value, the end marker, an error, a lag, a closed channel), `Raw...` is
`next_item`. `cancel` and `try_cancel` set their shared flags before, between and
after their awaits: `task[r]` is where, `AbandonCancel` the drop of the future
there. `DropBegin` and `DropFinish` are the `Drop`, whose cancel is spawned
(`SpawnedSend`). `start`, `got` and `gave` record what each reader was given: the
refinement mapping makes AnswerStream's `verdict` of them.

### Messages, Requests and Routing

Kinds of message are strings, a variant of `IncomingMessages` each. `Messages`
holds the tables that classify them (`Destination` tries them in the order of
`determine_routing`), `Requests` one row for each call of the API, and `Kinds`, every
kind that the client and its broker exchange.
In `Routing` each caller makes one call (`Request`, `OrderRequest`, `Submit`,
`SharedRequest` or `Updates`), the broker then sends what may answer it or what
concerns an order, and `Dispatch` routes each message in one step: through an error's two tables, the order, request and
execution maps, the shared channels, the update stream. `last` is the message just
routed and who took it: the properties are about it. `transport` says which client
this is: the asynchronous one joins a live order's channel, the synchronous one
replaces it, and keeps shared answers in a queue (`shelf`).

### Connection and Session

`phase` is where the dispatcher stands: in the handshake (version, acknowledgment,
start api, account info), reading, retrying, in one of three steps of the reset,
or stopped. `wire` is what the broker has sent and nobody read, `served` what it
has been sent, `greeting` what it has still to say. `metadata` and `orderIds` are
what this end keeps of the connection. `Session` adds calls: `own` ones have a
request id and a channel, `shared` ones read the channel of their kind. `Call`
registers and `Write` sends, two steps since a loss may come between; `Receive...`
take what the bus put in the call's queue, and `Retries` is
`retry_on_connection_reset`.

### OrderBuilder and Orders

A builder is a record, each fluent call an operator on it (`SideCalls`,
`TypeCalls`, `TimeCalls`, `FlagCalls`), `Build` the
set of what comes of it: one order, or nothing when `Accepts` refuses.
`BuildBracket` makes the three of a bracket. Numbers are integers, or `NaN` for
what is no number. `Orders` runs one chain of calls and then lets callers submit
its result: alone, as bracket or as a group. `TakeId` is the
counter, `AskNextId`, `BrokerAnswers` and `SetNextId` are `next_valid_order_id`, and
`NextOrder` is the next write of a job, which may fail (`WriteFails`: the job stops) or be
lost (`WriteIsLost`). The broker works an order once it, or one it belongs with, was
transmitted. `sent` and `overtaken` are history.

### HistoricalRequest

`state` is `RequestState`, `ended` the result that `answer()` repeats, `log` what
was sent on the request's channel, `said` how much the broker said of it. `Reads...`
are the items `HistoricalAnswer::accept` tells apart; `ProvesOver` those after
which the broker is known to serve the request no more. After a loss the dispatcher
reconnects, tells each entry and clears the table (`Reconnect`, `ResetTells`,
`ResetClears`);
`overtaken` are the requests written between, which are told of a reset that was
not theirs. `CallCancel`, its write and its bookkeeping are three steps, between
which the caller may abandon it; a drop spawns one more cancel.

### SharedTicks

Several threads on one handle. `at[t]` is where a thread is: before its pop, before
its look at `done`, before its receive, or with a message in hand that it has not
appended (`held`). `overlapped`, `raced` and `crowded` record that two threads held
batches at once, that one thread's pop and look had another's append between, and
that two were inside `next` at once: the three uses in which the code promises
less, and the properties say what.

## Runs

| Run | Bounds | Shows |
|---|---|---|
| `AsyncBus` | 2 handles, 1 id in both tables, 1 execution, 1 disconnecting task | types; no entry leaks; no listener loses its entry to a cleanup; after a shutdown nothing becomes reachable again; a disconnect ends every stream no execution was mapped to; a shutdown ends the dispatcher |
| `AsyncSocket` | 2 writes and the handshake's, 2 sockets, 1 close, 2 attempts | types; a close is for good; only a reconnect lets a write out late; queued writes are refused; a close ends every write by itself |
| `SyncBus` | 1 handle, 1 id in both tables, 2 disconnecting threads | types, with one wakeup at most; a disconnect returns, and with the threads gone; only a failed write leaks its entry |
| `AsyncSubscription` | a reader and its clone, capacity 1, 2 messages, 1 cancel each | it implements `AnswerStream`; a cancel is reported sent only when written; no drop forgets it; a reader of a closed channel is told of an end |
| `Routing` | 2 callers, each any call of the API, request ids 1 and 2, order ids 1 and 3, shared queues of 1 | types; answers arrive; nothing strays, but a fault between a request and an order of one number; commissions follow executions; followers of an order are told |
| `Session` | 2 calls of either kind, 1 retry, 2 attempts, 1 message of account info, 1 loss | connected means served; a reset is counted once; order ids are the broker's; calls end |
| `Orders` | 3 callers (interchangeable), chains of 3 calls, ids to 7, 1 lost order | types; built orders and brackets are sound; ids are fresh; an entry is protected by its stop loss |
| `HistoricalRequest` | 1 request, capacity 2, 2 notices, 2 losses, 2 cancels | complete means all; open while served; dropped is cancelled; answers end |
| `SharedTicks` | 2 threads, 2 ticks in batches of up to 2, 2 calls each | ticks are kept; the end means all; a lone reader returns |
| `AsyncBusExecution` | as `AsyncBus` | **violated**: a stream an execution was mapped to never ends |
| `SessionReset` | as `Session`, 1 call | **violated**: a shared call outstanding over a reset never ends |
| `HistoricalOpen` | as `HistoricalRequest` | **violated**: a request the broker serves is not open |

*Why the bounds are enough to be interesting.* Two handles on one id are a call and
its successor, clone or joiner, which is what a cleanup can confuse; entries under
different ids do not meet. One id in both tables lets an ExecutionData find either.
Two writes and the handshake's are the least for one to hold the lock while one
waits and one is asked to; the second socket is the one a close can meet half
installed. Two disconnecting threads and the dispatcher's own shutdown are three
users of one wakeup and one lock. With capacity one, the second message makes a
reader lag. Two calls suffice to be confused, for a message finds a call by one number:
with request ids 1 and 2 and order ids 1 and 3, a request and an order have the same
or not.
One loss lets a call meet the reconnect at each of its steps, with one retry left; the
second loss of `HistoricalRequest` is one that finds a request the first one's reset
overtook. Seven order ids are two brackets and an order; a chain of three calls
reaches each order type with a price left behind by another, which the run gives by
a number, by zero or by none. Two batches in two threads are the least that can be
appended out of order.

Most of these instances are small because a theorem holds for every value of the
constants: of the 40 properties of the passing runs 31 are also proved. `MaxAttempts` is
2 in place of 20, and a parameter. The queues are bounded by what is sent on them.

*Deadlock.* All configurations say `CHECK_DEADLOCK FALSE`: the system may stop, when
every call has ended, or its bounds are used up.

*Symmetry* is used in `Orders` and `Routing`, which check no liveness and whose
properties name no particular caller.

*Every property has a mutant* (`mutants`): the definition of the model it guards,
changed the way a bug in the code would change it, under which TLC finds it
violated. The mutated forms stand just before what they mutate.

## Fairness

`AsyncBus!Fairness`: tokio runs tasks that can go on, so a call that has begun
is carried through, the cleanup task handles its queue, the dispatcher goes on
and a disconnect proceeds. A write ends because the close shuts the socket under
it (`CloseEndsWrites` in AsyncSocket). Nothing obliges a user to start a call, drop a
subscription or disconnect, a peer to send anything, or a connection to fail.

`AsyncSocket!Fairness`: the same for writes, closes and the reconnect. The
writer's lock is `tokio::sync::Mutex`, which is fair to its waiters: hence strong
fairness of `TakeLock`. No deadline is assumed to pass, no gate to grant its slot
(it answers at once, as `write_gate.rs` demands), no blocked write to get
through: a close must do without all of them.

`SyncBus!Fairness`: threads that can run do; a read ends once the socket is
closed, a reconnect succeeds or gives up. A lock on `handles` is taken once by
each caller, so weak fairness serves. A disconnect during the backoff waits for
it: `DisconnectReturns` says that it returns, not how soon.

`AsyncSubscription!Fairness`: a reader keeps polling, and a poll is woken when
there is something for it. `Session!Fairness`: the dispatcher and the calls go on, and the
broker answers what it was asked on a connection that stays up; it does not oblige
the connection to be lost or to stay.
`HistoricalRequest!Fairness`: the dispatcher goes on, a caller in `answer()`
reads, a spawned cancel is run. `SharedTicks!Fairness`: a thread inside `next` goes on; the broker
need not send anything. Nothing makes a call, a loss or a cancel happen.

## Findings

Three runs end in a counterexample, each of a promise the repository makes in
words (`findings` quotes it):

1. *Disconnect and executions*: `request_shutdown` does not clear
   `execution_channels`, which hold clones of subscriptions' senders.
2. *Reset and shared calls*: the asynchronous `reset_channels` does not tell the
   shared channels, so `managed_accounts`, `server_time` and the like, the very
   calls `retry.rs` is for, wait for an answer the new session does not owe.
3. *Reset and the next session*: a historical request written between a reconnect
   and the end of its reset is told that its session is gone. It is not open, and
   is never cancelled, while the broker serves it.

Further places where code and words disagree, seen while modelling. The models show
them, but no run is kept for them:

* *Reset and registration* (async.rs:632-663): a request registered between the tell
  and the clear of `reset_channels` loses its entry untold, though async_tests.rs:749-751
  says that every one in flight is told. Finding 3 is what another half of that race does.
* *The shutdown message* (async.rs:625): `request_shutdown` is awaited in a `select!`
  that its own notification completes, and may be dropped before it clears the tables.
* *A late write* (async_io.rs:231): a close between the installs of the new writer and
  of the new closer returns while a write can still go out, against async.rs:667-668.
  `LateSendsNeedReconnect` says that nothing else lets one out.
* *The gate's description* (connection/async.rs:221): a session write during a
  reconnect is described as the handshake's, against write_gate.rs:54-56.
* *The synchronous disconnect* (sync/mod.rs:188): the tables are told and cleared
  before the socket is closed. A call in between is written, and its subscription's
  `next()` blocks for ever, against client/sync.rs:238-239.
* *Attempts*: README.md:776 says 30, docs/architecture.md:193 and the code 20; a
  handshake that fails inside a reconnect gives up at once.
* *Orders*: a good-till-crossing order goes out as DAY; `.stop(90).relative(0.1)` sends 90 as
  its offset; the children of a what-if bracket
  are real, those of a good-till-date one lack the date ("full validation",
  order_builder.rs:1058); a market bracket keeps an earlier limit price. A refused
  order's id is used up; a group that fails half-way returns no id of those already
  live. `next_valid_order_id` sets the counter back over ids handed out meanwhile
  (id_generator.rs:48), against "Reserve all order IDs upfront to prevent collisions"
  (async_impl.rs:63): `IdsAreFresh` and `EntryIsProtected` except exactly these ids.
* *Faults by number* (async.rs:728, sync/mod.rs:373): `deliver_to_request_id` is to
  deliver a fault "to its owning subscription", and looks for it by one number among
  the requests, then the orders. Request ids count from 9000 (id_generator.rs:9), order
  ids from the broker's next valid id or wherever the caller likes, and nothing keeps
  them apart: once they meet, the error of an order ends the request of its number, and
  whoever placed the order is not told. `NothingStrays` excepts exactly this
  (`Mistaken`), and says that nothing else strays, whatever the ids. For the same reason
  `executions()` never ends while an order has its number: an ExecutionDataEnd is looked
  up in the order table under its request id. `AnswersArrive` names that case.
* *The auxiliary price*: `build` validates "fully" (order_builder.rs:738), but never asks
  `requires_aux_price` (types.rs:368-384), which only a test uses:
  `.buy(1).order_type(MarketIfTouched)` is built without a trigger, and so are LIT,
  STP PRT, REL, PASSV REL and the pegged types set that way; nor is one that is NaN
  refused. `BuiltOrdersAreSound` asks for the trigger of stop and stop-limit orders only.
* *Routing*: the rejection of a `submit_order` is sent to the update stream in a form
  its decoder skips, and its log line is suppressed, so nobody hears of it;
  `BondContractData` has no route; `open_orders` misses the orders a live `place_order`
  follows; the synchronous `cancel_order` takes the channel of the `place_order` it
  cancels, and its drop the entry; a synchronous shared queue keeps what an earlier
  call left in it; `one_shot_request` answers with a default on an error or an end
  (request_helpers.rs:58-75).
* *Session*: two synchronous callers of one shared kind share one item of a reset, and
  the second hangs; so does a synchronous own call registered between tell and clear.
  `Sure` in `CallsEnd` names the calls the code does not lose, so neither case is
  checked for. Nor is it in `Routing`, where any caller of a shared kind may take what
  another's request brought, nor that the synchronous cleanup of an id takes a
  successor's entry: the code does both.
* *Historical*: a cancel abandoned after its write leaves the entry, and `answer()`
  then waits until the session ends (`deaf`). The ticks' `cancel()` after completion still
  writes, though it is called a no-op there; the asynchronous one sets `cancelled` before
  its awaited write, so that one abandoned is not tried again; a second thread blocked
  in `next()` waits for ever after the last batch; an undecodable batch panics.

## Proofs

TLAPS checks, for all values of the constants:

* `AsyncBusProofs`: `TypeCorrect`, `EntriesNeverLeak`, `ListenersStay`,
  `ShutdownIsQuiet`.
* `AsyncSocketProofs`: `SocketTypes`, `CloseIsForGood`, `QueuedAreRefused`,
  `LockIsAlwaysUsed`, `OnlyReconnectsSendLate`.
* `SyncBusProofs`: `SyncTypes`, `DisconnectJoins`, `OnlyFailedWritesLeak`.
* `DeliveryProofs`, of routing: `RoutingTypesHold`, `NothingGoesAstray`,
  `NoAnswerIsLost`, `CommissionsGoWithExecutions`, `EventsReachFollowers`; of the
  asynchronous subscription: `SubscriptionTypes`, `SubscriptionKeepsThePromise` (the
  refinement), `NoReaderSeesAHole`, `CancelSentWasWritten`, `DroppedWasAsked`.
* `OrdersProofs`: `OrderTypesHold`, `BuildsSoundly`, `BracketsAreHedged`,
  `IdsStayFresh`, `EntriesAreProtected`.
* `HistoricalRequestProofs`: `RequestTypesHold`, `AnswersAreComplete`, `ServedIsOpen`.
* `SessionProofs`: `SessionTypesHold`, `ConnectedIsServed`, `ResetsAreOfLosses`,
  `OrderIdsAreFromTheBroker`.
* `SharedTicksProofs`: `TickTypesHold`, `EachTickOnce`, `TheEndIsTheEnd`.

They assume only what the modules' `ASSUME`s say: `None` and `Nobody` are no caller
(nor `None` a call of the API),
`NaN` is no number, the dispatcher is not one of the disconnecting tasks, the handshake's write is not
a session's, a channel holds at least one message, at least one attempt is made, and
bounds are natural numbers.

*Entries.* `NoLeakedEntry` is not inductive: it needs that whoever is on a
channel has a place exactly while alive (`HandleShape`), that a call not yet made
owns no channel (`Fresh`), that all who share a channel share its id
(`OnePlace`), and that the queue holds exactly one signal of each handle that
has sent one (`QueueMatches`). Then an entry's channel always has a handle on it
(`Owned`), and if that handle's removal leaves the entry, it does so because
another listens.

*Quiet.* `ShutdownQuiesces` needs to know which channels were registered too
late to be written. That set is not a state function of the model, so the
invariant says one exists (`\E S : TooLate(S)`): every entry of a cleared table
is in it, none of its handles is writing or subscribed, and whatever they
replaced is in it as well, so that no withdrawal brings a written channel back.

*Close.* `ClosedForGood` needs `ShutIsOwed`: an open socket behind a set flag is
still somebody's to shut, a close's between flag and socket or the reconnect's
before its second look.

*Lock.* `LockIsUsed` needs that the handshake's write exists only while
`establish_connection` runs.

*Joining.* `DisconnectJoinsThreads` needs that a handle goes only after its
thread (`HandlesOutliveThreads`), and types that the dispatcher's own shutdown
ends before the join (`DispatcherNeverJoins`).

*Failed writes.* `OnlyFailuresLeak` needs that an entry lies under the id its
handle registered (`EntriesInPlace`): then the signal that a drop queues is the
entry's, and taking another signal off the queue leaves it there.

*Routing.* The tables come first. `Agrees` says what a row of `Requests` must have for
its answers to be found: what a call by request id takes is indexed by request id, what
a shared call takes is in the table of shared channels under its request.
`CallsAgree` proves it of every row, and `AskedKindsRouted`, `SharedKindsRouted`,
`OrderKindsRouted` and `FaultsRouted` say where the dispatcher then looks.
`NothingStrays` is not inductive: it needs `RoutingInv`, which relates calls and tables.
A request id is one call's (`IdInv`), a channel's listeners share its founder's id
(`FounderInv`), each table has whoever is there under its own id and no stranger
(`RequestInv`, `OrderInv`), an execution's channel is its order's or that of a request
which took the report (`ExecutionInv`), and a shared queue holds only what names no
request (`ShelfInv`). Nothing is assumed of what numbers requests and orders have. A
fault sent by number finds the channel of a request or of an order of that number, and
if it is not its own, it is the one case that `Mistaken` names. `OrderInv` says more of
the asynchronous client than of the synchronous one, where calls about one order
displace each other: hence the second
half of `FollowersAreTold`. Each step then routes, reads or is quiet (`Steps`), and the
three delivery theorems are a case for each way a kind can go.

*The promise.* A reader told of no end has been given exactly what lies between its
start and its position (`ReadersInv`); then each way of reading is one step of
AnswerStream, and everything else a stutter. `NoReaderSeesAHole` follows from
AnswerStream's own steps.

*Cancelling.* `CancelInv` says what each flag, and each place in a cancel, proves of
the writes.

*Builders.* `SoundOrder` says what `build` looks after: quantity, limit and trailing
prices, the trigger of stop and stop-limit orders, volatility and date. It follows from
`Accepts` and the types of a builder alone, whatever chain led to it: `OrderTypesHold`
carries the types through each call, and the rest is arithmetic, with a case for what
is no number.

*Orders.* `IdsAreFresh` and `EntryIsProtected` need where each job stands (`Jobs`:
ids and writes agree, each job's orders are its legs), that an id outside `overtaken`
is below the counter or nobody's (`Counted`, `Apart`), that the broker holds only what
was written (`Written`), and what it works (`Protection`).

*Historical.* `CompleteMeansAll` and `OpenWhileServed` need the state of the session
(`LinkInv`), and for each request how the broker's side and the handle's agree
(`ServedInv`, `UnsentInv`), what its channel may hold, and behind what (`LogInv`), and
what was read (`ReadInv`): a code or marker is the last thing the broker says, a reset
comes behind it or in its place, and only a reader that skipped nothing arrives there.

*Session.* `ConnectedMeansServed` needs that the broker's side and the phase agree
(`Handshaken`), and that what it said on this connection was said to a client it
serves (`SaidOnlyAsServed`). `ResetsAreLosses` needs an account of the losses
(`LossInv`): the times a call was sent again, the resets in its queue, and those that
the dispatcher's phase still owes it, are together no more than the losses. Its lemmas
count the resets in a sequence. `OrderIdsAreTheBrokers` needs that the id is read,
on the wire, or still to be said (`IdPending`).

*Ticks.* That one cancel at most is written needs that at most one thread is between
taking the flag and its write (`CancelInv`). `TicksKept` needs that no tick is twice in
one sequence or in two (`AllApart`) and that exactly those sent are somewhere
(`AllKept`); its order, and `EndMeansAll`, need `RowInv`: while no two threads held a
batch, what was handed out, the buffer, the batch in hand and the channel follow each
other without a gap, `last` is on the last of them, and `done` means that nothing is
behind the buffer. A thread about to look at `done` has an empty buffer before it
(`EmptyWhenChecked`).

## Only model-checked

The liveness properties (`DisconnectEndsUnmappedStreams`, `ShutdownStopsDispatcher`,
`CloseEndsWrites`, `DisconnectReturns`, `ReadersReachTheEnd`, `CallsEnd`,
`DroppedIsCancelled`, `AnswersEnd`, `LoneReaderReturns`): they rest on fairness, which
is out of the prover's reach. Every other property of a passing run is proved.
The properties of the three failing runs do not hold.

## Not modelled

See `components`. Most of the package's lines are message structures and protobuf generated from a schema,
encoders and decoders that go field by field, stateless builders (algorithms,
conditions, contracts), stubs and examples in doc comments: nothing in them has
an order, a state or a race to check, and a translation of each field would be
as long as the code. So the map covers a small part of the lines, though nearly all
that keep state. In particular:

* values, formatting, tracing, recording, time zones, test transports and stubs;
* notice streams and the synchronous notice broadcaster, which nothing waits for;
* delays, and the synchronous read timeout that may cut a frame in two (sync/mod.rs:775);
* the one-at-a-time claim of the order-update stream, whose cleanup is one step here;
* wrap-around of the 32-bit ids;
* the writes that neither register nor wait (switch_market_data_type, a display group's
  update, cancel_contract_details);
* an order's algorithm, conditions and the fields that build copies one by one.

## Plan

1. The synchronous subscription over `AnswerStream`, with its iterators.
2. The order-update stream step by step, and notices.
