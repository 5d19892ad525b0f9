------------------------------ MODULE AsyncBus ------------------------------
(***************************************************************************)
(* The response channels of the asynchronous message bus                   *)
(* (src/src/transport/async.rs): how a request or an order registers a     *)
(* broadcast channel before it is written, how the channel leaves the      *)
(* tables again, and what a reconnect and a shutdown do to all of them     *)
(* while calls, subscriptions and the cleanup task keep running.           *)
(*                                                                         *)
(* Every step below is one region between two awaits (or one region under  *)
(* one table lock), so steps of different tasks interleave exactly where   *)
(* the runtime may interleave them.  A channel is named by the call that   *)
(* created it; a WeakSender (`ChannelIdentity`) is that name.  The items   *)
(* inside a channel are left out: AsyncSubscription, Routing and Session   *)
(* have them.                                                              *)
(***************************************************************************)
EXTENDS Naturals, Sequences, FiniteSets

CONSTANTS
  Handle,         \* calls of send_request / send_order_request, and clones
  Id,             \* request and order ids
  ExecutionId,    \* execution ids TWS reports
  Caller,         \* tasks that may call Client::disconnect
  AutoReconnect,  \* ClientBuilder::auto_reconnect
  None            \* "no channel": an absent key of a HashMap, Option::None

ASSUME HandleAssumption == None \notin Handle
ASSUME CallerAssumption == "dispatcher" \notin Caller
ASSUME AutoReconnectAssumption == AutoReconnect \in BOOLEAN

VARIABLES
  channels,           \* request_channels and order_channels, by <<table, id>>
  executionChannels,  \* execution_channels
  stage,              \* where each handle is in its life, see Stage
  place,              \* the table and id a handle registered under
  chan,               \* the channel its receiver is on
  previous,           \* Withdrawal::previous: the channel it replaced
  cleanup,            \* the unbounded queue of CleanupSignals
  dispatcher,         \* program counter of the process_messages task
  closing,            \* program counter of each request_shutdown in progress
  processTask,        \* process_task: the dispatcher's JoinHandle
  client,             \* whether the user still holds the Client
  connected, shutdownRequested, socketClosed

tables    == <<channels, executionChannels>>
handles   == <<stage, place, chan, previous>>
shutdowns == <<closing, processTask, client>>
flags     == <<connected, shutdownRequested, socketClosed>>
vars == <<tables, handles, cleanup, dispatcher, shutdowns, flags>>

Table == {"Request", "Order"}
Key   == Table \X Id

\* "registered": the receiver is held, the request not yet handed to the
\* socket; "writing": it passed the closed check and its bytes are going out;
\* "withdrawing": the write failed, the receiver is gone, the table's lock is
\* awaited; "abandoning": the future was dropped, its signal not yet sent;
\* "subscribed": handed back as a subscription; "releasing": that was dropped,
\* its receivers gone, its signal not yet sent; "signalled": the signal is in
\* the cleanup queue.
InFlight  == {"registered", "writing", "withdrawing", "abandoning"}
Listening == {"registered", "writing", "subscribed"}
Stage == InFlight \cup {"idle", "subscribed", "releasing", "signalled", "ended"}

Signal == [type : {"Release", "Withdraw"}, of : Handle]

\* Program counter of request_shutdown, once the socket is closed: the tables
\* it has still to clear; then ensure_shutdown's wait for the dispatcher.
ClosingStep == {"idle", "requests", "orders", "take", "joining", "finished"}
Closer == Caller \cup {"dispatcher"}

DispatcherStep ==
  {"reading", "reconnecting", "reconnected", "tellRequests", "tellOrders",
   "dropRequests", "dropOrders", "dropExecutions", "routing", "closing", "stopped"}

TypeOK ==
  /\ channels \in [Key -> Handle \cup {None}]
  /\ executionChannels \in [ExecutionId -> Handle \cup {None}]
  /\ stage \in [Handle -> Stage]
  /\ place \in [Handle -> Key \cup {None}]
  /\ chan \in [Handle -> Handle \cup {None}]
  /\ previous \in [Handle -> Handle \cup {None}]
  /\ cleanup \in Seq(Signal)
  /\ dispatcher \in DispatcherStep
  /\ closing \in [Closer -> ClosingStep]
  /\ closing["dispatcher"] \notin {"take", "joining"}  \* it never awaits itself
  /\ processTask \in {"unset", "set", "taken", "aborted"}
  /\ client \in {"held", "dropped"}
  /\ connected \in BOOLEAN
  /\ shutdownRequested \in BOOLEAN
  /\ socketClosed \in BOOLEAN

Init ==
  /\ channels = [k \in Key |-> None]
  /\ executionChannels = [e \in ExecutionId |-> None]
  /\ stage = [h \in Handle |-> "idle"]
  /\ place = [h \in Handle |-> None]
  /\ chan = [h \in Handle |-> None]
  /\ previous = [h \in Handle |-> None]
  /\ cleanup = <<>>
  /\ dispatcher = "reading"
  /\ closing = [p \in Closer |-> "idle"]
  /\ processTask = "unset"
  /\ client = "held"
  /\ connected = TRUE
  /\ shutdownRequested = FALSE
  /\ socketClosed = FALSE

-----------------------------------------------------------------------------
(* What the tables' helpers compute.                                       *)

\* receiver_count() > 0
ListensOn(c) == \E h \in Handle : stage[h] \in Listening /\ chan[h] = c

\* is_entry: the entry under h's id is still h's channel.
IsEntry(h) == channels[place[h]] = chan[h]

\* Mutant of MayRemove: other listeners are not asked for.
MayRemoveAny(h) == IsEntry(h)

\* release: remove h's entry if it is still h's channel and nothing listens.
MayRemove(h) == IsEntry(h) /\ ~ListensOn(chan[h])

Released(h) ==
  IF MayRemove(h) THEN [channels EXCEPT ![place[h]] = None] ELSE channels

\* Withdrawal::apply: the same, but what h replaced comes back if anything
\* still listens on it.
Withdrawn(h) ==
  IF MayRemove(h)
  THEN [channels EXCEPT ![place[h]] =
          IF previous[h] # None /\ ListensOn(previous[h]) THEN previous[h] ELSE None]
  ELSE channels

\* A table with every entry of one kind gone: HashMap::clear.
Cleared(t) == [k \in Key |-> IF k[1] = t THEN None ELSE channels[k]]

\* Some request_shutdown has already cleared table t.
ClearedByShutdown(t) ==
  \E p \in Closer : closing[p] \in
    IF t = "Request" THEN ClosingStep \ {"idle", "requests"}
                     ELSE ClosingStep \ {"idle", "requests", "orders"}

-----------------------------------------------------------------------------
(* A call: send_request and send_order_request.                            *)

\* Registration::replace: a new channel under a request id, replacing
\* whatever was there.
Replace(h, i) ==
  LET k == <<"Request", i>> IN
  /\ client = "held"
  /\ stage[h] = "idle"
  /\ stage' = [stage EXCEPT ![h] = "registered"]
  /\ place' = [place EXCEPT ![h] = k]
  /\ chan' = [chan EXCEPT ![h] = h]
  /\ previous' = [previous EXCEPT ![h] = channels[k]]
  /\ channels' = [channels EXCEPT ![k] = h]
  /\ UNCHANGED <<executionChannels, cleanup, dispatcher, shutdowns, flags>>

\* Registration::join when something still listens on the order's channel:
\* a receiver of one's own on that channel.
JoinExisting(h, i) ==
  LET k == <<"Order", i>> IN
  /\ client = "held"
  /\ stage[h] = "idle"
  /\ channels[k] # None
  /\ ListensOn(channels[k])
  /\ stage' = [stage EXCEPT ![h] = "registered"]
  /\ place' = [place EXCEPT ![h] = k]
  /\ chan' = [chan EXCEPT ![h] = channels[k]]
  /\ UNCHANGED <<tables, previous, cleanup, dispatcher, shutdowns, flags>>

\* Registration::join otherwise: a new channel over an absent or dead entry.
JoinNew(h, i) ==
  LET k == <<"Order", i>> IN
  /\ client = "held"
  /\ stage[h] = "idle"
  /\ ~(channels[k] # None /\ ListensOn(channels[k]))
  /\ stage' = [stage EXCEPT ![h] = "registered"]
  /\ place' = [place EXCEPT ![h] = k]
  /\ chan' = [chan EXCEPT ![h] = h]
  /\ channels' = [channels EXCEPT ![k] = h]
  /\ UNCHANGED <<executionChannels, previous, cleanup, dispatcher, shutdowns, flags>>

\* The write takes the writer's lock and finds the socket open: from here on
\* its bytes may reach TWS.
StartWrite(h) ==
  /\ stage[h] = "registered"
  /\ ~socketClosed
  /\ stage' = [stage EXCEPT ![h] = "writing"]
  /\ UNCHANGED <<tables, place, chan, previous, cleanup, dispatcher, shutdowns, flags>>

\* Mutant of WriteSucceeds: the replaced sender is kept with the subscription.
WriteKeepsPrevious(h) ==
  /\ stage[h] = "writing"
  /\ stage' = [stage EXCEPT ![h] = "subscribed"]
  /\ UNCHANGED <<tables, place, chan, previous, cleanup, dispatcher, shutdowns, flags>>

\* Written: Registration::keep hands the receiver on and drops what the call
\* replaced.
WriteSucceeds(h) ==
  /\ stage[h] = "writing"
  /\ stage' = [stage EXCEPT ![h] = "subscribed"]
  /\ previous' = [previous EXCEPT ![h] = None]
  /\ UNCHANGED <<tables, place, chan, cleanup, dispatcher, shutdowns, flags>>

\* Refused by the gate, closed, or an I/O error: Registration::withdraw drops
\* the receiver, then waits for the table's lock.
WriteFails(h) ==
  /\ stage[h] \in {"registered", "writing"}
  /\ stage' = [stage EXCEPT ![h] = "withdrawing"]
  /\ UNCHANGED <<tables, place, chan, previous, cleanup, dispatcher, shutdowns, flags>>

\* The last trace of h is gone: its identity and what it replaced are dropped.
Forget(h) ==
  /\ stage' = [stage EXCEPT ![h] = "ended"]
  /\ place' = [place EXCEPT ![h] = None]
  /\ chan' = [chan EXCEPT ![h] = None]
  /\ previous' = [previous EXCEPT ![h] = None]

\* Mutant of Withdraw: a failed write only drops its receiver.
WithdrawNothing(h) ==
  /\ stage[h] = "withdrawing"
  /\ Forget(h)
  /\ UNCHANGED <<tables, cleanup, dispatcher, shutdowns, flags>>

\* The lock is granted: the registration is undone.
Withdraw(h) ==
  /\ stage[h] = "withdrawing"
  /\ channels' = Withdrawn(h)
  /\ Forget(h)
  /\ UNCHANGED <<executionChannels, cleanup, dispatcher, shutdowns, flags>>

\* The future is dropped while it waits: Registration::drop, receiver first.
AbandonCall(h) ==
  /\ stage[h] \in {"registered", "writing", "withdrawing"}
  /\ stage' = [stage EXCEPT ![h] = "abandoning"]
  /\ UNCHANGED <<tables, place, chan, previous, cleanup, dispatcher, shutdowns, flags>>

SignalWithdraw(h) ==
  /\ stage[h] = "abandoning"
  /\ cleanup' = Append(cleanup, [type |-> "Withdraw", of |-> h])
  /\ stage' = [stage EXCEPT ![h] = "signalled"]
  /\ UNCHANGED <<tables, place, chan, previous, dispatcher, shutdowns, flags>>

-----------------------------------------------------------------------------
(* A subscription: AsyncInternalSubscription.                              *)

\* Clone: a receiver on the same channel, and the same cleanup signal.
CloneSubscription(h, g) ==
  /\ stage[h] = "subscribed"
  /\ stage[g] = "idle"
  /\ stage' = [stage EXCEPT ![g] = "subscribed"]
  /\ place' = [place EXCEPT ![g] = place[h]]
  /\ chan' = [chan EXCEPT ![g] = chan[h]]
  /\ UNCHANGED <<tables, previous, cleanup, dispatcher, shutdowns, flags>>

\* Drop: the receivers go first, the signal after them.
DropSubscription(h) ==
  /\ stage[h] = "subscribed"
  /\ stage' = [stage EXCEPT ![h] = "releasing"]
  /\ UNCHANGED <<tables, place, chan, previous, cleanup, dispatcher, shutdowns, flags>>

SignalRelease(h) ==
  /\ stage[h] = "releasing"
  /\ cleanup' = Append(cleanup, [type |-> "Release", of |-> h])
  /\ stage' = [stage EXCEPT ![h] = "signalled"]
  /\ UNCHANGED <<tables, place, chan, previous, dispatcher, shutdowns, flags>>

\* cancel_subscription and cancel_order_subscription, once the cancel is
\* written: the entry under the id goes, whoever registered it.
CancelEntry(k) ==
  /\ client = "held"
  /\ channels[k] # None
  /\ channels' = [channels EXCEPT ![k] = None]
  /\ UNCHANGED <<executionChannels, handles, cleanup, dispatcher, shutdowns, flags>>

-----------------------------------------------------------------------------
(* The cleanup task.                                                       *)

CleanupTask ==
  /\ cleanup # <<>>
  /\ LET signal == Head(cleanup) IN
     /\ channels' = IF signal.type = "Release" THEN Released(signal.of) ELSE Withdrawn(signal.of)
     /\ Forget(signal.of)
  /\ cleanup' = Tail(cleanup)
  /\ UNCHANGED <<executionChannels, dispatcher, shutdowns, flags>>

-----------------------------------------------------------------------------
(* The dispatcher task: process_messages.                                  *)

\* ExecutionData: the order's channel first, the request's otherwise; the
\* execution id is mapped to whichever took it, for the commission report.
RouteExecutionData(o, r, e) ==
  LET c == IF channels[<<"Order", o>>] # None
           THEN channels[<<"Order", o>>] ELSE channels[<<"Request", r>>] IN
  /\ dispatcher = "reading"
  /\ c # None
  /\ executionChannels' = [executionChannels EXCEPT ![e] = c]
  /\ UNCHANGED <<channels, handles, cleanup, dispatcher, shutdowns, flags>>

\* Mutant of MarkShutdown: the flags alone, the socket left open.
MarkWithoutClose ==
  /\ connected' = FALSE
  /\ shutdownRequested' = TRUE
  /\ UNCHANGED socketClosed

\* What request_shutdown does first, whoever calls it.
MarkShutdown ==
  /\ connected' = FALSE
  /\ shutdownRequested' = TRUE
  /\ socketClosed' = TRUE

\* The dispatcher itself shuts the bus down.
DispatcherCloses(from) ==
  /\ MarkShutdown
  /\ dispatcher' = from
  /\ closing' = [closing EXCEPT !["dispatcher"] = "requests"]
  /\ UNCHANGED <<tables, handles, cleanup, processTask, client>>

\* The socket failed: reconnect, or end if the caller supervises it.
ConnectionLost ==
  /\ dispatcher = "reading"
  /\ ~shutdownRequested
  /\ AutoReconnect
  /\ connected' = FALSE
  /\ dispatcher' = "reconnecting"
  /\ UNCHANGED <<tables, handles, cleanup, shutdowns, shutdownRequested, socketClosed>>

\* An undecodable message, or a socket error with auto-reconnect off.
ReadEndsBus == dispatcher = "reading" /\ DispatcherCloses("closing")

ReconnectFails == dispatcher = "reconnecting" /\ DispatcherCloses("closing")

\* The -2 shutdown message: read_and_route_message itself shuts the bus down,
\* inside the select! that also waits for the shutdown notification ...
ShutdownMessage == dispatcher = "reading" /\ DispatcherCloses("routing")

\* ... and that notification has just been sent: at the first lock somebody
\* else holds (a call registering, the cleanup task), select! takes the other
\* branch and drops the routing future, whatever it had still to clear.
ShutdownCutShort ==
  /\ dispatcher = "routing"
  /\ dispatcher' = "stopped"
  /\ UNCHANGED <<tables, handles, cleanup, shutdowns, flags>>

\* AsyncConnection::reconnect returns Ok: the new socket was not closed when
\* it was taken into use.
ReconnectSucceeds ==
  /\ dispatcher = "reconnecting"
  /\ ~socketClosed
  /\ dispatcher' = "reconnected"
  /\ UNCHANGED <<tables, handles, cleanup, shutdowns, flags>>

MarkConnected ==
  /\ dispatcher = "reconnected"
  /\ connected' = TRUE
  /\ dispatcher' = "tellRequests"
  /\ UNCHANGED <<tables, handles, cleanup, shutdowns, shutdownRequested, socketClosed>>

\* reset_channels: send ConnectionReset to every entry of a table ...
Tell(here, next) ==
  /\ dispatcher = here
  /\ dispatcher' = next
  /\ UNCHANGED <<tables, handles, cleanup, shutdowns, flags>>

\* ... and, under another lock acquisition, clear the table.
DropTable(t, here, next) ==
  /\ dispatcher = here
  /\ dispatcher' = next
  /\ channels' = Cleared(t)
  /\ UNCHANGED <<executionChannels, handles, cleanup, shutdowns, flags>>

DropExecutions ==
  /\ dispatcher = "dropExecutions"
  /\ dispatcher' = "reading"
  /\ executionChannels' = [e \in ExecutionId |-> None]
  /\ UNCHANGED <<channels, handles, cleanup, shutdowns, flags>>

ResetChannels ==
  \/ Tell("tellRequests", "tellOrders")
  \/ Tell("tellOrders", "dropRequests")
  \/ DropTable("Request", "dropRequests", "dropOrders")
  \/ DropTable("Order", "dropOrders", "dropExecutions")
  \/ DropExecutions

\* Mutant of DispatcherStops: a read of the closed socket goes on waiting.
DispatcherMissesClose ==
  /\ dispatcher = "reading"
  /\ shutdownRequested
  /\ ~socketClosed
  /\ dispatcher' = "stopped"
  /\ UNCHANGED <<tables, handles, cleanup, shutdowns, flags>>

\* Woken by the notification, or its read failed: the flag ends the loop.
DispatcherStops ==
  /\ dispatcher = "reading"
  /\ shutdownRequested
  /\ dispatcher' = "stopped"
  /\ UNCHANGED <<tables, handles, cleanup, shutdowns, flags>>

-----------------------------------------------------------------------------
(* Shutdown: request_shutdown, ensure_shutdown, request_shutdown_sync.     *)

\* process_messages stores the dispatcher's handle from a task of its own.
InstallHandle ==
  /\ processTask = "unset"
  /\ processTask' = "set"
  /\ UNCHANGED <<tables, handles, cleanup, dispatcher, closing, client, flags>>

\* Client::disconnect -> ensure_shutdown -> request_shutdown.
BeginDisconnect(p) ==
  /\ client = "held"
  /\ closing[p] = "idle"
  /\ MarkShutdown
  /\ closing' = [closing EXCEPT ![p] = "requests"]
  /\ UNCHANGED <<tables, handles, cleanup, dispatcher, processTask, client>>

ClearRequests(p) ==
  /\ closing[p] = "requests"
  /\ p = "dispatcher" => dispatcher \in {"routing", "closing"}
  /\ channels' = Cleared("Request")
  /\ closing' = [closing EXCEPT ![p] = "orders"]
  /\ UNCHANGED <<executionChannels, handles, cleanup, dispatcher, processTask, client, flags>>

\* Mutant of ClearOrders: the dispatcher, too, goes on to await itself.
ClearOrdersThenJoin(p) ==
  /\ closing[p] = "orders"
  /\ p = "dispatcher" => dispatcher \in {"routing", "closing"}
  /\ channels' = Cleared("Order")
  /\ closing' = [closing EXCEPT ![p] = "take"]
  /\ UNCHANGED <<executionChannels, handles, cleanup, dispatcher, processTask, client, flags>>

\* The last of the clears; the dispatcher's loop then breaks, a caller goes
\* on to wait for it.
ClearOrders(p) ==
  /\ closing[p] = "orders"
  /\ p = "dispatcher" => dispatcher \in {"routing", "closing"}
  /\ channels' = Cleared("Order")
  /\ closing' = [closing EXCEPT ![p] = IF p = "dispatcher" THEN "finished" ELSE "take"]
  /\ dispatcher' = IF p = "dispatcher" THEN "stopped" ELSE dispatcher
  /\ UNCHANGED <<executionChannels, handles, cleanup, processTask, client, flags>>

\* ensure_shutdown: take the handle, if it is there to take.
TakeHandle(p) ==
  /\ closing[p] = "take"
  /\ closing' = [closing EXCEPT ![p] = IF processTask = "set" THEN "joining" ELSE "finished"]
  /\ processTask' = IF processTask = "set" THEN "taken" ELSE processTask
  /\ UNCHANGED <<tables, handles, cleanup, dispatcher, client, flags>>

Joined(p) ==
  /\ closing[p] = "joining"
  /\ dispatcher = "stopped"
  /\ closing' = [closing EXCEPT ![p] = "finished"]
  /\ UNCHANGED <<tables, handles, cleanup, dispatcher, processTask, client, flags>>

\* DISPATCHER_JOIN_TIMEOUT passes: the dispatcher is aborted, not awaited.
JoinTimesOut(p) ==
  /\ closing[p] = "joining"
  /\ dispatcher # "stopped"
  /\ closing' = [closing EXCEPT ![p] = "finished"]
  /\ processTask' = "aborted"
  /\ UNCHANGED <<tables, handles, cleanup, dispatcher, client, flags>>

\* The abort takes effect at the dispatcher's next await.
AbortLands ==
  /\ processTask = "aborted"
  /\ dispatcher # "stopped"
  /\ dispatcher' = "stopped"
  /\ UNCHANGED <<tables, handles, cleanup, shutdowns, flags>>

\* Dropping the Client: request_shutdown_sync, which clears no table.  Calls
\* and disconnects in progress borrow the client, so there are none.
DropClient ==
  /\ client = "held"
  /\ \A h \in Handle : stage[h] \notin InFlight
  /\ \A p \in Caller : closing[p] \in {"idle", "finished"}
  /\ client' = "dropped"
  /\ MarkShutdown
  /\ UNCHANGED <<tables, handles, cleanup, dispatcher, closing, processTask>>

-----------------------------------------------------------------------------
CallStep(h) ==
  \/ \E i \in Id : Replace(h, i) \/ JoinExisting(h, i) \/ JoinNew(h, i)
  \/ StartWrite(h)
  \/ WriteSucceeds(h)
  \/ WriteFails(h)
  \/ Withdraw(h)
  \/ AbandonCall(h)
  \/ SignalWithdraw(h)

SubscriptionStep(h) ==
  \/ \E g \in Handle : CloneSubscription(h, g)
  \/ DropSubscription(h)
  \/ SignalRelease(h)

DispatcherStepTaken ==
  \/ \E o, r \in Id, e \in ExecutionId : RouteExecutionData(o, r, e)
  \/ ConnectionLost
  \/ ReadEndsBus
  \/ ReconnectFails
  \/ ShutdownMessage
  \/ ShutdownCutShort
  \/ ReconnectSucceeds
  \/ MarkConnected
  \/ ResetChannels
  \/ DispatcherStops
  \/ AbortLands

ShutdownStep ==
  \/ InstallHandle
  \/ DropClient
  \/ \E p \in Caller :
       \/ BeginDisconnect(p)
       \/ TakeHandle(p)
       \/ Joined(p)
       \/ JoinTimesOut(p)
  \/ \E p \in Closer : ClearRequests(p) \/ ClearOrders(p)

Next ==
  \/ \E h \in Handle : CallStep(h) \/ SubscriptionStep(h)
  \/ \E k \in Key : CancelEntry(k)
  \/ CleanupTask
  \/ DispatcherStepTaken
  \/ ShutdownStep

Spec == Init /\ [][Next]_vars

\* What the runtime guarantees: a spawned task that can go on does, a call or
\* a drop that has begun is carried through (a write ends one way or another:
\* the close fails a blocked one), and twenty reconnection attempts end.
\* Nothing makes a user start a call, drop a subscription or disconnect.
Fairness ==
  /\ \A h \in Handle : WF_vars(\/ StartWrite(h) \/ WriteSucceeds(h) \/ WriteFails(h)
                              \/ Withdraw(h) \/ SignalWithdraw(h) \/ SignalRelease(h))
  /\ WF_vars(CleanupTask)
  /\ WF_vars(ReconnectSucceeds \/ ReconnectFails \/ MarkConnected \/ ResetChannels \/ DispatcherStops)
  /\ \A p \in Closer : WF_vars(ClearRequests(p) \/ ClearOrders(p))
  /\ \A p \in Caller : WF_vars(TakeHandle(p) \/ Joined(p) \/ JoinTimesOut(p))

FairSpec == Spec /\ Fairness

-----------------------------------------------------------------------------
(* Properties.                                                             *)

\* h will still release what it holds: a call or a subscription has it in
\* hand, or its signal waits in the cleanup queue.
WillRelease(h) ==
  \/ stage[h] \in InFlight \cup {"subscribed", "releasing"}
  \/ stage[h] = "signalled" /\ \E i \in 1..Len(cleanup) : cleanup[i].of = h

\* No entry of a table outlives everyone who would remove it: whatever is
\* written, refused, dropped, cloned, joined or replaced, some handle on the
\* entry's channel and id has yet to release it.
NoLeakedEntry ==
  \A k \in Key : channels[k] # None =>
    \E h \in Handle : chan[h] = channels[k] /\ place[h] = k /\ WillRelease(h)

\* A cleanup or a withdrawal never takes the entry away from somebody who
\* still listens on it: a clone, a modify that joined an order's channel, or a
\* successor under the same id.
ListenersKeepTheirEntry ==
  [][CleanupTask \/ (\E g \in Handle : Withdraw(g)) =>
       \A h \in Handle : stage[h] \in Listening /\ IsEntry(h)
                         => channels'[place[h]] = chan[h]]_vars

\* Once a shutdown has cleared a table, no subscription is reachable through
\* it again: a call that registers late is refused before it is written, and
\* a withdrawal brings no written channel back.
ShutdownQuiesces ==
  \A h \in Handle :
    stage[h] = "subscribed" /\ ClearedByShutdown(place[h][1])
      => channels[place[h]] # chan[h]

\* The channels something still holds a sender of: a table's entry, an
\* execution's mapping, or what a call in flight has replaced.
HasSender(c) ==
  \/ \E k \in Key : channels[k] = c
  \/ \E e \in ExecutionId : executionChannels[e] = c
  \/ \E h \in Handle : stage[h] # "idle" /\ previous[h] = c

Disconnected == \E p \in Caller : closing[p] = "finished"

\* client/async.rs, disconnect: "All outstanding Subscriptions see their
\* channels close".  Stated once no call is in flight or being cleaned up.
DisconnectEndsStreams ==
  Disconnected /\ (\A h \in Handle : stage[h] \in {"idle", "subscribed", "ended"})
    => \A h \in Handle : stage[h] = "subscribed" => ~HasSender(chan[h])

\* The same for every subscription no execution was mapped to, and as a
\* promise rather than under a condition: its channel does close.
DisconnectEndsUnmappedStreams ==
  Disconnected ~>
    [](\A h \in Handle :
         stage[h] = "subscribed" /\ (\A e \in ExecutionId : executionChannels[e] # chan[h])
           => ~HasSender(chan[h]))

\* A shutdown, however begun and whatever the dispatcher was doing, ends it.
ShutdownStopsDispatcher == shutdownRequested ~> dispatcher = "stopped"
=============================================================================
