------------------------------ MODULE SyncBus ------------------------------
(***************************************************************************)
(* The synchronous message bus (src/src/transport/sync/mod.rs): callers'   *)
(* threads register channels by request or order id, a dispatcher thread   *)
(* reads, reconnects and resets, a cleanup thread removes entries, and     *)
(* disconnecting threads shut all of it down and join the two.             *)
(*                                                                         *)
(* Unlike its asynchronous counterpart, a subscription here holds a sender *)
(* of its own channel (sender_copy), so that its receiver never sees the   *)
(* channel close: it ends by an error put in its queue, or not at all.     *)
(* Entries have no identity either: cancel and cleanup go by id.           *)
(*                                                                         *)
(* A step is one hold of a table's lock, one channel operation or one      *)
(* access of the socket.  Answers, shared channels, the order-update       *)
(* stream and the executions table are left out: none of them ends a       *)
(* subscription or keeps a thread.                                         *)
(***************************************************************************)
EXTENDS Naturals, Sequences

CONSTANTS
  Handle,       \* calls, each with the subscription it returns
  Id,           \* request and order ids
  Caller,       \* threads that disconnect, or drop the last client
  None

ASSUME SyncCallerAssumption == "dispatcher" \notin Caller /\ None \notin Caller
ASSUME SyncHandleAssumption == None \notin Handle

VARIABLES
  senders,            \* requests and orders: the channel under each id
  stage,              \* where each call or subscription is, see Stage
  place,              \* its table and id
  told,               \* the channels an error was put in
  signals,            \* signals_send / signals_recv: entries to clean
  cleanupThread,      \* "running" or "stopped"
  dispatcher,         \* program counter of the dispatcher thread
  closing,            \* program counter of each request_shutdown and join
  wakeups,            \* what is in the bounded shutdown channel
  handles,            \* the threads not joined yet
  joiner,             \* who holds the lock on handles
  connected,          \* TcpMessageBus::connected
  shutdownRequested,  \* TcpMessageBus::shutdown_requested
  socketClosed        \* TcpSocket::closed

calls   == <<stage, place>>
threads == <<cleanupThread, dispatcher, handles, joiner>>
flags   == <<connected, shutdownRequested, socketClosed>>
vars == <<senders, calls, told, signals, threads, closing, wakeups, flags>>

Table == {"Request", "Order"}
Key   == Table \X Id

\* "closed": cancelled locally, the cancel not sent; "cancelling": the cancel is
\* written, its notice not yet sent; "removing": sent, the entry still there.
InHand ==
  {"registered", "writing", "subscribed", "closed", "cancelling", "removing", "cancelled"}
Stage  == InHand \cup {"idle", "failed", "ended"}

Thread  == {"dispatcher", "cleanup"}
SyncCloser == Caller \cup {"dispatcher"}

SyncDispatcherStep ==
  {"reading", "reconnecting", "reconnected", "tellRequests", "tellOrders",
   "dropRequests", "dropOrders", "closing", "stopped"}

ShutdownStep ==
  {"idle", "tellRequests", "tellOrders", "dropRequests", "dropOrders", "flag",
   "wake", "close", "join", "joining", "done"}

TypeOK ==
  /\ senders \in [Key -> Handle \cup {None}]
  /\ stage \in [Handle -> Stage]
  /\ place \in [Handle -> Key \cup {None}]
  /\ told \in SUBSET Handle
  /\ signals \in Seq(Key)
  /\ cleanupThread \in {"running", "stopped"}
  /\ dispatcher \in SyncDispatcherStep
  /\ closing \in [SyncCloser -> ShutdownStep]
  /\ wakeups \in 0..1
  /\ handles \in SUBSET Thread
  /\ joiner \in Caller \cup {None}
  /\ connected \in BOOLEAN
  /\ shutdownRequested \in BOOLEAN
  /\ socketClosed \in BOOLEAN

Init ==
  /\ senders = [k \in Key |-> None]
  /\ stage = [h \in Handle |-> "idle"]
  /\ place = [h \in Handle |-> None]
  /\ told = {}
  /\ signals = <<>>
  /\ cleanupThread = "running"
  /\ dispatcher = "reading"
  /\ closing = [p \in SyncCloser |-> "idle"]
  /\ wakeups = 0
  /\ handles = Thread
  /\ joiner = None
  /\ connected = TRUE
  /\ shutdownRequested = FALSE
  /\ socketClosed = FALSE

Goes(h, to) == stage' = [stage EXCEPT ![h] = to]

\* SenderHash::notify_all and clear.
TellAll(t)  == told' = told \cup {h \in Handle : \E i \in Id : senders[<<t, i>>] = h}
ClearAll(t) == senders' = [k \in Key |-> IF k[1] = t THEN None ELSE senders[k]]

\* SenderHash::remove.
Removed(k) == [senders EXCEPT ![k] = None]

-----------------------------------------------------------------------------
(* A call: send_request, send_order_request.                               *)

\* A new channel under the id, in place of whatever was there.
Register(h, k) ==
  /\ stage[h] = "idle"
  /\ senders' = [senders EXCEPT ![k] = h]
  /\ place' = [place EXCEPT ![h] = k]
  /\ Goes(h, "registered")
  /\ UNCHANGED <<told, signals, threads, closing, wakeups, flags>>

\* write_all has the writer's lock and finds the socket open.
StartWrite(h) ==
  /\ stage[h] = "registered"
  /\ ~socketClosed
  /\ Goes(h, "writing")
  /\ UNCHANGED <<senders, place, told, signals, threads, closing, wakeups, flags>>

WriteSucceeds(h) ==
  /\ stage[h] = "writing"
  /\ Goes(h, "subscribed")
  /\ UNCHANGED <<senders, place, told, signals, threads, closing, wakeups, flags>>

\* Refused or failed: the `?` returns, and the entry stays.
WriteFails(h) ==
  /\ stage[h] \in {"registered", "writing"}
  /\ Goes(h, "failed")
  /\ UNCHANGED <<senders, place, told, signals, threads, closing, wakeups, flags>>

-----------------------------------------------------------------------------
(* A subscription: cancel, try_cancel and drop.                            *)

\* cancel_subscription, once its message is written: Cancelled to the entry
\* under the id.  try_cancel may still send what a failed cancel did not ...
CancelWritten(h) ==
  /\ stage[h] \in {"subscribed", "closed"}
  /\ ~socketClosed
  /\ Goes(h, "cancelling")
  /\ UNCHANGED <<senders, place, told, signals, threads, closing, wakeups, flags>>

TellCancelled(h) ==
  /\ stage[h] = "cancelling"
  /\ told' = told \cup {c \in Handle : senders[place[h]] = c}
  /\ Goes(h, "removing")
  /\ UNCHANGED <<senders, place, signals, threads, closing, wakeups, flags>>

\* ... its removal, and Cancelled through the subscription's own sender.
RemoveCancelled(h) ==
  /\ stage[h] = "removing"
  /\ senders' = Removed(place[h])
  /\ told' = told \cup {h}
  /\ Goes(h, "cancelled")
  /\ UNCHANGED <<place, signals, threads, closing, wakeups, flags>>

\* cancel, its message not written: closed locally all the same.
CancelFails(h) ==
  /\ stage[h] = "subscribed"
  /\ told' = told \cup {h}
  /\ Goes(h, "closed")
  /\ UNCHANGED <<senders, place, signals, threads, closing, wakeups, flags>>

\* InternalSubscription::drop, after the cancel, or without one where there is
\* nothing to cancel: the signal carries the id, not the channel.
DropSubscription(h) ==
  /\ stage[h] \in {"subscribed", "closed", "cancelled"}
  /\ signals' = Append(signals, place[h])
  /\ Goes(h, "ended")
  /\ UNCHANGED <<senders, place, told, threads, closing, wakeups, flags>>

-----------------------------------------------------------------------------
(* The cleanup thread.                                                     *)

\* Mutant of CleanEntry: order signals are looked up among the requests.
CleanRequestsOnly ==
  /\ cleanupThread = "running"
  /\ signals # <<>>
  /\ senders' = Removed(<<"Request", Head(signals)[2]>>)
  /\ signals' = Tail(signals)
  /\ UNCHANGED <<calls, told, threads, closing, wakeups, flags>>

\* clean_request, clean_order: by id alone, whoever's the entry is by now.
CleanEntry ==
  /\ cleanupThread = "running"
  /\ signals # <<>>
  /\ senders' = Removed(Head(signals))
  /\ signals' = Tail(signals)
  /\ UNCHANGED <<calls, told, threads, closing, wakeups, flags>>

\* select! may take the shutdown before the signals still queued.
CleanupStops ==
  /\ cleanupThread = "running"
  /\ wakeups = 1
  /\ wakeups' = 0
  /\ cleanupThread' = "stopped"
  /\ UNCHANGED <<senders, calls, told, signals, dispatcher, handles, joiner, closing, flags>>

-----------------------------------------------------------------------------
(* The dispatcher thread: dispatch.                                        *)

LoseConnection ==
  /\ dispatcher = "reading"
  /\ ~shutdownRequested
  /\ dispatcher' = "reconnecting"
  /\ connected' = FALSE
  /\ UNCHANGED <<senders, calls, told, signals, cleanupThread, handles, joiner, closing, wakeups,
                 shutdownRequested, socketClosed>>

\* Connection::reconnect returns Ok: the new socket was not closed when it
\* was taken into use.
ReconnectSucceeds ==
  /\ dispatcher = "reconnecting"
  /\ ~socketClosed
  /\ dispatcher' = "reconnected"
  /\ UNCHANGED <<senders, calls, told, signals, cleanupThread, handles, joiner, closing, wakeups, flags>>

MarkConnected ==
  /\ dispatcher = "reconnected"
  /\ connected' = TRUE
  /\ dispatcher' = "tellRequests"
  /\ UNCHANGED <<senders, calls, told, signals, cleanupThread, handles, joiner, closing, wakeups,
                 shutdownRequested, socketClosed>>

\* reset: ConnectionReset to every entry ...
ResetTells(t, here, next) ==
  /\ dispatcher = here
  /\ TellAll(t)
  /\ dispatcher' = next
  /\ UNCHANGED <<senders, calls, signals, cleanupThread, handles, joiner, closing, wakeups, flags>>

\* ... and, later, every entry gone.
ResetClears(t, here, next) ==
  /\ dispatcher = here
  /\ ClearAll(t)
  /\ dispatcher' = next
  /\ UNCHANGED <<calls, told, signals, cleanupThread, handles, joiner, closing, wakeups, flags>>

ResetBus ==
  \/ ResetTells("Request", "tellRequests", "tellOrders")
  \/ ResetTells("Order", "tellOrders", "dropRequests")
  \/ ResetClears("Request", "dropRequests", "dropOrders")
  \/ ResetClears("Order", "dropOrders", "reading")

\* The shutdown message, an error that is neither a timeout nor a lost
\* connection, or a reconnect that failed: the dispatcher shuts down itself.
DispatcherCloses ==
  /\ dispatcher \in {"reading", "reconnecting"}
  /\ dispatcher' = "closing"
  /\ closing' = [closing EXCEPT !["dispatcher"] = "tellRequests"]
  /\ UNCHANGED <<senders, calls, told, signals, cleanupThread, handles, joiner, wakeups, flags>>

\* A read that fails or times out after the flag is set.
DispatcherStops ==
  /\ dispatcher = "reading"
  /\ shutdownRequested
  /\ dispatcher' = "stopped"
  /\ UNCHANGED <<senders, calls, told, signals, cleanupThread, handles, joiner, closing, wakeups, flags>>

-----------------------------------------------------------------------------
(* Shutdown: request_shutdown, join, ensure_shutdown.                      *)

BeginDisconnect(p) ==
  /\ p \in Caller
  /\ closing[p] = "idle"
  /\ closing' = [closing EXCEPT ![p] = "tellRequests"]
  /\ UNCHANGED <<senders, calls, told, signals, threads, wakeups, flags>>

ShutdownGoes(p, here, next) ==
  /\ closing[p] = here
  /\ closing' = [closing EXCEPT ![p] = next]

\* Error::Shutdown to every entry.
ShutdownTells(p, t, here, next) ==
  /\ ShutdownGoes(p, here, next)
  /\ TellAll(t)
  /\ UNCHANGED <<senders, calls, signals, threads, wakeups, flags>>

ShutdownClears(p, t, here, next) ==
  /\ ShutdownGoes(p, here, next)
  /\ ClearAll(t)
  /\ UNCHANGED <<calls, told, signals, threads, wakeups, flags>>

SetFlags(p) ==
  /\ ShutdownGoes(p, "flag", "wake")
  /\ connected' = FALSE
  /\ shutdownRequested' = TRUE
  /\ UNCHANGED <<senders, calls, told, signals, threads, wakeups, socketClosed>>

\* Mutant of WakeCleanup: the cleanup thread is left to its signals.
WakeNobody(p) ==
  /\ ShutdownGoes(p, "wake", "close")
  /\ UNCHANGED <<senders, calls, told, signals, threads, wakeups, flags>>

\* Mutant of WakeCleanup: send, where the channel may be full.
WakeAgain(p) ==
  /\ ShutdownGoes(p, "wake", "close")
  /\ wakeups' = wakeups + 1
  /\ UNCHANGED <<senders, calls, told, signals, threads, flags>>

\* try_send into a channel of one: full means that one is pending already.
WakeCleanup(p) ==
  /\ ShutdownGoes(p, "wake", "close")
  /\ wakeups' = 1
  /\ UNCHANGED <<senders, calls, told, signals, threads, flags>>

\* Connection::shutdown; the dispatcher's loop then breaks, a caller joins.
CloseSocket(p) ==
  /\ ShutdownGoes(p, "close", IF p = "dispatcher" THEN "done" ELSE "join")
  /\ socketClosed' = TRUE
  /\ dispatcher' = IF p = "dispatcher" THEN "stopped" ELSE dispatcher
  /\ UNCHANGED <<senders, calls, told, signals, cleanupThread, handles, joiner, wakeups, connected,
                 shutdownRequested>>

\* join: handles.lock(), held until the last thread is joined.
LockHandles(p) ==
  /\ ShutdownGoes(p, "join", "joining")
  /\ joiner = None
  /\ joiner' = p
  /\ UNCHANGED <<senders, calls, told, signals, cleanupThread, dispatcher, handles, wakeups, flags>>

\* Mutant of JoinDone: whoever finds no handle left has nothing to wait for.
JoinDoneEarly(p) ==
  /\ ShutdownGoes(p, "joining", "done")
  /\ "dispatcher" \notin handles
  /\ joiner' = None
  /\ UNCHANGED <<senders, calls, told, signals, cleanupThread, dispatcher, handles, wakeups, flags>>

\* The dispatcher first, then the cleanup thread, as they were started.
JoinThread(p, t) ==
  /\ closing[p] = "joining"
  /\ t \in handles
  /\ t = "cleanup" => "dispatcher" \notin handles /\ cleanupThread = "stopped"
  /\ t = "dispatcher" => dispatcher = "stopped"
  /\ handles' = handles \ {t}
  /\ UNCHANGED <<senders, calls, told, signals, cleanupThread, dispatcher, joiner, closing, wakeups, flags>>

JoinDone(p) ==
  /\ ShutdownGoes(p, "joining", "done")
  /\ handles = {}
  /\ joiner' = None
  /\ UNCHANGED <<senders, calls, told, signals, cleanupThread, dispatcher, handles, wakeups, flags>>

-----------------------------------------------------------------------------
CallGoesOn(h) ==
  StartWrite(h) \/ WriteSucceeds(h) \/ WriteFails(h) \/ TellCancelled(h) \/ RemoveCancelled(h)

CallStep(h) ==
  \/ \E k \in Key : Register(h, k)
  \/ CallGoesOn(h)
  \/ CancelWritten(h)
  \/ CancelFails(h)
  \/ DropSubscription(h)

DispatcherGoesOn == ReconnectSucceeds \/ MarkConnected \/ ResetBus \/ DispatcherStops

RequestShutdown(p) ==
  \/ ShutdownTells(p, "Request", "tellRequests", "tellOrders")
  \/ ShutdownTells(p, "Order", "tellOrders", "dropRequests")
  \/ ShutdownClears(p, "Request", "dropRequests", "dropOrders")
  \/ ShutdownClears(p, "Order", "dropOrders", "flag")
  \/ SetFlags(p)
  \/ WakeCleanup(p)
  \/ CloseSocket(p)

Join(p) == LockHandles(p) \/ (\E t \in Thread : JoinThread(p, t)) \/ JoinDone(p)

Next ==
  \/ \E h \in Handle : CallStep(h)
  \/ CleanEntry
  \/ CleanupStops
  \/ LoseConnection
  \/ DispatcherCloses
  \/ DispatcherGoesOn
  \/ \E p \in SyncCloser : BeginDisconnect(p) \/ RequestShutdown(p) \/ Join(p)

Spec == Init /\ [][Next]_vars

\* Threads that can run do; twenty reconnection attempts end, one way or the
\* other.  Nobody has to call, cancel, drop or disconnect.
Fairness ==
  /\ \A h \in Handle : WF_vars(CallGoesOn(h))
  /\ WF_vars(CleanEntry) /\ WF_vars(CleanupStops)
  /\ WF_vars(DispatcherGoesOn \/ (dispatcher = "reconnecting" /\ DispatcherCloses))
  /\ \A p \in SyncCloser : WF_vars(RequestShutdown(p)) /\ WF_vars(Join(p))

FairSpec == Spec /\ Fairness

-----------------------------------------------------------------------------
(* Properties.                                                             *)

\* client/sync.rs, disconnect: "Background worker threads are joined before
\* this returns", for every disconnect, one that finds no handle left too.
DisconnectJoinsThreads ==
  \A p \in Caller : closing[p] = "done" => dispatcher = "stopped" /\ cleanupThread = "stopped"

\* However the disconnects and the dispatcher's own shutdown meet, over one
\* wakeup and one lock: each of them returns.
DisconnectReturns ==
  \A p \in Caller : closing[p] # "idle" ~> closing[p] = "done"

\* While the cleanup thread runs, the only entry nobody will ever remove is a
\* failed write's: each other is of a call or a subscription in hand, or its
\* id waits in the queue, though signals carry ids and ids are used again.
OnlyFailuresLeak ==
  \A k \in Key : senders[k] # None =>
    \/ stage[senders[k]] \in InHand \cup {"failed"}
    \/ \E i \in 1..Len(signals) : signals[i] = k
    \/ cleanupThread = "stopped"
=============================================================================
