-------------------------- MODULE AsyncSubscription --------------------------
(***************************************************************************)
(* One channel of the asynchronous client and the subscriptions that read  *)
(* it (src/subscriptions/async.rs, and AsyncInternalSubscription in        *)
(* src/transport/async.rs): a bounded broadcast channel whose slow readers *)
(* lose messages, clones that join at its tail, the two ways of reading    *)
(* (the typed poll_next, and the raw next_item that the one-shot requests  *)
(* use), and the cancellation that all clones of one subscription share.   *)
(*                                                                         *)
(* That the channel is closed, and by whom, is the bus's matter (AsyncBus):*)
(* here it happens at any time.                                            *)
(* The state predicates carry the name Subscription, for Routing, which    *)
(* DeliveryProofs extends beside this module, has the plain names.         *)
(***************************************************************************)
EXTENDS Naturals, Sequences

CONSTANTS
    Reader,    \* the subscription and its clones
    Capacity,  \* messages the channel keeps for its readers
    MaxSent,   \* bound: messages sent on the channel
    MaxCalls   \* bound: calls of cancel and try_cancel on each reader

ASSUME CapacityAssumption == Capacity \in Nat \ {0}
ASSUME BoundAssumption == MaxSent \in Nat /\ MaxCalls \in Nat

\* What the decoder of a typed subscription makes of an item.  "data" is a
\* value, a notice, or the answer to another request on a shared channel, which
\* is skipped; "end" the broker's end marker; "error" a routed error or one in
\* decoding.
Item == {"data", "end", "error"}

Style == {"typed", "raw"}

VARIABLES
    sent,        \* everything the dispatcher sent on the channel
    open,        \* whether the channel has a sender
    handle,      \* "absent", "live" or "dropped", for each reader
    style,       \* how this subscription is read
    pos,         \* messages of the channel each reader is past
    lagged,      \* AsyncInternalSubscription.lagged (raw)
    streamEnded, \* Subscription.stream_ended (typed)
    completed,   \* Subscription.completed (typed)
    cancelFn,    \* whether the subscription has a cancel request to send
    cancelled,   \* shared by the clones
    cancelSent,  \* shared by the clones
    task,        \* where the call in progress on each reader stands
    calls,       \* calls of cancel and try_cancel made on each reader
    spawned,     \* cancel sends a drop has spawned, not yet written
    written,     \* whether a cancel request was written to the session
    attempted,   \* history: a write of a cancel request was tried
    start,       \* history: messages sent before each reader joined
    got,         \* history: what each reader was given
    gave         \* history: "nothing", or the end each reader was told of

channel == <<sent, open>>
reading == <<pos, lagged, streamEnded, completed, start, got, gave>>
flags   == <<cancelled, cancelSent>>
session == <<spawned, written, attempted>>
subscriptionVars == <<channel, handle, style, reading, cancelFn, flags, task, calls, session>>

\* "cancel" and "try" await the write, "wroteCancel" and "wroteTry" are past
\* it, "marked" has stored cancel_sent, "dropping" has read cancelled.
Task == {"idle", "cancel", "try", "wroteCancel", "wroteTry", "marked", "dropping"}

SubscriptionTypeOK ==
    /\ sent \in Seq(Item) /\ Len(sent) <= MaxSent
    /\ open \in BOOLEAN
    /\ handle \in [Reader -> {"absent", "live", "dropped"}]
    /\ style \in Style
    /\ pos \in [Reader -> Nat]
    /\ lagged \in [Reader -> BOOLEAN]
    /\ streamEnded \in [Reader -> BOOLEAN]
    /\ completed \in [Reader -> BOOLEAN]
    /\ cancelFn \in BOOLEAN
    /\ cancelled \in BOOLEAN
    /\ cancelSent \in BOOLEAN
    /\ task \in [Reader -> Task]
    /\ calls \in [Reader -> 0..MaxCalls]
    /\ spawned \in Nat
    /\ written \in BOOLEAN
    /\ attempted \in BOOLEAN
    /\ start \in [Reader -> Nat]
    /\ got \in [Reader -> Seq(Item)]
    /\ gave \in [Reader -> {"nothing", "end", "error", "none"}]

SubscriptionInit ==
    /\ sent = <<>>
    /\ open = TRUE
    /\ \E r \in Reader : handle = [s \in Reader |-> IF s = r THEN "live" ELSE "absent"]
    /\ style \in Style
    /\ pos = [r \in Reader |-> 0]
    /\ lagged = [r \in Reader |-> FALSE]
    /\ streamEnded = [r \in Reader |-> FALSE]
    /\ completed = [r \in Reader |-> FALSE]
    /\ cancelFn \in BOOLEAN
    /\ style = "raw" => cancelFn = FALSE
    /\ cancelled = FALSE
    /\ cancelSent = FALSE
    /\ task = [r \in Reader |-> "idle"]
    /\ calls = [r \in Reader |-> 0]
    /\ spawned = 0
    /\ written = FALSE
    /\ attempted = FALSE
    /\ start = [r \in Reader |-> 0]
    /\ got = [r \in Reader |-> <<>>]
    /\ gave = [r \in Reader |-> "nothing"]
-----------------------------------------------------------------------------
(* The channel: tokio's broadcast, as the bus uses it.                     *)

\* The dispatcher sends an answer, notice or error.
Send(i) ==
    /\ open
    /\ Len(sent) < MaxSent
    /\ sent' = Append(sent, i)
    /\ UNCHANGED <<open, handle, style, reading, cancelFn, flags, task, calls, session>>

\* The bus drops its last sender: a cancel, a cleanup, a reset or a shutdown.
Close ==
    /\ open
    /\ open' = FALSE
    /\ UNCHANGED <<sent, handle, style, reading, cancelFn, flags, task, calls, session>>

\* How many messages the channel has already overwritten.
Overwritten == IF Len(sent) > Capacity THEN Len(sent) - Capacity ELSE 0

\* A poll takes &mut self and a cancel borrows the handle: not both at once.
CanPoll(r) == handle[r] = "live" /\ task[r] = "idle"

HasNext(r) == pos[r] >= Overwritten /\ pos[r] < Len(sent)
-----------------------------------------------------------------------------
(* Reading.                                                                *)

\* Clone::clone resubscribes: the clone joins at the tail, with its own flags.
CloneReader(r, c) ==
    /\ handle[r] = "live" /\ handle[c] = "absent"
    /\ task[r] # "dropping"
    /\ handle' = [handle EXCEPT ![c] = "live"]
    /\ pos' = [pos EXCEPT ![c] = Len(sent)]
    /\ start' = [start EXCEPT ![c] = Len(sent)]
    /\ UNCHANGED <<channel, style, lagged, streamEnded, completed, got, gave, cancelFn, flags, task, calls, session>>

\* A typed reader is given a value or a notice, or skips what is not its own.
PollItem(r) ==
    /\ style = "typed" /\ CanPoll(r) /\ ~streamEnded[r]
    /\ HasNext(r)
    /\ sent[pos[r] + 1] = "data"
    /\ pos' = [pos EXCEPT ![r] = @ + 1]
    /\ got' = [got EXCEPT ![r] = Append(@, sent[pos[r] + 1])]
    /\ UNCHANGED <<channel, handle, style, lagged, streamEnded, completed, start, gave, cancelFn, flags, task, calls, session>>

\* The end marker: the reader is told None, and completed() says why.
PollEnd(r) ==
    /\ style = "typed" /\ CanPoll(r) /\ ~streamEnded[r]
    /\ HasNext(r)
    /\ sent[pos[r] + 1] = "end"
    /\ pos' = [pos EXCEPT ![r] = @ + 1]
    /\ completed' = [completed EXCEPT ![r] = TRUE]
    /\ streamEnded' = [streamEnded EXCEPT ![r] = TRUE]
    /\ gave' = [gave EXCEPT ![r] = "end"]
    /\ UNCHANGED <<channel, handle, style, lagged, start, got, cancelFn, flags, task, calls, session>>

PollError(r) ==
    /\ style = "typed" /\ CanPoll(r) /\ ~streamEnded[r]
    /\ HasNext(r)
    /\ sent[pos[r] + 1] = "error"
    /\ pos' = [pos EXCEPT ![r] = @ + 1]
    /\ streamEnded' = [streamEnded EXCEPT ![r] = TRUE]
    /\ gave' = [gave EXCEPT ![r] = "error"]
    /\ UNCHANGED <<channel, handle, style, lagged, completed, start, got, cancelFn, flags, task, calls, session>>

\* Mutant: the typed reader reads on after a loss.
PollLaggedOn(r) ==
    /\ style = "typed" /\ CanPoll(r) /\ ~streamEnded[r]
    /\ pos[r] < Overwritten
    /\ pos' = [pos EXCEPT ![r] = Overwritten]
    /\ UNCHANGED <<channel, handle, style, lagged, streamEnded, completed, start, got, gave, cancelFn, flags, task, calls, session>>

\* The channel overwrote messages this reader had not seen: it is moved to the
\* oldest that is left, told Error::Lagged, and ended.
PollLagged(r) ==
    /\ style = "typed" /\ CanPoll(r) /\ ~streamEnded[r]
    /\ pos[r] < Overwritten
    /\ pos' = [pos EXCEPT ![r] = Overwritten]
    /\ streamEnded' = [streamEnded EXCEPT ![r] = TRUE]
    /\ gave' = [gave EXCEPT ![r] = "error"]
    /\ UNCHANGED <<channel, handle, style, lagged, completed, start, got, cancelFn, flags, task, calls, session>>

\* A closed channel with nothing left: None, and nothing is stored.
PollClosed(r) ==
    /\ style = "typed" /\ CanPoll(r) /\ ~streamEnded[r]
    /\ ~open /\ pos[r] = Len(sent)
    /\ gave[r] = "nothing"
    /\ gave' = [gave EXCEPT ![r] = "none"]
    /\ UNCHANGED <<channel, handle, style, pos, lagged, streamEnded, completed, start, got, cancelFn, flags, task, calls, session>>

\* next_item hands over whatever comes: its caller tells the end from the rest.
RawItem(r) ==
    /\ style = "raw" /\ CanPoll(r) /\ ~lagged[r]
    /\ HasNext(r)
    /\ pos' = [pos EXCEPT ![r] = @ + 1]
    /\ got' = [got EXCEPT ![r] = Append(@, sent[pos[r] + 1])]
    /\ UNCHANGED <<channel, handle, style, lagged, streamEnded, completed, start, gave, cancelFn, flags, task, calls, session>>

\* Mutant: the loss is noted, and nobody told of it.
RawLaggedSilent(r) ==
    /\ style = "raw" /\ CanPoll(r) /\ ~lagged[r]
    /\ pos[r] < Overwritten
    /\ pos' = [pos EXCEPT ![r] = Overwritten]
    /\ lagged' = [lagged EXCEPT ![r] = TRUE]
    /\ UNCHANGED <<channel, handle, style, streamEnded, completed, start, got, gave, cancelFn, flags, task, calls, session>>

RawLagged(r) ==
    /\ style = "raw" /\ CanPoll(r) /\ ~lagged[r]
    /\ pos[r] < Overwritten
    /\ pos' = [pos EXCEPT ![r] = Overwritten]
    /\ lagged' = [lagged EXCEPT ![r] = TRUE]
    /\ gave' = [gave EXCEPT ![r] = "error"]
    /\ UNCHANGED <<channel, handle, style, streamEnded, completed, start, got, cancelFn, flags, task, calls, session>>

RawClosed(r) ==
    /\ style = "raw" /\ CanPoll(r) /\ ~lagged[r]
    /\ ~open /\ pos[r] = Len(sent)
    /\ gave[r] = "nothing"
    /\ gave' = [gave EXCEPT ![r] = "none"]
    /\ UNCHANGED <<channel, handle, style, pos, lagged, streamEnded, completed, start, got, cancelFn, flags, task, calls, session>>

Poll(r) ==
    \/ PollItem(r) \/ PollEnd(r) \/ PollError(r) \/ PollLagged(r) \/ PollClosed(r)
    \/ RawItem(r) \/ RawLagged(r) \/ RawClosed(r)
-----------------------------------------------------------------------------
(* Cancelling.  A raw subscription has no cancel request: only its drop.   *)

CanCall(r) ==
    /\ style = "typed" /\ handle[r] = "live" /\ task[r] = "idle"
    /\ calls[r] < MaxCalls

\* Mutant: the subscription is marked cancelled before the write is awaited.
CallCancelEager(r) ==
    /\ CanCall(r) /\ ~cancelled
    /\ calls' = [calls EXCEPT ![r] = @ + 1]
    /\ cancelled' = TRUE
    /\ task' = [task EXCEPT ![r] = IF cancelFn /\ ~cancelSent THEN "cancel" ELSE @]
    /\ UNCHANGED <<channel, handle, style, reading, cancelFn, cancelSent, session>>

\* cancel: nothing to do once cancelled; without a cancel request, or when one
\* was sent, it returns at once.
CallCancel(r) ==
    /\ CanCall(r) /\ ~cancelled
    /\ calls' = [calls EXCEPT ![r] = @ + 1]
    /\ IF cancelFn /\ ~cancelSent
       THEN task' = [task EXCEPT ![r] = "cancel"] /\ UNCHANGED cancelled
       ELSE cancelled' = ~cancelFn /\ UNCHANGED task
    /\ UNCHANGED <<channel, handle, style, reading, cancelFn, cancelSent, session>>

\* try_cancel looks at what was sent, not at what was cancelled locally.
CallTryCancel(r) ==
    /\ CanCall(r) /\ ~cancelSent /\ cancelFn
    /\ calls' = [calls EXCEPT ![r] = @ + 1]
    /\ task' = [task EXCEPT ![r] = "try"]
    /\ UNCHANGED <<channel, handle, style, reading, cancelFn, flags, session>>

\* The awaited write went out.
WriteCancel(r) ==
    /\ task[r] \in {"cancel", "try"}
    /\ task' = [task EXCEPT ![r] = IF @ = "cancel" THEN "wroteCancel" ELSE "wroteTry"]
    /\ written' = TRUE
    /\ attempted' = TRUE
    /\ UNCHANGED <<channel, handle, style, reading, cancelFn, flags, calls, spawned>>

\* The write failed: cancel closes the subscription locally all the same,
\* try_cancel records nothing.
WriteFails(r) ==
    /\ task[r] \in {"cancel", "try"}
    /\ task' = [task EXCEPT ![r] = "idle"]
    /\ cancelled' = (cancelled \/ task[r] = "cancel")
    /\ attempted' = TRUE
    /\ UNCHANGED <<channel, handle, style, reading, cancelFn, cancelSent, calls, spawned, written>>

\* Mutant: cancel_sent is stored before the write.
StoreSentEarly(r) ==
    /\ task[r] \in {"cancel", "try"}
    /\ task' = [task EXCEPT ![r] = "marked"]
    /\ cancelSent' = TRUE
    /\ UNCHANGED <<channel, handle, style, reading, cancelFn, cancelled, calls, session>>

\* The two stores after the write are two steps: other clones see between.
StoreSent(r) ==
    /\ task[r] \in {"wroteCancel", "wroteTry"}
    /\ task' = [task EXCEPT ![r] = "marked"]
    /\ cancelSent' = TRUE
    /\ UNCHANGED <<channel, handle, style, reading, cancelFn, cancelled, calls, session>>

StoreCancelled(r) ==
    /\ task[r] = "marked"
    /\ task' = [task EXCEPT ![r] = "idle"]
    /\ cancelled' = TRUE
    /\ UNCHANGED <<channel, handle, style, reading, cancelFn, cancelSent, calls, session>>

\* The future of the call is dropped at its await, before or after the bytes
\* went out: nothing is recorded.
AbandonCancel(r) ==
    /\ task[r] \in {"cancel", "try", "wroteCancel", "wroteTry"}
    /\ task' = [task EXCEPT ![r] = "idle"]
    /\ UNCHANGED <<channel, handle, style, reading, cancelFn, flags, calls, session>>

CancelStep(r) == WriteCancel(r) \/ WriteFails(r) \/ StoreSent(r) \/ StoreCancelled(r)
-----------------------------------------------------------------------------
(* Dropping: Subscription::drop reads cancelled, and if it was not set sets *)
(* it and spawns the cancel request.                                       *)

DropBegin(r) ==
    /\ handle[r] = "live" /\ task[r] = "idle"
    /\ IF style = "typed" /\ ~cancelled
       THEN task' = [task EXCEPT ![r] = "dropping"] /\ UNCHANGED handle
       ELSE handle' = [handle EXCEPT ![r] = "dropped"] /\ UNCHANGED task
    /\ UNCHANGED <<channel, style, reading, cancelFn, flags, calls, session>>

DropFinish(r) ==
    /\ task[r] = "dropping"
    /\ task' = [task EXCEPT ![r] = "idle"]
    /\ handle' = [handle EXCEPT ![r] = "dropped"]
    /\ cancelled' = TRUE
    /\ spawned' = IF cancelFn THEN spawned + 1 ELSE spawned
    /\ UNCHANGED <<channel, style, reading, cancelFn, cancelSent, calls, written, attempted>>

\* The spawned task writes, or its write fails and is logged.
SpawnedSend ==
    /\ spawned > 0
    /\ spawned' = spawned - 1
    /\ attempted' = TRUE
    /\ written' \in {written, TRUE}
    /\ UNCHANGED <<channel, handle, style, reading, cancelFn, flags, task, calls>>
-----------------------------------------------------------------------------
SubscriptionNext ==
    \/ \E i \in Item : Send(i)
    \/ Close
    \/ \E r, c \in Reader : CloneReader(r, c)
    \/ \E r \in Reader :
        \/ Poll(r)
        \/ CallCancel(r) \/ CallTryCancel(r) \/ CancelStep(r) \/ AbandonCancel(r)
        \/ DropBegin(r) \/ DropFinish(r)
    \/ SpawnedSend

SubscriptionSpec == SubscriptionInit /\ [][SubscriptionNext]_subscriptionVars

\* A task that awaits the next item is woken when there is one, or when the
\* channel closes; an await on a write is resumed; a spawned task runs.
Fairness ==
    /\ \A r \in Reader : /\ WF_subscriptionVars(Poll(r))
                          /\ WF_subscriptionVars(CancelStep(r)) /\ WF_subscriptionVars(DropFinish(r))
    /\ WF_subscriptionVars(SpawnedSend)

FairSpec == SubscriptionSpec /\ Fairness
-----------------------------------------------------------------------------
(* Properties.                                                             *)

\* The verdict of each reader, as AnswerStream has it: what completed() says,
\* and whether the reader was told of an end.
Verdict ==
    [r \in Reader |->
        IF handle[r] = "absent" THEN "absent"
        ELSE IF completed[r] THEN "complete"
        ELSE IF gave[r] = "nothing" THEN "reading" ELSE "over"]

Answer == INSTANCE AnswerStream WITH EndMarker <- "end", verdict <- Verdict

\* Whatever is lost on the way, each subscription and each clone is given a
\* stretch without a hole and then one end, and completed() is true only of
\* one that saw all up to the end marker (poll_next, next_item, Clone).
KeepsThePromise == Answer!Spec

\* "Returns Ok(()) only when a cancel request was written": cancel_sent, which
\* try_cancel answers from, is set by no clone before a write went out.
SentMeansWritten == cancelSent => written

\* When every clone is gone, the broker was asked to stop, or a write of that
\* request was at least tried, whatever calls were abandoned half-way: no drop
\* relies on a cancel that never reached its write (cancel, Drop).
NoRequestForgotten ==
    (cancelFn /\ spawned = 0 /\ \A r \in Reader : handle[r] # "live") => attempted

\* A reader that keeps polling a channel that closed is told of an end, be it
\* slow, a clone, or between two cancels (poll_next, next_item).
ReadersReachTheEnd ==
    \A r \in Reader : ~open ~> (handle[r] # "live" \/ gave[r] # "nothing")
=============================================================================
