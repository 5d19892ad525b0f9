----------------------------- MODULE SharedTicks -----------------------------
(***************************************************************************)
(* The handle of a historical ticks request of the synchronous client      *)
(* (TickSubscription in src/market_data/historical/sync.rs), which is Sync *)
(* and whose methods take &self: several threads may call next, try_next,  *)
(* next_timeout and cancel on one handle.  The buffer is locked for each   *)
(* pop and each append, the channel hands each message to one receiver,    *)
(* and done and cancelled are relaxed atomics beside them.                 *)
(*                                                                         *)
(* The subscription holds a sender of its own channel, so the channel never*)
(* closes.  The error slot is written and cleared but has no reader, and is*)
(* left out; batches decode (a malformed one panics in fill_buffer).       *)
(***************************************************************************)
EXTENDS Naturals, Sequences

CONSTANTS
    Thread,    \* the threads that use the handle
    MaxTicks,  \* bound: ticks the broker sends
    MaxBatch,  \* bound: ticks in one batch
    MaxCalls   \* bound: calls of next, try_next and next_timeout by each thread

ASSUME BoundAssumption == MaxTicks \in Nat /\ MaxBatch \in Nat /\ MaxCalls \in Nat

\* The ticks are numbered in the broker's order.  A batch has its ticks and
\* whether it is the last; "error" is a reset, an error or a cancel, "other" an
\* unexpected message, which is skipped.
Tick == 1..MaxTicks

Item == [kind : {"batch"}, ticks : Seq(Tick), last : BOOLEAN]
        \union [kind : {"error", "other"}, ticks : {<<>>}, last : {FALSE}]

Nothing == [kind |-> "other", ticks |-> <<>>, last |-> FALSE]
Failure == [kind |-> "error", ticks |-> <<>>, last |-> FALSE]

\* Where a thread stands in next_helper ("pop", "check", "receive", "fill"), or
\* in cancel ("write", "tell").
Place == {"idle", "pop", "check", "receive", "fill", "write", "tell"}

VARIABLES
    chan,       \* the channel's messages
    entry,      \* whether the request table has the channel
    sent,       \* ticks the broker sent
    finished,   \* the broker sent its last batch, or an error
    buffer,     \* TickSubscription.buffer
    done,       \* TickSubscription.done
    cancelled,  \* TickSubscription.cancelled
    cancels,    \* cancel requests written
    dropped,    \* whether the handle is gone
    at,         \* the place of each thread
    bounded,    \* whether its call waits no longer than a timeout
    held,       \* the message it received and has not put in the buffer
    calls,      \* calls each thread made
    taken,      \* history: the ticks handed out, in the order they were popped
    overlapped, \* history: a batch was received while another was in a thread's hands
    raced,      \* history: a thread's pop and its check had another's fill between
    crowded     \* history: two threads were inside next at once

broker  == <<sent, finished>>
flags   == <<done, cancelled>>
history == <<taken, overlapped, raced, crowded>>
vars == <<chan, entry, broker, buffer, flags, cancels, dropped, at, bounded, held, calls, history>>

InNext(t) == at[t] \in {"pop", "check", "receive", "fill"}

TypeOK ==
    /\ chan \in Seq(Item)
    /\ entry \in BOOLEAN
    /\ sent \in 0..MaxTicks
    /\ finished \in BOOLEAN
    /\ buffer \in Seq(Tick)
    /\ done \in BOOLEAN
    /\ cancelled \in BOOLEAN
    /\ cancels \in {0, 1}
    /\ dropped \in BOOLEAN
    /\ at \in [Thread -> Place]
    /\ bounded \in [Thread -> BOOLEAN]
    /\ held \in [Thread -> Item]
    /\ \A t \in Thread : at[t] # "fill" => held[t] = Nothing
    /\ calls \in [Thread -> 0..MaxCalls]
    /\ taken \in Seq(Tick)
    /\ overlapped \in BOOLEAN
    /\ raced \in [Thread -> BOOLEAN]
    /\ crowded \in BOOLEAN

Init ==
    /\ chan = <<>>
    /\ entry = TRUE
    /\ sent = 0
    /\ finished = FALSE
    /\ buffer = <<>>
    /\ done = FALSE
    /\ cancelled = FALSE
    /\ cancels = 0
    /\ dropped = FALSE
    /\ at = [t \in Thread |-> "idle"]
    /\ bounded = [t \in Thread |-> FALSE]
    /\ held = [t \in Thread |-> Nothing]
    /\ calls = [t \in Thread |-> 0]
    /\ taken = <<>>
    /\ overlapped = FALSE
    /\ raced = [t \in Thread |-> FALSE]
    /\ crowded = FALSE

Goes(t, place) == at' = [at EXCEPT ![t] = place]

-----------------------------------------------------------------------------
(* The broker and the bus *)

\* The next n ticks of the request, in one message.
BatchOf(n, last) == [kind |-> "batch", ticks |-> [i \in 1..n |-> sent + i], last |-> last]

BrokerSends ==
    /\ entry /\ ~finished
    /\ \E n \in 0..MaxBatch, last \in BOOLEAN :
        /\ sent + n <= MaxTicks
        /\ n = 0 => last
        /\ chan' = Append(chan, BatchOf(n, last))
        /\ sent' = sent + n
        /\ finished' = last
    /\ UNCHANGED <<entry, buffer, flags, cancels, dropped, at, bounded, held, calls, history>>

\* A message of another type with the request's id.
BrokerStrays ==
    /\ entry /\ ~finished
    /\ Len(chan) = 0
    /\ chan' = Append(chan, Nothing)
    /\ UNCHANGED <<entry, broker, buffer, flags, cancels, dropped, at, bounded, held, calls, history>>

\* An error for the request; a reset or a shutdown also clears the table.
RequestFails ==
    /\ entry /\ ~finished
    /\ chan' = Append(chan, Failure)
    /\ finished' = TRUE
    /\ entry' \in BOOLEAN
    /\ UNCHANGED <<sent, buffer, flags, cancels, dropped, at, bounded, held, calls, history>>

-----------------------------------------------------------------------------
(* next, try_next and next_timeout *)

\* try_next and next_timeout give up on an empty channel; next waits for ever.
Call(t) ==
    /\ at[t] = "idle"
    /\ ~dropped
    /\ calls[t] < MaxCalls
    /\ calls' = [calls EXCEPT ![t] = @ + 1]
    /\ Goes(t, "pop")
    /\ bounded' \in {[bounded EXCEPT ![t] = b] : b \in BOOLEAN}
    /\ crowded' = (crowded \/ \E u \in Thread \ {t} : InNext(u))
    /\ UNCHANGED <<chan, entry, broker, buffer, flags, cancels, dropped, held, taken, overlapped, raced>>

\* next_buffered, under the buffer's lock.
PopTick(t) ==
    /\ at[t] = "pop"
    /\ buffer # <<>>
    /\ buffer' = Tail(buffer)
    /\ taken' = Append(taken, Head(buffer))
    /\ Goes(t, "idle")
    /\ UNCHANGED <<chan, entry, broker, flags, cancels, dropped, bounded, held, calls, overlapped, raced, crowded>>

PopNothing(t) ==
    /\ at[t] = "pop"
    /\ buffer = <<>>
    /\ Goes(t, "check")
    /\ raced' = [raced EXCEPT ![t] = FALSE]
    /\ UNCHANGED <<chan, entry, broker, buffer, flags, cancels, dropped, bounded, held, calls, taken, overlapped, crowded>>

\* done is loaded without the lock.
SeeDone(t) ==
    /\ at[t] = "check"
    /\ done
    /\ Goes(t, "idle")
    /\ UNCHANGED <<chan, entry, broker, buffer, flags, cancels, dropped, bounded, held, calls, history>>

SeeMore(t) ==
    /\ at[t] = "check"
    /\ ~done
    /\ Goes(t, "receive")
    /\ UNCHANGED <<chan, entry, broker, buffer, flags, cancels, dropped, bounded, held, calls, history>>

IsBatch(item) == item.kind = "batch"

Receive(t) ==
    /\ at[t] = "receive"
    /\ chan # <<>>
    /\ chan' = Tail(chan)
    /\ held' = [held EXCEPT ![t] = Head(chan)]
    /\ Goes(t, "fill")
    /\ overlapped' = (overlapped \/ (IsBatch(Head(chan)) /\ \E u \in Thread : IsBatch(held[u])))
    /\ UNCHANGED <<entry, broker, buffer, flags, cancels, dropped, bounded, calls, taken, raced, crowded>>

GiveUp(t) ==
    /\ at[t] = "receive"
    /\ bounded[t]
    /\ chan = <<>>
    /\ Goes(t, "idle")
    /\ UNCHANGED <<chan, entry, broker, buffer, flags, cancels, dropped, bounded, held, calls, history>>

\* fill_buffer with the buffer and the flag it is to leave.
FillWith(t, ticks, last) ==
    /\ at[t] = "fill"
    /\ IsBatch(held[t])
    /\ buffer' = ticks
    /\ done' = last
    /\ held' = [held EXCEPT ![t] = Nothing]
    /\ Goes(t, "pop")
    /\ raced' = [u \in Thread |-> raced[u] \/ at[u] = "check"]
    /\ UNCHANGED <<chan, entry, broker, cancelled, cancels, dropped, bounded, calls, taken, overlapped, crowded>>

\* Slips, for the mutants: the batch replaces the buffer; any batch ends the
\* request; no batch does.
FillReplaces(t) == FillWith(t, held[t].ticks, held[t].last)
FillOnce(t) == FillWith(t, buffer \o held[t].ticks, TRUE)
FillForgets(t) == FillWith(t, buffer \o held[t].ticks, done)

\* The batch goes into the buffer and its flag into done, under the buffer's lock.
Fill(t) == FillWith(t, buffer \o held[t].ticks, held[t].last)

FillSkips(t) ==
    /\ at[t] = "fill"
    /\ held[t].kind = "other"
    /\ Goes(t, "pop")
    /\ UNCHANGED <<chan, entry, broker, buffer, flags, cancels, dropped, bounded, held, calls, history>>

\* The call returns None, as it does at the end.
FillFails(t) ==
    /\ at[t] = "fill"
    /\ held[t].kind = "error"
    /\ held' = [held EXCEPT ![t] = Nothing]
    /\ Goes(t, "idle")
    /\ UNCHANGED <<chan, entry, broker, buffer, flags, cancels, dropped, bounded, calls, history>>

-----------------------------------------------------------------------------
(* cancel, and the cancel of a drop *)

CallCancel(t) ==
    /\ at[t] = "idle"
    /\ ~dropped
    /\ ~cancelled
    /\ cancelled' = TRUE
    /\ Goes(t, "write")
    /\ UNCHANGED <<chan, entry, broker, buffer, done, cancels, dropped, bounded, held, calls, history>>

\* The bus writes, tells the channel of its table and removes it; a failed
\* write leaves the table alone.
WriteCancel(t) ==
    /\ at[t] = "write"
    /\ cancels' = cancels + 1
    /\ chan' = IF entry THEN Append(chan, Failure) ELSE chan
    /\ entry' = FALSE
    /\ Goes(t, "tell")
    /\ UNCHANGED <<broker, buffer, flags, dropped, bounded, held, calls, history>>

WriteCancelFails(t) ==
    /\ at[t] = "write"
    /\ Goes(t, "tell")
    /\ UNCHANGED <<chan, entry, broker, buffer, flags, cancels, dropped, bounded, held, calls, history>>

\* InternalSubscription::cancel tells the channel once more.
TellReaders(t) ==
    /\ at[t] = "tell"
    /\ chan' = Append(chan, Failure)
    /\ Goes(t, "idle")
    /\ UNCHANGED <<entry, broker, buffer, flags, cancels, dropped, bounded, held, calls, history>>

\* The last owner drops the handle: nobody is inside a call.
Drop(t) ==
    /\ ~dropped
    /\ \A u \in Thread : at[u] = "idle"
    /\ dropped' = TRUE
    /\ cancelled' = (cancelled \/ ~done)
    /\ Goes(t, IF ~done /\ ~cancelled THEN "write" ELSE "idle")
    /\ UNCHANGED <<chan, entry, broker, buffer, done, cancels, bounded, held, calls, history>>

-----------------------------------------------------------------------------
ThreadStep(t) ==
    \/ PopTick(t) \/ PopNothing(t)
    \/ SeeDone(t) \/ SeeMore(t)
    \/ Receive(t) \/ GiveUp(t)
    \/ Fill(t) \/ FillSkips(t) \/ FillFails(t)
    \/ WriteCancel(t) \/ WriteCancelFails(t) \/ TellReaders(t)

BrokerStep == BrokerSends \/ BrokerStrays \/ RequestFails

Next ==
    \/ BrokerStep
    \/ \E t \in Thread : Call(t) \/ CallCancel(t) \/ Drop(t) \/ ThreadStep(t)

Spec == Init /\ [][Next]_vars

\* A thread inside a call runs; nothing is assumed of the broker.
Fairness == \A t \in Thread : WF_vars(ThreadStep(t))

FairSpec == Spec /\ Fairness

-----------------------------------------------------------------------------
(* Properties *)

Places(n) ==
    {<<"taken", i>> : i \in {j \in 1..Len(taken) : taken[j] = n}}
    \union {<<"buffer", i>> : i \in {j \in 1..Len(buffer) : buffer[j] = n}}
    \union (UNION {{<<"held", t, i>> : i \in {j \in 1..Len(held[t].ticks) : held[t].ticks[j] = n}} :
                     t \in Thread})
    \union (UNION {{<<"chan", m, i>> : i \in {j \in 1..Len(chan[m].ticks) : chan[m].ticks[j] = n}} :
                     m \in 1..Len(chan)})

\* Whatever the threads do, each tick the broker sent is in one place: on its
\* way, in the buffer, or handed to one caller; none is lost and none handed
\* out twice.  They are handed out in the broker's order, unless two threads
\* each held a batch at once: receiving and appending are two steps.
TicksKept ==
    /\ \A n \in 1..sent : \E p \in Places(n) : Places(n) = {p}
    /\ ~overlapped => \A i, j \in 1..Len(taken) : i < j => taken[i] < taken[j]

\* next() returns None for the end only after the last tick was handed out,
\* unless another thread filled the buffer between this one's pop and its look
\* at done, or done was overwritten by an earlier batch appended late.
EndMeansAll ==
    [][\A t \in Thread : SeeDone(t) /\ ~raced[t] /\ ~overlapped =>
            /\ buffer = <<>>
            /\ Len(taken) = sent]_vars

HasEnd == done \/ \E m \in 1..Len(chan) : chan[m].kind = "error" \/ chan[m].last

\* A thread alone in next() gets out of it once the last batch, an error or a
\* cancel is there for it.  (A second one waits for ever: one message wakes one
\* receiver, and the channel does not close.)
LoneReaderReturns ==
    \A t \in Thread : InNext(t) /\ HasEnd ~> ~InNext(t) \/ crowded
=============================================================================
