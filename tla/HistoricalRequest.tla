-------------------------- MODULE HistoricalRequest --------------------------
(***************************************************************************)
(* One-shot historical bar requests of the asynchronous client             *)
(* (src/market_data/historical/async.rs, HistoricalDataRequest, and the    *)
(* HistoricalAnswer of historical/common/mod.rs): the handle a caller      *)
(* answers, cancels, times out on or drops, the channel it reads, and what *)
(* it may say of the request's state at the broker while the session under *)
(* it is lost and opened again.                                            *)
(*                                                                         *)
(* answer() has one await, between two items: abandoning it (a timer, a    *)
(* select!) or answer_within() timing out changes nothing, so only the     *)
(* items it reads are steps.  A message counts as said by the broker when  *)
(* it reaches the dispatcher: on the wire nobody can tell.  The server     *)
(* floor (connection/common.rs) leaves no server without an end marker.    *)
(***************************************************************************)
EXTENDS Naturals, Sequences

CONSTANTS
    Request,    \* the requests, each with an id of its own
    Capacity,   \* messages a channel keeps for its reader
    MaxInfos,   \* bound: informational notices the broker has for a request
    MaxLosses,  \* bound: sessions lost
    MaxCancels  \* bound: calls of cancel on a handle

ASSUME CapacityAssumption == Capacity \in Nat \ {0}
ASSUME BoundAssumption == MaxInfos \in Nat /\ MaxLosses \in Nat /\ MaxCancels \in Nat

\* What the broker says of a request: informational codes, its bars, its end
\* marker, a code that ends the request; "bad" bars and a "badEnd" marker do
\* not decode.
Saying == {"info", "data", "bad", "end", "badEnd", "code"}

\* What reaches a channel: that, or what the bus puts there itself.
Item == Saying \union {"reset", "cancelled"}

\* HistoricalDataRequest.ended: no result yet, or what answer() repeats.
Result == {"none", "ok", "code", "bad", "lagged", "cancelled", "interrupted"}

VARIABLES
    link,       \* whether the session of the moment reaches the broker
    dispatcher, \* "reading", "reconnecting", "telling", "clearing" or "stopped"
    losses,     \* sessions lost
    entry,      \* whether the request table has the request's channel
    log,        \* everything sent on the request's channel
    pos,        \* items of the channel the handle is past
    handle,     \* "none", "sending", "held", "dropped" or "refused"
    state,      \* RequestState of the handle
    data,       \* HistoricalAnswer.data is there
    notices,    \* positions in log of the notices kept
    ended,      \* HistoricalDataRequest.ended
    call,       \* a cancel in progress: "idle", "asked" or "wrote"
    calls,      \* calls of cancel
    broker,     \* the request at the broker: "none", "live", "half" (bars sent) or "over"
    said,       \* history: messages the broker sent for the request
    overtaken,  \* history: written on a session whose reset its channel still gets
    deaf        \* history: a caller abandoned a cancel that was written

session == <<link, dispatcher, losses>>
channel == <<entry, log>>
answer  == <<pos, data, notices, ended>>
cancel  == <<call, calls>>
history == <<overtaken, deaf>>
vars == <<session, channel, answer, handle, state, cancel, broker, said, history>>

TypeOK ==
    /\ link \in BOOLEAN
    /\ dispatcher \in {"reading", "reconnecting", "telling", "clearing", "stopped"}
    /\ losses \in 0..MaxLosses
    /\ entry \in [Request -> BOOLEAN]
    /\ log \in [Request -> Seq(Item)]
    /\ pos \in [Request -> Nat]
    /\ \A r \in Request : pos[r] <= Len(log[r])
    /\ handle \in [Request -> {"none", "sending", "held", "dropped", "refused"}]
    /\ state \in [Request -> {"Open", "Ended", "Cancelled"}]
    /\ data \in [Request -> BOOLEAN]
    /\ notices \in [Request -> SUBSET Nat]
    /\ ended \in [Request -> Result]
    /\ call \in [Request -> {"idle", "asked", "wrote"}]
    /\ calls \in [Request -> 0..MaxCancels]
    /\ broker \in [Request -> {"none", "live", "half", "over"}]
    /\ said \in [Request -> Nat]
    /\ overtaken \in [Request -> BOOLEAN]
    /\ deaf \in [Request -> BOOLEAN]

Init ==
    /\ link = TRUE
    /\ dispatcher = "reading"
    /\ losses = 0
    /\ entry = [r \in Request |-> FALSE]
    /\ log = [r \in Request |-> <<>>]
    /\ pos = [r \in Request |-> 0]
    /\ handle = [r \in Request |-> "none"]
    /\ state = [r \in Request |-> "Open"]
    /\ data = [r \in Request |-> FALSE]
    /\ notices = [r \in Request |-> {}]
    /\ ended = [r \in Request |-> "none"]
    /\ call = [r \in Request |-> "idle"]
    /\ calls = [r \in Request |-> 0]
    /\ broker = [r \in Request |-> "none"]
    /\ said = [r \in Request |-> 0]
    /\ overtaken = [r \in Request |-> FALSE]
    /\ deaf = [r \in Request |-> FALSE]

IsLive(r) == broker[r] \in {"live", "half"}

\* Each channel of rs that the table has, after item was sent on it.
SentTo(rs, item) ==
    [r \in Request |-> IF r \in rs /\ entry[r] THEN Append(log[r], item) ELSE log[r]]

-----------------------------------------------------------------------------
(* The session: lost, opened again by the dispatcher, and its channels reset. *)

\* What the broker served on the session it drops with it.
LinkLost ==
    /\ link
    /\ losses < MaxLosses
    /\ losses' = losses + 1
    /\ link' = FALSE
    /\ broker' = [r \in Request |-> IF IsLive(r) THEN "over" ELSE broker[r]]
    /\ UNCHANGED <<dispatcher, channel, answer, handle, state, cancel, said, history>>

LossNoticed ==
    /\ ~link
    /\ dispatcher = "reading"
    /\ dispatcher' = "reconnecting"
    /\ UNCHANGED <<link, losses, channel, answer, handle, state, cancel, broker, said, history>>

Reconnect ==
    /\ dispatcher = "reconnecting"
    /\ dispatcher' = "telling"
    /\ link' = TRUE
    /\ UNCHANGED <<losses, channel, answer, handle, state, cancel, broker, said, history>>

\* reset_channels sends to every channel of the table, then clears the table.
ResetTells ==
    /\ dispatcher = "telling"
    /\ dispatcher' = "clearing"
    /\ log' = SentTo(Request, "reset")
    /\ UNCHANGED <<link, losses, entry, answer, handle, state, cancel, broker, said, history>>

ResetClears ==
    /\ dispatcher = "clearing"
    /\ dispatcher' = "reading"
    /\ entry' = [r \in Request |-> FALSE]
    /\ UNCHANGED <<link, losses, log, answer, handle, state, cancel, broker, said, history>>

\* A slip, for the mutants: the shutdown keeps the channels.
ShutdownKeepsTable ==
    /\ dispatcher # "stopped"
    /\ dispatcher' = "stopped"
    /\ link' = FALSE
    /\ broker' = [r \in Request |-> IF IsLive(r) THEN "over" ELSE broker[r]]
    /\ UNCHANGED <<losses, channel, answer, handle, state, cancel, said, history>>

\* A disconnect, or a reconnect given up: the socket is closed and the
\* channels go with their senders.
Shutdown ==
    /\ dispatcher # "stopped"
    /\ dispatcher' = "stopped"
    /\ link' = FALSE
    /\ entry' = [r \in Request |-> FALSE]
    /\ broker' = [r \in Request |-> IF IsLive(r) THEN "over" ELSE broker[r]]
    /\ UNCHANGED <<losses, log, answer, handle, state, cancel, said, history>>

-----------------------------------------------------------------------------
(* Sending the request: historical_data registers the channel, then writes. *)

Send(r) ==
    /\ handle[r] = "none"
    /\ handle' = [handle EXCEPT ![r] = "sending"]
    /\ entry' = [entry EXCEPT ![r] = TRUE]
    /\ UNCHANGED <<session, log, answer, state, cancel, broker, said, history>>

\* The bytes of a dead session are lost without an error until the socket is
\* replaced.  A channel that waits for a reset, or has lost its entry to one,
\* will not hear of a request written on the new session.
SendWrites(r) ==
    /\ handle[r] = "sending"
    /\ dispatcher # "stopped"
    /\ handle' = [handle EXCEPT ![r] = "held"]
    /\ broker' = [broker EXCEPT ![r] = IF link THEN "live" ELSE "none"]
    /\ overtaken' = [overtaken EXCEPT
                        ![r] = link /\ (dispatcher \in {"telling", "clearing"} \/ ~entry[r])]
    /\ UNCHANGED <<session, channel, answer, state, cancel, said, deaf>>

\* The registration is withdrawn.
SendFails(r) ==
    /\ handle[r] = "sending"
    /\ ~link
    /\ handle' = [handle EXCEPT ![r] = "refused"]
    /\ entry' = [entry EXCEPT ![r] = FALSE]
    /\ UNCHANGED <<session, log, answer, state, cancel, broker, said, history>>

-----------------------------------------------------------------------------
(* The broker serves the request. *)

\* Bars or a code come once, the end after the bars; informational codes any
\* time.  What arrives before the dispatcher reads again finds no channel.
Says(r, item) ==
    /\ said' = [said EXCEPT ![r] = @ + 1]
    /\ log' = IF dispatcher = "reading" THEN SentTo({r}, item) ELSE log
    /\ UNCHANGED <<session, entry, answer, handle, state, cancel, history>>

BrokerInforms(r) ==
    /\ IsLive(r)
    /\ said[r] < MaxInfos
    /\ Says(r, "info")
    /\ UNCHANGED broker

BrokerSendsBars(r) ==
    /\ broker[r] = "live"
    /\ broker' = [broker EXCEPT ![r] = "half"]
    /\ \E item \in {"data", "bad"} : Says(r, item)

BrokerEnds(r) ==
    /\ IsLive(r)
    /\ broker' = [broker EXCEPT ![r] = "over"]
    /\ \E item \in {"end", "badEnd", "code"} :
        /\ item # "code" => broker[r] = "half"
        /\ Says(r, item)

-----------------------------------------------------------------------------
(* Reading the answer. *)

\* HistoricalAnswer::accept leaves the answer open.
GoesOn(r, item) ==
    \/ item = "info"
    \/ item = "data" /\ ~data[r]

\* The result accept ends the answer with; an end marker without bars, or
\* second bars, are unexpected messages.
ResultOf(r, item) ==
    CASE item = "end" /\ data[r] -> "ok"
      [] item = "code" -> "code"
      [] item = "reset" -> "interrupted"
      [] item = "cancelled" -> "cancelled"
      [] OTHER -> "bad"

\* A slip, for the mutants: an undecodable answer counts as ended.
ProvesOverAnyEnd(r, item) == ~GoesOn(r, item)

\* The end of the answer proves the request is not live at the broker: it
\* ended it there, or the session is gone.
ProvesOver(r, item) ==
    item \in {"code", "reset"} \/ (item \in {"end", "badEnd"} /\ data[r])

\* An answer() call waits on the channel: it repeats its result once it has
\* one, and does not read for a cancelled request.
IsAnswering(r) ==
    /\ handle[r] = "held"
    /\ call[r] = "idle"
    /\ state[r] # "Cancelled"
    /\ ended[r] = "none"

HasLagged(r) == Len(log[r]) > pos[r] + Capacity


HasItem(r) == Len(log[r]) > pos[r] /\ ~HasLagged(r)

ReadsOn(r) ==
    /\ IsAnswering(r)
    /\ HasItem(r)
    /\ LET item == log[r][pos[r] + 1] IN
        /\ GoesOn(r, item)
        /\ data' = [data EXCEPT ![r] = @ \/ item = "data"]
        /\ notices' = [notices EXCEPT ![r] = IF item = "info" THEN @ \union {pos[r] + 1} ELSE @]
    /\ pos' = [pos EXCEPT ![r] = @ + 1]
    /\ UNCHANGED <<session, channel, ended, handle, state, cancel, broker, said, history>>

\* The answer ends here; the request only if that is proven.
EndsWith(r, result, proven) ==
    /\ ended' = [ended EXCEPT ![r] = result]
    /\ state' = [state EXCEPT ![r] = IF proven THEN "Ended" ELSE @]
    /\ UNCHANGED <<session, channel, handle, cancel, broker, said, history>>

ReadsEnd(r) ==
    /\ IsAnswering(r)
    /\ HasItem(r)
    /\ LET item == log[r][pos[r] + 1] IN
        /\ ~GoesOn(r, item)
        /\ notices' = [notices EXCEPT ![r] = IF item = "code" THEN @ \union {pos[r] + 1} ELSE @]
        /\ EndsWith(r, ResultOf(r, item), ProvesOver(r, item))
    /\ pos' = [pos EXCEPT ![r] = @ + 1]
    /\ UNCHANGED data

\* A slip, for the mutants: the reader goes on with the oldest message kept, as
\* the fixture next_routed of transport/async.rs does.
ReadsLaggedOn(r) ==
    /\ IsAnswering(r)
    /\ HasLagged(r)
    /\ pos' = [pos EXCEPT ![r] = Len(log[r]) - Capacity]
    /\ UNCHANGED <<session, channel, data, notices, ended, handle, state, cancel, broker, said, history>>

\* Messages were overwritten before they were read: an error, never the rows
\* around the hole.
ReadsLagged(r) ==
    /\ IsAnswering(r)
    /\ HasLagged(r)
    /\ EndsWith(r, "lagged", FALSE)
    /\ UNCHANGED <<pos, data, notices>>

ReadsClosed(r) ==
    /\ IsAnswering(r)
    /\ Len(log[r]) = pos[r]
    /\ ~entry[r]
    /\ EndsWith(r, "interrupted", TRUE)
    /\ UNCHANGED <<pos, data, notices>>

-----------------------------------------------------------------------------
(* Cancelling: by a call, or by the task a drop spawns.  The bus writes, then *)
(* takes the lock of its table.                                              *)

CallCancel(r) ==
    /\ handle[r] = "held"
    /\ call[r] = "idle"
    /\ calls[r] < MaxCancels
    /\ state[r] = "Open"
    /\ call' = [call EXCEPT ![r] = "asked"]
    /\ calls' = [calls EXCEPT ![r] = @ + 1]
    /\ UNCHANGED <<session, channel, answer, handle, state, broker, said, history>>

WriteCancel(r) ==
    /\ call[r] = "asked"
    /\ dispatcher # "stopped"
    /\ call' = [call EXCEPT ![r] = "wrote"]
    /\ broker' = [broker EXCEPT ![r] = IF link /\ IsLive(r) THEN "over" ELSE @]
    /\ UNCHANGED <<session, channel, answer, handle, state, calls, said, history>>

\* A call reports it and leaves the request open; a drop's task logs it.
WriteCancelFails(r) ==
    /\ call[r] = "asked"
    /\ ~link
    /\ call' = [call EXCEPT ![r] = "idle"]
    /\ UNCHANGED <<session, channel, answer, handle, state, calls, broker, said, history>>

\* cancel_subscription tells the channel and removes it.
FinishCancel(r) ==
    /\ call[r] = "wrote"
    /\ call' = [call EXCEPT ![r] = "idle"]
    /\ log' = SentTo({r}, "cancelled")
    /\ entry' = [entry EXCEPT ![r] = FALSE]
    /\ state' = [state EXCEPT ![r] = IF handle[r] = "held" THEN "Cancelled" ELSE @]
    /\ UNCHANGED <<session, answer, handle, calls, broker, said, history>>

\* The caller drops the future of its cancel, as a timer around it does.
AbandonCancel(r) ==
    /\ handle[r] = "held"
    /\ call[r] # "idle"
    /\ call' = [call EXCEPT ![r] = "idle"]
    /\ deaf' = [deaf EXCEPT ![r] = @ \/ call[r] = "wrote"]
    /\ UNCHANGED <<session, channel, answer, handle, state, calls, broker, said, overtaken>>

\* A slip, for the mutants: a drop after any result sends nothing.
DropIfUnanswered(r) ==
    /\ handle[r] = "held"
    /\ call[r] = "idle"
    /\ handle' = [handle EXCEPT ![r] = "dropped"]
    /\ call' = [call EXCEPT ![r] = IF state[r] = "Open" /\ ended[r] = "none" THEN "asked" ELSE @]
    /\ UNCHANGED <<session, channel, answer, state, calls, broker, said, history>>

\* Dropping an open handle spawns the cancel.
Drop(r) ==
    /\ handle[r] = "held"
    /\ call[r] = "idle"
    /\ handle' = [handle EXCEPT ![r] = "dropped"]
    /\ call' = [call EXCEPT ![r] = IF state[r] = "Open" THEN "asked" ELSE @]
    /\ UNCHANGED <<session, channel, answer, state, calls, broker, said, history>>

\* The cleanup task removes the channel nobody listens on.
Cleanup(r) ==
    /\ handle[r] = "dropped"
    /\ entry[r]
    /\ entry' = [entry EXCEPT ![r] = FALSE]
    /\ UNCHANGED <<session, log, answer, handle, state, cancel, broker, said, history>>

-----------------------------------------------------------------------------
Reads(r) == ReadsOn(r) \/ ReadsEnd(r) \/ ReadsLagged(r) \/ ReadsClosed(r)

CancelStep(r) == WriteCancel(r) \/ WriteCancelFails(r) \/ FinishCancel(r)

SendStep(r) == SendWrites(r) \/ SendFails(r)

DispatcherStep == LossNoticed \/ Reconnect \/ ResetTells \/ ResetClears

BrokerStep(r) == BrokerInforms(r) \/ BrokerSendsBars(r) \/ BrokerEnds(r)

Next ==
    \/ LinkLost
    \/ DispatcherStep
    \/ Shutdown
    \/ \E r \in Request :
        \/ Send(r) \/ SendStep(r)
        \/ BrokerStep(r)
        \/ Reads(r)
        \/ CallCancel(r) \/ CancelStep(r) \/ AbandonCancel(r)
        \/ Drop(r) \/ Cleanup(r)

Spec == Init /\ [][Next]_vars

\* Spawned tasks run, and a caller that awaits is polled.  Nothing is assumed
\* of the broker, of the link, or of what a caller chooses to call.
Fairness ==
    /\ WF_vars(DispatcherStep)
    /\ \A r \in Request : WF_vars(SendStep(r)) /\ WF_vars(Reads(r)) /\ WF_vars(CancelStep(r))

FairSpec == Spec /\ Fairness

-----------------------------------------------------------------------------
(* Properties *)

\* An answer that ends by the broker's word, its bars or its code, holds
\* everything the broker ever said of the request: no message was lost before
\* the end, and every code is among the notices ("never the bars received so
\* far", historical/common/mod.rs).
CompleteMeansAll ==
    \A r \in Request : ended[r] \in {"ok", "code"} =>
        /\ broker[r] = "over"
        /\ said[r] = pos[r]
        /\ notices[r] = {n \in 1..pos[r] : log[r][n] \in {"info", "code"}}
        /\ ended[r] = "ok" => \E n \in 1..pos[r] : log[r][n] = "data"

\* A request the broker may be serving is open: is_open() says so, so that
\* cancel() and a drop still write the cancel, whatever ended the answer here.
\* Except for a request written between a reconnect and the end of the reset.
OpenWhileServed ==
    \A r \in Request : IsLive(r) /\ handle[r] = "held" /\ ~overtaken[r] => state[r] = "Open"

\* The same of every request, as migration-3.0.md words it: "is_open() is true
\* while the request may still be live at IB".
IsOpenWhileLive ==
    \A r \in Request : IsLive(r) /\ handle[r] = "held" => state[r] = "Open"

\* A request whose handle was dropped is not served for ever: the spawned task
\* cancels it, also when the caller abandoned or failed a cancel before.
DroppedIsCancelled ==
    \A r \in Request : handle[r] = "dropped" /\ ~overtaken[r] ~> ~IsLive(r)

\* A caller that awaits the answer of a request the broker does not serve, be
\* it ended, lost or never received, gets a result; unless it abandoned a
\* cancel between the write and the removal of the channel, which closes only
\* with the session then.
AnswersEnd ==
    \A r \in Request :
        handle[r] = "held" /\ ~IsLive(r)
            ~> ended[r] # "none" \/ state[r] # "Open" \/ handle[r] = "dropped" \/ deaf[r]
=============================================================================
