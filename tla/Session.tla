------------------------------- MODULE Session -------------------------------
(* One-shot calls over the connection: a call sends a request, waits for the   *)
(* one answer, and is sent again when the connection was reset under it        *)
(* (common/request_helpers.rs, common/retry.rs).  A call is "own", with a      *)
(* request id and a channel of its own (wsh_metadata), or "shared"             *)
(* (managed_accounts): synchronous, all read the one queue of that request,    *)
(* which is never emptied; asynchronous, each listens on the shared channel    *)
(* from the time it asked.  ManagedAccounts is also what the handshake waits   *)
(* for.  A disconnect by the caller is the matter of the buses.                *)
EXTENDS Connection

CONSTANTS
  Calls,
  MaxRetries   \* DEFAULT_MAX_RETRIES

ASSUME CallsAssumption == Nobody \notin Calls /\ MaxRetries \in Nat

VARIABLES
  kind,      \* of each call: "own" or "shared", "unmade" before it is made
  state,     \* not made, registered but not written, waiting, or done
  try,       \* the attempts that ended in a reset
  result,    \* how it ended
  entry,     \* own: the request table has it
  queue,     \* what its receiver has got: own, or asynchronous and shared
  gone,      \* no sender is left on its channel
  shelf,     \* synchronous: the queue of the shared request
  asked      \* the requests the broker has still to answer

callVars == <<kind, state, try, result, entry, queue, gone, shelf>>
vars == <<connection, callVars, asked>>

Kinds == {"own", "shared"}
Results == {"pending", "answer", "reset", "error", "none"}
Outstanding(c) == state[c] \in {"registered", "waiting"}

\* The calls that listen on the shared channel.
Listeners == {c \in Calls : transport = "async" /\ kind[c] = "shared" /\ Outstanding(c)}

ToAll(callers, item) ==
  [c \in Calls |-> IF c \in callers /\ Outstanding(c) THEN Append(queue[c], item) ELSE queue[c]]
Entries == {c \in Calls : entry[c]}

Init ==
  /\ ConnectionInit
  /\ kind = [c \in Calls |-> "unmade"] /\ state = [c \in Calls |-> "idle"]
  /\ try = [c \in Calls |-> 0] /\ result = [c \in Calls |-> "pending"]
  /\ entry = [c \in Calls |-> FALSE] /\ queue = [c \in Calls |-> <<>>]
  /\ gone = [c \in Calls |-> FALSE] /\ shelf = <<>> /\ asked = {}

-------------------------------------------------------------------------------
(* Calls. *)

\* The closure that is tried: a fresh channel and entry, or a fresh receiver at
\* the end of the shared channel.
Registers(c, k) ==
  /\ state' = [state EXCEPT ![c] = "registered"]
  /\ entry' = [entry EXCEPT ![c] = k = "own"]
  /\ queue' = [queue EXCEPT ![c] = <<>>]
  /\ gone' = [gone EXCEPT ![c] = FALSE]

Call(c) ==
  /\ Built /\ state[c] = "idle"
  /\ \E k \in Kinds : kind' = [kind EXCEPT ![c] = k] /\ Registers(c, k)
  /\ UNCHANGED <<connection, try, result, shelf, asked>>

Ended(c, r) ==
  /\ state' = [state EXCEPT ![c] = "done"] /\ result' = [result EXCEPT ![c] = r]
  /\ entry' = [entry EXCEPT ![c] = FALSE] /\ queue' = [queue EXCEPT ![c] = <<>>]
  /\ try' = [try EXCEPT ![c] = 0] /\ gone' = [gone EXCEPT ![c] = FALSE]

\* The write goes out, or into a connection that is lost and gone unnoticed.
\* What comes before start api is lost on the broker.
Write(c) ==
  /\ state[c] = "registered" /\ link # "closed"
  /\ state' = [state EXCEPT ![c] = "waiting"]
  /\ asked' = IF link = "up" /\ served = "api"
                THEN asked \cup {[kind |-> kind[c], to |-> c, try |-> try[c]]} ELSE asked
  /\ UNCHANGED <<connection, kind, try, result, entry, queue, gone, shelf>>

\* Synchronously a failed write leaves its entry, where nobody listens.
WriteFails(c) ==
  /\ state[c] = "registered" /\ link # "up"
  /\ state' = [state EXCEPT ![c] = "done"] /\ result' = [result EXCEPT ![c] = "error"]
  /\ entry' = [entry EXCEPT ![c] = @ /\ transport = "sync"] /\ queue' = [queue EXCEPT ![c] = <<>>]
  /\ try' = [try EXCEPT ![c] = 0] /\ gone' = [gone EXCEPT ![c] = FALSE]
  /\ UNCHANGED <<connection, kind, shelf, asked>>

Retries(c) == try[c] < MaxRetries

\* What becomes of the call when its receiver gives it an item.
Gets(c, item) ==
  IF item = "Reset" /\ Retries(c)
    THEN /\ try' = [try EXCEPT ![c] = @ + 1]
         /\ Registers(c, kind[c]) /\ UNCHANGED result
    ELSE Ended(c, CASE item = "answer" -> "answer" [] item = "Reset" -> "reset" [] OTHER -> "error")

Receive(c) ==
  /\ state[c] = "waiting" /\ queue[c] # <<>>
  /\ Gets(c, Head(queue[c]))
  /\ UNCHANGED <<connection, kind, shelf, asked>>

\* Synchronous: the calls of one request take the next item of its one queue.
ReceiveShared(c) ==
  /\ transport = "sync" /\ kind[c] = "shared" /\ state[c] = "waiting" /\ shelf # <<>>
  /\ Gets(c, Head(shelf))
  /\ shelf' = Tail(shelf)
  /\ UNCHANGED <<connection, kind, asked>>

\* No sender is left and nothing queued: None, which on_none answers for.
ReceiveNone(c) ==
  /\ state[c] = "waiting" /\ queue[c] = <<>> /\ gone[c]
  /\ Ended(c, "none")
  /\ UNCHANGED <<connection, kind, shelf, asked>>

CallStep(c) == Write(c) \/ WriteFails(c) \/ Receive(c) \/ ReceiveShared(c) \/ ReceiveNone(c)

-------------------------------------------------------------------------------
(* The dispatcher. *)

BrokerAnswers ==
  /\ link = "up"
  /\ \E m \in asked :
       /\ wire' = Append(wire, [m EXCEPT !.kind = IF @ = "shared" THEN "accounts" ELSE @])
       /\ asked' = asked \ {m}
  /\ UNCHANGED <<transport, dispatcher, link, served, greeting, losses, callVars>>

\* An answer to a call goes to the entry of its request id; ManagedAccounts goes
\* to the shared channel, whoever asked for it and whether anybody did.
Dispatch ==
  LET m == Head(wire)
      to == IF m.kind = "own" THEN {c \in Entries : c = m.to /\ try[c] = m.try}
            ELSE IF m.kind = "accounts" THEN Listeners ELSE {}
  IN /\ phase = "reading" /\ wire # <<>>
     /\ wire' = Tail(wire)
     /\ queue' = ToAll(to, "answer")
     /\ shelf' = IF m.kind = "accounts" /\ transport = "sync" THEN Append(shelf, "answer") ELSE shelf
     /\ UNCHANGED <<transport, dispatcher, link, served, greeting, losses,
                    kind, state, try, result, entry, gone, asked>>

NotConnection == UNCHANGED <<transport, attempt, info, seen, metadata, orderIds, connected, broker>>

\* The reset of the bus, in its steps.  The asynchronous one tells the calls with
\* an id only.
ResetTells ==
  /\ phase = "tell"
  /\ phase' = IF transport = "sync" THEN "tell shared" ELSE "clear"
  /\ queue' = ToAll(Entries, "Reset")
  /\ NotConnection /\ UNCHANGED <<kind, state, try, result, entry, gone, shelf, asked>>

\* A slip: the shared queue is not told, as in the asynchronous client.
ResetSkipsShared ==
  /\ phase = "tell shared"
  /\ phase' = "clear"
  /\ NotConnection /\ UNCHANGED <<kind, state, try, result, entry, queue, gone, shelf, asked>>

\* A slip: the shared queue is told twice, as one is whose request has two kinds
\* of answer.
ResetTellsSharedTwice ==
  /\ phase = "tell shared"
  /\ phase' = "clear"
  /\ shelf' = shelf \o <<"Reset", "Reset">>
  /\ NotConnection /\ UNCHANGED <<kind, state, try, result, entry, queue, gone, asked>>

ResetTellsShared ==
  /\ phase = "tell shared"
  /\ phase' = "clear"
  /\ shelf' = Append(shelf, "Reset")
  /\ NotConnection /\ UNCHANGED <<kind, state, try, result, entry, queue, gone, asked>>

\* A synchronous subscription keeps a sender of its own: its receiver never ends.
SendersGo(callers) == [c \in Calls |-> gone[c] \/ (transport = "async" /\ c \in callers)]

ResetClears ==
  /\ phase = "clear"
  /\ phase' = "reading"
  /\ entry' = [c \in Calls |-> FALSE]
  /\ gone' = SendersGo(Entries)
  /\ NotConnection /\ UNCHANGED <<kind, state, try, result, queue, shelf, asked>>

\* request_shutdown by the dispatcher, for the calls there are.
Shutdown ==
  /\ entry' = [c \in Calls |-> FALSE]
  /\ gone' = SendersGo(Entries \cup Listeners)
  /\ queue' = IF transport = "sync" THEN ToAll(Entries, "Shutdown") ELSE queue
  /\ shelf' = IF transport = "sync" THEN Append(shelf, "Shutdown") ELSE shelf
  /\ UNCHANGED <<kind, state, try, result>>

StopsTheBus ==
  /\ HandshakeFails \/ GivesUp \/ LastAttemptFails
  /\ Shutdown /\ asked' = {}

\* What was asked of a connection that is gone will not be answered.
NewConnection == Reconnect /\ asked' = {} /\ UNCHANGED callVars

DispatcherStep ==
  \/ (HandshakeStep \/ StartReconnect \/ AttemptFails) /\ UNCHANGED <<callVars, asked>>
  \/ NewConnection \/ StopsTheBus
  \/ Dispatch \/ ResetTells \/ ResetTellsShared \/ ResetClears

BrokerStep ==
  \/ (BrokerAcks \/ BrokerGreets) /\ UNCHANGED <<callVars, asked>>
  \/ BrokerAnswers

Next ==
  \/ DispatcherStep \/ BrokerStep
  \/ (BrokerRefuses \/ LinkLost) /\ UNCHANGED <<callVars, asked>>
  \/ \E c \in Calls : Call(c) \/ CallStep(c)

Spec == Init /\ [][Next]_vars

\* The dispatcher runs, a call's thread or task runs, and the broker answers
\* what it was asked.  Nothing makes a call be made or the connection be lost.
Fairness ==
  /\ WF_vars(DispatcherStep) /\ WF_vars(BrokerAnswers)
  /\ WF_vars((BrokerAcks \/ BrokerGreets) /\ UNCHANGED <<callVars, asked>>)
  /\ \A c \in Calls : WF_vars(CallStep(c))

FairSpec == Spec /\ Fairness
-------------------------------------------------------------------------------
(* Properties. *)

\* Every variable has its type: the connection's, and the calls'.
Messages ==
  [kind : {"ack", "old", "refused", "id", "accounts", "other", "own"},
   to : Calls \cup {Nobody}, try : 0..MaxRetries]
Items == {"answer", "Reset", "Shutdown"}

ConnectionTypes ==
  /\ transport \in {"async", "sync"}
  /\ phase \in Phases /\ attempt \in 0..MaxAttempts
  /\ info \subseteq Known /\ seen \in 0..MaxMessages /\ metadata \subseteq Known
  /\ orderIds \in {"none", "zero", "broker"} /\ connected \in BOOLEAN
  /\ link \in {"up", "lost", "closed"} /\ losses \in 0..MaxLosses
  /\ served \in {"nothing", "version", "acked", "api"}
  /\ greeting \subseteq {"id", "accounts", "other"}
  /\ wire \in Seq(Messages)

CallTypes ==
  /\ kind \in [Calls -> Kinds \cup {"unmade"}]
  /\ state \in [Calls -> {"idle", "registered", "waiting", "done"}]
  /\ try \in [Calls -> 0..MaxRetries] /\ result \in [Calls -> Results]
  /\ entry \in [Calls -> BOOLEAN] /\ gone \in [Calls -> BOOLEAN]
  /\ queue \in [Calls -> Seq(Items)] /\ shelf \in Seq(Items)
  /\ asked \subseteq [kind : Kinds, to : Calls, try : 0..MaxRetries]
  /\ \A c \in Calls : kind[c] = "unmade" => state[c] = "idle"

TypeOK == ConnectionTypes /\ CallTypes

\* While is_connected says so, the broker has been sent the whole handshake of the
\* present connection, and the metadata is that connection's.
ConnectedMeansServed == connected => served = "api" /\ "version" \in metadata

\* A client's order ids count from what the broker said, unless it had not said
\* so within the messages receive_account_info will read: then, silently, from 0.
OrderIdsAreTheBrokers ==
  [][~ Built /\ Built' /\ link = "up" =>
       \/ orderIds' = "broker"
       \/ "id" \in greeting \/ \E i \in DOMAIN wire' : wire'[i].kind = "id"]_vars

\* A call is not sent again, nor given up for a reset, more often than the
\* connection was lost: no loss is counted against it twice.
ResetsAreLosses ==
  \A c \in Calls : try[c] <= losses /\ (result[c] = "reset" => losses > MaxRetries)

\* The calls that are sure of an end, whatever becomes of the connection: the
\* asynchronous ones with an id, and a synchronous one alone on its shared queue;
\* every one while no connection was lost.
Sure(c) ==
  \/ losses = 0
  \/ transport = "async" /\ kind[c] = "own"
  \/ transport = "sync" /\ kind[c] = "shared" /\ \A d \in Calls \ {c} : kind[d] # "shared"

\* Such a call ends: with its answer, or told that there is none.
CallsEnd == \A c \in Calls : Outstanding(c) ~> ~ Outstanding(c) \/ ~ Sure(c)

\* A managed_accounts outstanding over a reset is retried (common/retry.rs: "retry
\* functionality for operations that can be safely retried ... (e.g.,
\* managed_accounts, server_time)"): it does not wait for an answer that the
\* broker no longer owes.
SharedCallsEnd == \A c \in Calls : Outstanding(c) /\ kind[c] = "shared" ~> ~ Outstanding(c)
===============================================================================
