------------------------------- MODULE Routing -------------------------------
(* How the dispatcher of either transport brings each message of the broker to *)
(* the calls it is for (transport/async.rs and transport/sync/mod.rs).  A call *)
(* is registered, a message routed and a cleanup done in one step each: how    *)
(* they interleave is the matter of AsyncBus and SyncBus, and how a reader     *)
(* takes its queue that of AsyncSubscription.  What is kept here is who is     *)
(* registered where, and which message goes to whom.                           *)
(*                                                                             *)
(* A message has a kind, the call it answers if it answers one, the request    *)
(* id it carries or -1, and the order it is about or -1.  An order has one     *)
(* execution, named by the order's id.                                         *)
EXTENDS Requests, Integers, Sequences, FiniteSets

CONSTANTS
  Callers,         \* the calls a run makes, one each
  Asked,           \* the calls of the API each caller may make
  None,            \* no caller
  FirstRequestId, LastRequestId,  \* where the client's request ids start; bound: where they stop
  OrderIds,        \* bound: the numbers that orders may be given
  MaxShelf         \* bound: the broker is silent while a shared queue is this long

ASSUME CallersAssumption == None \notin Callers \cup Apis /\ Asked \in [Callers -> SUBSET Apis]
ASSUME BoundsAssumption ==
  /\ FirstRequestId \in Nat /\ LastRequestId \in Nat
  /\ OrderIds \subseteq Nat
  /\ MaxShelf \in Nat \ {0}

\* The client counts its request ids from 9000; an order's id is the caller's to
\* give, by a counter that starts at the broker's next valid id.  Nothing keeps the
\* two apart: they may have numbers in common.
RequestIds == FirstRequestId..LastRequestId
Ids == RequestIds \cup OrderIds
Unspecified == -1
CallerOrNone == Callers \cup {None}

VARIABLES
  transport,    \* "async" or "sync": which of the two clients this is
  api,          \* what each caller has called, or None
  state,        \* of each call: not made, its subscription open, ended, or dropped
  id,           \* the request or order id of each call, Unspecified if it has none
  founder,      \* whose channel each call listens on: its own, or one it joined
  requests,     \* request table: the founder of the channel under each id
  orders,       \* order table, likewise
  executions,   \* execution table, likewise, by execution
  stream,       \* who holds the order update stream
  shelf,        \* synchronous: the queue all calls of one shared request read
  nextRequest,  \* the next request id
  placed,       \* the orders the broker has
  filled,       \* those of them that have been executed
  told,         \* history: the calls the last report of each execution was taken by
  silent,       \* the calls the broker has given its last answer
  last          \* history: what became of the message of the last step, if it had one

clients == <<api, state, id, founder>>
tables == <<requests, orders, executions, stream>>
broker == <<placed, filled, told, silent>>
vars == <<transport, clients, tables, shelf, nextRequest, broker, last>>

States == {"idle", "open", "ended", "dropped"}
By(c) == IF api[c] = None THEN "" ELSE Api[api[c]].by

\* The calls that listen on a channel.
Listeners(f) == {c \in Callers : f # None /\ founder[c] = f /\ state[c] \in {"open", "ended"}}
Entry(table, i) == IF i \in Ids THEN table[i] ELSE None
NoEntry == [i \in Ids |-> None]

Message == [kind : Kinds \cup {""}, asker : CallerOrNone, req : Int, ord : Int]
Nothing == [kind |-> "", asker |-> None, req |-> Unspecified, ord |-> Unspecified]
NoRouting == [message |-> Nothing, reached |-> {}, took |-> {}, shelved |-> {},
              read |-> FALSE]

-------------------------------------------------------------------------------
(* Calls. *)

Init ==
  /\ transport \in {"async", "sync"}
  /\ api = [c \in Callers |-> None]
  /\ state = [c \in Callers |-> "idle"]
  /\ id = [c \in Callers |-> Unspecified]
  /\ founder = [c \in Callers |-> None]
  /\ requests = NoEntry /\ orders = NoEntry /\ executions = NoEntry /\ stream = None
  /\ shelf = [r \in SharedRequests |-> <<>>]
  /\ nextRequest = FirstRequestId
  /\ placed = {} /\ filled = {} /\ told = [o \in Ids |-> {}] /\ silent = {}
  /\ last = NoRouting

Makes(c, a, st, i, f) ==
  /\ api[c] = None /\ a \in Asked[c]
  /\ api' = [api EXCEPT ![c] = a]
  /\ state' = [state EXCEPT ![c] = st]
  /\ id' = [id EXCEPT ![c] = i]
  /\ founder' = [founder EXCEPT ![c] = f]
  /\ last' = NoRouting
  /\ UNCHANGED <<transport, executions, shelf, filled, told, silent>>

\* A slip: the counter of the request ids stands still.
RequestAgain(c, a) ==
  /\ Api[a].by = "request" /\ nextRequest \in RequestIds
  /\ Makes(c, a, "open", nextRequest, c)
  /\ requests' = [requests EXCEPT ![nextRequest] = c]
  /\ UNCHANGED <<orders, stream, nextRequest, placed>>

\* send_request: a channel of the call's own under a fresh id.
Request(c, a) ==
  /\ Api[a].by = "request" /\ nextRequest \in RequestIds
  /\ Makes(c, a, "open", nextRequest, c)
  /\ requests' = [requests EXCEPT ![nextRequest] = c]
  /\ nextRequest' = nextRequest + 1
  /\ UNCHANGED <<orders, stream, placed>>

\* The order a call is about: what the caller names, one that is there already being
\* modified or cancelled; an exercise has the next id, which no order has.
OrderOf(a) ==
  IF a = "cancel_order" THEN placed
  ELSE IF a = "exercise_options" THEN OrderIds \ placed
  ELSE OrderIds

\* send_order_request: the asynchronous client joins the channel of the order if
\* anyone listens on it; the synchronous one puts its own in its place.
OrderRequest(c, a) ==
  /\ Api[a].by = "order"
  /\ \E o \in OrderOf(a) :
       LET f == IF transport = "async" /\ Listeners(orders[o]) # {} THEN orders[o] ELSE c IN
       /\ Makes(c, a, "open", o, f)
       /\ orders' = [orders EXCEPT ![o] = f]
       /\ placed' = placed \cup {o}
       /\ UNCHANGED <<requests, stream, nextRequest>>

\* submit_order: written and forgotten.
Submit(c, a) ==
  /\ Api[a].by = "nothing"
  /\ \E o \in OrderOf(a) :
       /\ Makes(c, a, "dropped", o, None)
       /\ placed' = placed \cup {o}
       /\ UNCHANGED <<requests, orders, stream, nextRequest>>

\* A slip: a request without an id is given one.
SharedRequestWithId(c, a) ==
  /\ Api[a].by \in SharedRequests
  /\ Makes(c, a, "open", nextRequest, None)
  /\ UNCHANGED <<requests, orders, stream, nextRequest, placed>>

\* send_shared_request: asynchronous, a receiver of its own, which starts at the
\* end of the channel; synchronous, the one receiver of that request.
SharedRequest(c, a) ==
  /\ Api[a].by \in SharedRequests
  /\ Makes(c, a, "open", Unspecified, None)
  /\ UNCHANGED <<requests, orders, stream, nextRequest, placed>>

\* create_order_update_subscription: AlreadySubscribed while there is one.
Updates(c, a) ==
  /\ Api[a].by = "updates" /\ stream = None
  /\ Makes(c, a, "open", Unspecified, c)
  /\ stream' = c
  /\ UNCHANGED <<requests, orders, nextRequest, placed>>

Call(c) ==
  /\ api[c] = None
  /\ \E a \in Asked[c] :
       Request(c, a) \/ OrderRequest(c, a) \/ Submit(c, a) \/ SharedRequest(c, a) \/ Updates(c, a)

\* A slip: the entry goes by its id, as it used to in the asynchronous client.
ReleasedById(table, c) == [i \in Ids |-> IF i = id[c] THEN None ELSE table[i]]

\* What the cleanup leaves of a table: asynchronously the entry goes with the
\* last listener of its own channel; synchronously the entry under the id goes,
\* whoever's it is.
Released(table, c) ==
  IF transport = "async"
    THEN [i \in Ids |-> IF i = id[c] /\ table[i] = founder[c] /\ Listeners(founder[c]) = {c}
                          THEN None ELSE table[i]]
    ELSE [i \in Ids |-> IF i = id[c] THEN None ELSE table[i]]

\* A subscription is dropped, and the cleanup its drop asks for is done.
Drop(c) ==
  /\ state[c] \in {"open", "ended"}
  /\ state' = [state EXCEPT ![c] = "dropped"]
  /\ requests' = IF By(c) = "request" THEN Released(requests, c) ELSE requests
  /\ orders' = IF By(c) = "order" THEN Released(orders, c) ELSE orders
  /\ stream' = IF By(c) = "updates" THEN None ELSE stream
  /\ last' = NoRouting
  /\ UNCHANGED <<transport, api, id, founder, executions, shelf, nextRequest, broker>>

-------------------------------------------------------------------------------
(* Where a message goes. *)

\* The request's channel, else the order's: faults of either transport, and what
\* the synchronous dispatcher finds a request id in.
RequestOrOrder(i) == IF Entry(requests, i) # None THEN Entry(requests, i) ELSE Entry(orders, i)

\* ExecutionData and ExecutionDataEnd: the order's channel, else the request's.
\* The order id of an ExecutionDataEnd is read where its request id stands.
ExecutionChannel(m) ==
  LET order == Entry(orders, IF m.kind = "ExecutionDataEnd" THEN m.req ELSE m.ord)
  IN IF order # None THEN order ELSE Entry(requests, m.req)

\* A slip: a commission goes to its order's channel.
OrderChannelByOrder(m) ==
  IF m.kind \in {"ExecutionData", "ExecutionDataEnd"} THEN ExecutionChannel(m) ELSE Entry(orders, m.ord)

\* route_to_order_channel and process_orders.
OrderChannel(m) ==
  CASE Strategy(m.kind) \in {"ExecutionData", "ExecutionDataEnd"} -> ExecutionChannel(m)
    [] Strategy(m.kind) = "OrderOrShared"                         -> Entry(orders, m.ord)
    [] Strategy(m.kind) = "ByExecutionId"                         -> Entry(executions, m.ord)
    [] OTHER                                                      -> None

\* The channel a message is put on, by its founder.
Channel(m) ==
  CASE Destination(m.kind) = "Error"     -> RequestOrOrder(m.req)
    [] Destination(m.kind) = "ByOrderId" -> OrderChannel(m)
    [] Destination(m.kind) = "ByRequestId" ->
         IF transport = "async" THEN Entry(requests, m.req) ELSE RequestOrOrder(m.req)
    [] OTHER                             -> None

\* The shared channels it is put on: those of its kind, if it is addressed by
\* kind, or if it found no channel of its own where that is what comes next.
SharedChannels(m) ==
  IF \/ Destination(m.kind) = "Shared"
     \/ Destination(m.kind) = "ByOrderId" /\ Strategy(m.kind) = "SharedOnly"
     \/ /\ Channel(m) = None
        /\ \/ Destination(m.kind) = "ByOrderId" /\ Strategy(m.kind) = "OrderOrShared"
           \/ Destination(m.kind) = "ByRequestId" /\ transport = "sync"
    THEN ChannelsOf(m.kind) ELSE {}

\* send_order_update: the asynchronous client sends every order message and every
\* fault there, the synchronous one not the end markers and the completed orders.
ToUpdateStream(m) ==
  \/ Destination(m.kind) = "Error"
  \/ /\ Destination(m.kind) = "ByOrderId"
     /\ transport = "async" \/ Strategy(m.kind) \notin {"ExecutionDataEnd", "SharedOnly"}

Reached(m) ==
  Listeners(Channel(m))
  \cup (IF ToUpdateStream(m) THEN {stream} \ {None} ELSE {})
  \cup {c \in Callers : /\ transport = "async" /\ By(c) \in SharedChannels(m)
                        /\ state[c] \in {"open", "ended"}}

\* What a subscription makes of an item.  The update stream is given a fault as a
\* response, which its decoder skips (and which counts as delivered: nothing is
\* logged); every other channel as an error or a notice.
Accepts(c, m) ==
  /\ state[c] = "open"
  /\ IF m.kind \in Faults THEN By(c) # "updates" ELSE m.kind \in Api[api[c]].takes

Ends(c, m) == m.kind = "Error" \/ m.kind \in Api[api[c]].ends

After(took, m) ==
  [c \in Callers |-> IF c \in took /\ Ends(c, m) THEN "ended" ELSE state[c]]

-------------------------------------------------------------------------------
(* The broker sends, and the dispatcher routes. *)

OrdersOf(kind) ==
  CASE kind \in {"OpenOrder", "OrderStatus"}             -> placed
    [] kind \in {"ExecutionData", "CommissionsReport"}   -> filled
    [] OTHER                                             -> {Unspecified}

\* Answers to a call, which may still come when it has been dropped.
AnswersTo(c) ==
  IF api[c] = None \/ c \in silent THEN {}
  ELSE UNION {{[kind |-> k, asker |-> c, ord |-> o,
                req |-> IF By(c) = "request" THEN id[c] ELSE Unspecified] : o \in OrdersOf(k)}
              : k \in Answers(api[c])}

\* Faults: of a request, of an order, or of neither.
FaultsOf(c) ==
  IF id[c] = Unspecified \/ c \in silent THEN {}
  ELSE {[kind |-> k, asker |-> c, req |-> id[c],
         ord |-> IF By(c) = "request" THEN Unspecified ELSE id[c]] : k \in Faults}

OrderEvents ==
  UNION {{[kind |-> k, asker |-> None, req |-> Unspecified, ord |-> o]
          : o \in IF k = "CommissionsReport" THEN filled ELSE placed} : k \in OrderKinds}

Sent ==
  (UNION {AnswersTo(c) \cup FaultsOf(c) : c \in Callers}) \cup OrderEvents
  \cup {[Nothing EXCEPT !.kind = "Warning"]}

\* Synchronous: a shared item waits in the one queue of each of its requests,
\* where a later call finds it too.
Shelved(m) == IF transport = "sync" THEN SharedChannels(m) ELSE {}

Dispatch(m) ==
  LET reached == Reached(m)
      shelved == Shelved(m)
      took == {c \in reached : Accepts(c, m)}
      bound == m.kind = "ExecutionData" /\ Channel(m) # None
  IN /\ \A r \in shelved : Len(shelf[r]) < MaxShelf
     /\ state' = After(took, m)
     /\ shelf' = [r \in SharedRequests |->
                    IF r \in shelved THEN Append(shelf[r], m) ELSE shelf[r]]
     /\ executions' = IF bound THEN [executions EXCEPT ![m.ord] = Channel(m)] ELSE executions
     /\ told' = IF bound THEN [told EXCEPT ![m.ord] = took \ {stream}] ELSE told
     /\ filled' = IF m.kind = "ExecutionData" THEN filled \cup {m.ord} ELSE filled
     /\ silent' = IF m.asker # None /\ m.kind \in Finals(api[m.asker]) THEN silent \cup {m.asker} ELSE silent
     /\ last' = [message |-> m, reached |-> reached, took |-> took,
                 shelved |-> shelved, read |-> FALSE]
     /\ UNCHANGED <<transport, api, id, founder, requests, orders, stream, nextRequest, placed>>

\* Synchronous: a call takes the next item of the queue it shares.
Read(c) ==
  /\ transport = "sync" /\ state[c] = "open" /\ By(c) \in SharedRequests
  /\ shelf[By(c)] # <<>>
  /\ LET m == Head(shelf[By(c)])
         took == {d \in {c} : Accepts(d, m)}
     IN /\ state' = After(took, m)
        /\ last' = [message |-> m, reached |-> {c}, took |-> took, shelved |-> {By(c)}, read |-> TRUE]
  /\ shelf' = [shelf EXCEPT ![By(c)] = Tail(@)]
  /\ UNCHANGED <<transport, api, id, founder, tables, nextRequest, broker>>

Next ==
  \/ \E c \in Callers : Call(c) \/ Drop(c) \/ Read(c)
  \/ \E m \in Sent : Dispatch(m)

Spec == Init /\ [][Next]_vars
-------------------------------------------------------------------------------
(* Properties. *)

\* Every variable has its type; a call has an id exactly if its answers name one.
TypeOK ==
  /\ transport \in {"async", "sync"}
  /\ api \in [Callers -> Apis \cup {None}]
  /\ state \in [Callers -> States]
  /\ id \in [Callers -> Ids \cup {Unspecified}]
  /\ founder \in [Callers -> CallerOrNone]
  /\ requests \in [Ids -> CallerOrNone] /\ orders \in [Ids -> CallerOrNone]
  /\ executions \in [Ids -> CallerOrNone] /\ stream \in CallerOrNone
  /\ shelf \in [SharedRequests -> Seq(Message)]
  /\ nextRequest \in Nat
  /\ placed \subseteq OrderIds /\ filled \subseteq placed /\ told \in [Ids -> SUBSET Callers]
  /\ silent \subseteq Callers
  /\ last \in [message : Message, reached : SUBSET Callers, took : SUBSET Callers,
               shelved : SUBSET SharedRequests, read : BOOLEAN]
  /\ \A c \in Callers : id[c] # Unspecified <=> By(c) \in {"request", "order", "nothing"}

AboutItsOrder(c, m) == By(c) = "order" /\ m.ord = id[c]

\* An answer is not lost: the call that asked, if its subscription is still
\* there, is given it, or finds it in the queue it reads, or has already come to
\* its end; only what is about an order somebody follows goes to that order's
\* subscriptions instead, and an ExecutionDataEnd to those of the order that has
\* its request's number.  It takes the index of request ids, the routing, the
\* table of shared channels and the decoders to agree on every kind.
AnswersArrive ==
  LET m == last.message
      c == m.asker
  IN c # None /\ state[c] \in {"open", "ended"} /\ m.kind \notin Faults /\ ~ last.read =>
       \/ c \in last.took
       \/ c \in last.reached /\ state[c] = "ended"
       \/ By(c) \in last.shelved
       \/ m.ord # Unspecified /\ \E d \in last.reached : AboutItsOrder(d, m)
       \/ m.kind = "ExecutionDataEnd" /\ \E d \in last.reached : By(d) = "order" /\ id[d] = m.req

\* A fault tells a number and not of what.  Where a request and an order have the
\* same one, the fault of the order may be taken by the request, or the other's by
\* those who follow the order.
Mistaken(c, m) ==
  /\ m.kind \in Faults /\ m.req = id[c]
  /\ By(c) = IF m.ord = Unspecified THEN "order" ELSE "request"

\* Nothing strays: what a call takes is its own answer or fault, or about the
\* order it follows, or - for the order update stream - about any order, or on
\* the shared channel it reads, or the commission of an execution it was told of.
\* The one exception is a fault, between a request and an order with one number.
NothingStrays ==
  LET m == last.message
  IN \A c \in last.took :
       \/ c = m.asker
       \/ AboutItsOrder(c, m)
       \/ By(c) = "updates" /\ m.kind \in OrderKinds
       \/ By(c) \in SharedRequests /\ m.req = Unspecified /\ m.kind \in Responses[By(c)]
       \/ m.kind = "CommissionsReport" /\ c \in told[m.ord]
       \/ Mistaken(c, m)

\* A commission follows its execution: the report of a commission is taken by
\* every call that took the last report of that execution and is still open,
\* whatever has since become of the order's and the request's entries.
CommissionsFollow ==
  LET m == last.message
  IN m.kind = "CommissionsReport" /\ m.asker = None /\ ~ last.read =>
       \A c \in told[m.ord] : state[c] = "open" /\ m.kind \in Api[api[c]].takes => c \in last.took

\* Every follower of an order is told of its events.  In the synchronous client
\* a second subscription of an order takes the place of the first, and the drop of
\* either takes the entry: there only an order's one subscription can count on it.
FollowersAreTold ==
  LET m == last.message
  IN m.asker = None /\ m.kind \in {"OpenOrder", "OrderStatus", "ExecutionData"} /\ ~ last.read =>
       \A c \in Callers :
         /\ AboutItsOrder(c, m) /\ state[c] = "open"
         /\ \/ transport = "async"
            \/ \A d \in Callers \ {c} : ~ AboutItsOrder(d, m)
         => c \in last.reached
===============================================================================
