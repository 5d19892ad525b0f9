--------------------------- MODULE DeliveryProofs ---------------------------
(***************************************************************************)
(* The way of a message from the broker to its reader, in the two steps    *)
(* that Routing and AsyncSubscription model.                               *)
(*                                                                         *)
(* Routing: that every message finds whom it is for, in both clients, for  *)
(* any number of callers, any ids and queues of any length.                *)
(*                                                                         *)
(* AsyncSubscription: that the subscriptions of the asynchronous client    *)
(* keep the promise of AnswerStream, for any number of clones, any         *)
(* capacity of the channel and any number of messages; and what may be     *)
(* said of their cancellation.                                             *)
(***************************************************************************)
EXTENDS Routing, AsyncSubscription, TLAPS

-------------------------------------------------------------------------------
(* The tables.  What the dispatcher, the table of shared channels and the      *)
(* decoders of the API have to agree on, kind by kind.                         *)

\* The shared requests that some call of the API makes.
UsedRequests ==
  SharedRequests \ {"RequestPositionsMulti", "RequestMarketDataType", "RequestWshMetaData",
                    "RequestWshEventData"}
OrderLists ==
  {"RequestOpenOrders", "RequestAllOpenOrders", "RequestAutoOpenOrders", "RequestCompletedOrders"}
OrderListApis == {"open_orders", "all_open_orders", "auto_open_orders", "completed_orders"}

\* The kinds that may answer a request by its id.
AskedKinds == RequestIdKinds \ {"OpenOrder"}

Agrees(a, call) ==
  /\ call.by \in {"request", "order", "updates", "nothing"} \cup UsedRequests
  /\ call.by = "request" => call.takes \subseteq AskedKinds \cup {"CommissionsReport"}
  /\ call.by = "updates" => call.takes = OrderKinds
  /\ call.by = "order" => call.takes \subseteq OrderKinds
  /\ call.by \in UsedRequests \ OrderLists => call.takes \subseteq Responses[call.by]
  /\ call.by \in OrderLists => call.takes = OrderListKinds
  /\ call.by \in OrderLists <=> a \in OrderListApis
  /\ call.by = "RequestCompletedOrders" <=> a = "completed_orders"

AllAgree(table) == \A a \in DOMAIN table : Agrees(a, table[a])

\* The names of the shared requests, and those a call of the API makes.
LEMMA SharedNames ==
  /\ SharedRequests =
       {"RequestIds", "RequestFamilyCodes", "RequestMarketRule", "RequestPositions", "RequestPositionsMulti",
        "RequestOpenOrders", "RequestAllOpenOrders", "RequestAutoOpenOrders", "RequestCompletedOrders",
        "RequestManagedAccounts", "RequestAccountData", "RequestMarketDataType", "RequestMktDepthExchanges",
        "RequestCurrentTime", "RequestCurrentTimeInMillis", "RequestNewsProviders", "RequestNewsBulletins",
        "RequestScannerParameters", "RequestWshMetaData", "RequestWshEventData"}
  /\ UsedRequests =
       {"RequestIds", "RequestFamilyCodes", "RequestMarketRule", "RequestPositions",
        "RequestOpenOrders", "RequestAllOpenOrders", "RequestAutoOpenOrders", "RequestCompletedOrders",
        "RequestManagedAccounts", "RequestAccountData", "RequestMktDepthExchanges",
        "RequestCurrentTime", "RequestCurrentTimeInMillis", "RequestNewsProviders", "RequestNewsBulletins",
        "RequestScannerParameters"}
<1>1. SharedRequests = DOMAIN Responses
  BY DEF SharedRequests
<1> QED  BY <1>1 DEF UsedRequests, Responses

\* What each table says of its calls agrees with the indices of the messages.
LEMMA TablesAgree == \A table \in Tables : AllAgree(table)
<1> USE SharedNames DEF AllAgree, Agrees, Stream, Once, OrderLists, OrderListApis, Responses,
        AskedKinds, RequestIdKinds, RequestIdKindsWithoutDataType
<1>1. AllAgree(AccountApis)
  BY DEF AccountApis
<1>2. AllAgree(ContractApis)
  BY DEF ContractApis
<1>3. AllAgree(RealtimeApis)
  BY DEF RealtimeApis
<1>4. AllAgree(HistoricalApis)
  BY DEF HistoricalApis
<1>5. AllAgree(NewsApis)
  BY DEF NewsApis
<1>6. AllAgree(ScannerApis)
  BY DEF ScannerApis
<1>7. AllAgree(WshApis)
  BY DEF WshApis
<1>8. AllAgree(DisplayGroupApis)
  BY DEF DisplayGroupApis
<1>9. AllAgree(OrderApis)
  BY DEF OrderApis, OrderList, OrderKinds
<1> HIDE DEF AllAgree
<1> QED  BY <1>1, <1>2, <1>3, <1>4, <1>5, <1>6, <1>7, <1>8, <1>9 DEF Tables

\* So does what the API says of each call.
LEMMA CallsAgree == \A a \in Apis : Agrees(a, Api[a])
<1> SUFFICES ASSUME NEW a \in Apis PROVE Agrees(a, Api[a])
  OBVIOUS
<1> DEFINE table == CHOOSE t \in Tables : a \in DOMAIN t
<1>1. \E t \in Tables : a \in DOMAIN t
  BY DEF Apis
<1>2. table \in Tables /\ a \in DOMAIN table
  BY <1>1
<1>3. Api[a] = table[a]
  BY DEF Api
<1> QED  BY <1>2, <1>3, TablesAgree DEF AllAgree

\* What answers a call is what it takes, and is asked by request id or shared.
LEMMA AnswerKinds ==
  ASSUME NEW a \in Apis, NEW k \in Answers(a)
  PROVE  /\ k \in Api[a].takes
         /\ \/ Api[a].by = "request" /\ k \in AskedKinds
            \/ Api[a].by \in UsedRequests /\ k \in Responses[Api[a].by]
<1> DEFINE call == Api[a]
<1>0. Agrees(a, call)
  BY CallsAgree
<1>1. CASE call.by \in {"order", "updates", "nothing"}
  <2>1. call.by \notin OrderLists
    BY <1>1 DEF OrderLists
  <2>2. a \notin OrderListApis
    BY <1>0, <2>1 DEF Agrees
  <2> QED  BY <1>1, <2>2 DEF Answers, OrderListApis
<1>2. CASE call.by = "request"
  <2>1. call.by \notin OrderLists
    BY <1>2 DEF OrderLists
  <2>2. a \notin OrderListApis
    BY <1>0, <2>1 DEF Agrees
  <2>3. Answers(a) = call.takes \ {"CommissionsReport"}
    BY <1>2, <2>2 DEF Answers, OrderListApis
  <2> QED  BY <1>0, <1>2, <2>3 DEF Agrees
<1>3. CASE call.by \in UsedRequests \ OrderLists
  <2>1. a \notin OrderListApis
    BY <1>0, <1>3 DEF Agrees
  <2>2. call.by \notin {"order", "updates", "nothing"}
    BY <1>3, SharedNames
  <2>3. Answers(a) = call.takes \ {"CommissionsReport"}
    BY <2>1, <2>2 DEF Answers, OrderListApis
  <2> QED  BY <1>0, <1>3, <2>3 DEF Agrees
<1>4. CASE call.by \in OrderLists
  <2>1. call.takes = OrderListKinds /\ a \in OrderListApis /\ call.by \in UsedRequests
    BY <1>0, <1>4, SharedNames DEF Agrees, OrderLists
  <2>2. CASE a = "completed_orders"
    <3>1. call.by = "RequestCompletedOrders"
      BY <1>0, <2>2 DEF Agrees
    <3> QED  BY <2>1, <2>2, <3>1 DEF Answers, OrderListKinds, Responses
  <2>3. CASE a # "completed_orders"
    <3>1. call.by \in OrderLists \ {"RequestCompletedOrders"}
      BY <1>0, <1>4, <2>3 DEF Agrees
    <3>2. Answers(a) = OpenOrderKinds
      BY <2>1, <2>3 DEF Answers, OrderListApis
    <3> QED  BY <2>1, <3>1, <3>2 DEF OrderListKinds, OpenOrderKinds, Responses, OrderLists
  <2> QED  BY <2>2, <2>3
<1> QED  BY <1>0, <1>1, <1>2, <1>3, <1>4 DEF Agrees


\* How the kinds are addressed: the tests of determine_routing, in their order.
LEMMA Destinations ==
  ASSUME NEW k
  PROVE  /\ k \in Faults => Destination(k) = "Error"
         /\ k \notin Faults /\ IsOrderMessage(k) => Destination(k) = "ByOrderId"
         /\ k \notin Faults /\ ~ IsOrderMessage(k) /\ IsSharedMessage(k) => Destination(k) = "Shared"
         /\ k \notin Faults /\ ~ IsOrderMessage(k) /\ ~ IsSharedMessage(k) /\ k \in RequestIdKinds
              => Destination(k) = "ByRequestId"
         /\ k \notin Faults /\ ~ IsOrderMessage(k) /\ ~ IsSharedMessage(k) /\ k \notin RequestIdKinds
              => Destination(k) = "Shared"
<1>1. k \in Faults => Destination(k) = "Error"
  BY DEF Destination, IsOrderMessage, IsSharedMessage, Faults
<1>2. k \notin Faults /\ IsOrderMessage(k) => Destination(k) = "ByOrderId"
  BY DEF Destination, IsOrderMessage, IsSharedMessage, Faults
<1>3. k \notin Faults /\ ~ IsOrderMessage(k) /\ IsSharedMessage(k) => Destination(k) = "Shared"
  BY DEF Destination
<1>4. k \notin Faults /\ ~ IsOrderMessage(k) /\ ~ IsSharedMessage(k) /\ k \in RequestIdKinds
              => Destination(k) = "ByRequestId"
  BY DEF Destination
<1>5. k \notin Faults /\ ~ IsOrderMessage(k) /\ ~ IsSharedMessage(k) /\ k \notin RequestIdKinds
              => Destination(k) = "Shared"
  BY DEF Destination
<1> QED  BY <1>1, <1>2, <1>3, <1>4, <1>5

\* Where the dispatcher sends the kinds that answer a request by its id.
LEMMA AskedKindsRouted ==
  ASSUME NEW k \in AskedKinds
  PROVE  /\ \/ Destination(k) = "ByRequestId"
            \/ k \in {"ExecutionData", "ExecutionDataEnd"} /\ Destination(k) = "ByOrderId" /\ Strategy(k) = k
         /\ k \notin Faults \cup {"", "OpenOrder", "OrderStatus", "CommissionsReport"}
         /\ \A r \in UsedRequests : k \notin Responses[r]
<1>1. \A r \in UsedRequests : k \notin Responses[r]
  BY SharedNames DEF AskedKinds, RequestIdKinds, RequestIdKindsWithoutDataType, Responses, OpenOrderKinds
<1>2. k \notin Faults \cup {"", "OpenOrder", "OrderStatus", "CommissionsReport"} /\ ~ IsSharedMessage(k)
  BY DEF AskedKinds, RequestIdKinds, RequestIdKindsWithoutDataType, Faults, IsSharedMessage
<1>3. IsOrderMessage(k) <=> k \in {"ExecutionData", "ExecutionDataEnd"}
  BY DEF AskedKinds, RequestIdKinds, RequestIdKindsWithoutDataType, IsOrderMessage
<1>4. k \in {"ExecutionData", "ExecutionDataEnd"} => Strategy(k) = k
  BY DEF Strategy
<1> QED
  BY <1>1, <1>2, <1>3, <1>4, Destinations DEF AskedKinds

\* Where it sends those that answer a shared request.
LEMMA SharedKindsRouted ==
  ASSUME NEW r \in UsedRequests, NEW k \in Responses[r]
  PROVE  /\ \/ Destination(k) = "Shared" /\ k \notin {"OpenOrder", "OrderStatus"}
            \/ Destination(k) = "ByOrderId" /\ Strategy(k) = "SharedOnly" /\ k \notin {"OpenOrder", "OrderStatus"}
            \/ Destination(k) = "ByOrderId" /\ Strategy(k) = "OrderOrShared" /\ k \in {"OpenOrder", "OrderStatus"}
         /\ k \notin Faults \cup {"", "ExecutionData", "ExecutionDataEnd", "CommissionsReport"}
<1>1. k \in {"NextValidId", "FamilyCodes", "MarketRule", "Position", "PositionEnd", "OpenOrder",
             "OrderStatus", "OpenOrderEnd", "CompletedOrder", "CompletedOrdersEnd", "ManagedAccounts",
             "AccountValue", "PortfolioValue", "AccountDownloadEnd", "AccountUpdateTime",
             "MktDepthExchanges", "CurrentTime", "CurrentTimeInMillis", "NewsProviders",
             "NewsBulletins", "ScannerParameters"}
  BY SharedNames DEF Responses, OpenOrderKinds
<1>2. k \notin Faults \cup {"", "ExecutionData", "ExecutionDataEnd", "CommissionsReport"}
  BY <1>1 DEF Faults
<1>3. CASE k \in {"OpenOrder", "OrderStatus", "OpenOrderEnd", "CompletedOrder", "CompletedOrdersEnd"}
  <2>1. IsOrderMessage(k)
    BY <1>3 DEF IsOrderMessage
  <2>2. Strategy(k) = IF k \in {"OpenOrder", "OrderStatus"} THEN "OrderOrShared" ELSE "SharedOnly"
    BY <1>3 DEF Strategy
  <2> QED  BY <1>2, <2>1, <2>2, Destinations
<1>4. CASE k \notin {"OpenOrder", "OrderStatus", "OpenOrderEnd", "CompletedOrder", "CompletedOrdersEnd"}
  <2>1. ~ IsOrderMessage(k)
    BY <1>1, <1>4 DEF IsOrderMessage
  <2>2. k \notin RequestIdKinds
    BY <1>1, <1>4 DEF RequestIdKinds, RequestIdKindsWithoutDataType
  <2>3. Destination(k) = "Shared"
    BY <1>2, <2>1, <2>2, Destinations
  <2> QED  BY <1>2, <1>4, <2>3
<1> QED  BY <1>3, <1>4

\* Where it sends the events of an order.
LEMMA OrderKindsRouted ==
  ASSUME NEW k \in OrderKinds
  PROVE  /\ Destination(k) = "ByOrderId"
         /\ \/ k \in {"OpenOrder", "OrderStatus"} /\ Strategy(k) = "OrderOrShared"
            \/ k = "ExecutionData" /\ Strategy(k) = "ExecutionData"
            \/ k = "CommissionsReport" /\ Strategy(k) = "ByExecutionId"
         /\ k \notin Faults \cup {"", "ExecutionDataEnd"}
<1>1. k \in {"OpenOrder", "OrderStatus", "ExecutionData", "CommissionsReport"}
  BY DEF OrderKinds
<1>2. k \notin Faults \cup {"", "ExecutionDataEnd"}
  BY <1>1 DEF Faults
<1>3. IsOrderMessage(k)
  BY <1>1 DEF IsOrderMessage
<1>4. \/ k \in {"OpenOrder", "OrderStatus"} /\ Strategy(k) = "OrderOrShared"
      \/ k = "ExecutionData" /\ Strategy(k) = "ExecutionData"
      \/ k = "CommissionsReport" /\ Strategy(k) = "ByExecutionId"
  BY <1>1 DEF Strategy
<1> QED  BY <1>2, <1>3, <1>4, Destinations

\* Where it sends faults.
LEMMA FaultsRouted ==
  ASSUME NEW k \in Faults
  PROVE  /\ Destination(k) = "Error"
         /\ k \notin OrderKinds \cup {"", "ExecutionDataEnd"}
BY Destinations DEF Faults, OrderKinds

-------------------------------------------------------------------------------
(* The calls, and what the broker sends about them.                            *)

\* What is known of a call that was made.
LEMMA CallerFacts ==
  ASSUME TypeOK, NEW c \in Callers
  PROVE  /\ api[c] = None => By(c) = ""
         /\ api[c] # None =>
              /\ api[c] \in Apis /\ By(c) = Api[api[c]].by
              /\ By(c) \in {"request", "order", "updates", "nothing"} \cup UsedRequests
              /\ By(c) = "updates" => Api[api[c]].takes = OrderKinds
              /\ By(c) = "order" => Api[api[c]].takes \subseteq OrderKinds
<1>1. api[c] \in Apis \cup {None}
  BY DEF TypeOK
<1>2. CASE api[c] # None
  <2>1. Agrees(api[c], Api[api[c]])
    BY <1>1, <1>2, CallsAgree
  <2>2. By(c) = Api[api[c]].by
    BY <1>2 DEF By
  <2> QED  BY <1>1, <1>2, <2>1, <2>2 DEF Agrees
<1>3. CASE api[c] = None
  BY <1>3 DEF By
<1> QED  BY <1>2, <1>3

\* Ids are numbers, and none is the unspecified one.
LEMMA IdFacts ==
  /\ Ids \subseteq Nat /\ Unspecified \notin Ids /\ Unspecified \in Int
  /\ RequestIds \subseteq Ids /\ OrderIds \subseteq Ids
BY BoundsAssumption DEF Ids, RequestIds, Unspecified

\* A message is a fault of a call, an answer to one, an event of an order, or a
\* warning about nothing.
IsFaultOf(m, c) ==
  /\ m.kind \in Faults /\ m.asker = c /\ m.req = id[c] /\ id[c] # Unspecified
  /\ m.ord = IF By(c) = "request" THEN Unspecified ELSE id[c]
IsAnswerTo(m, c) ==
  /\ api[c] # None /\ m.kind \in Answers(api[c]) /\ m.asker = c /\ m.ord \in OrdersOf(m.kind)
  /\ m.req = IF By(c) = "request" THEN id[c] ELSE Unspecified
IsEvent(m) ==
  /\ m.kind \in OrderKinds /\ m.asker = None /\ m.req = Unspecified
  /\ m.ord \in IF m.kind = "CommissionsReport" THEN filled ELSE placed

\* A message the broker sends is an answer, a fault, an event or a warning.
LEMMA SentMessages ==
  ASSUME NEW m \in Sent
  PROVE  /\ m = [kind |-> m.kind, asker |-> m.asker, req |-> m.req, ord |-> m.ord]
         /\ \/ \E c \in Callers : IsFaultOf(m, c) \/ IsAnswerTo(m, c)
            \/ IsEvent(m)
            \/ m = [Nothing EXCEPT !.kind = "Warning"]
<1>1. ASSUME NEW c \in Callers, m \in AnswersTo(c)
      PROVE  /\ m = [kind |-> m.kind, asker |-> m.asker, req |-> m.req, ord |-> m.ord]
             /\ IsAnswerTo(m, c)
  <2>1. api[c] # None
    BY <1>1 DEF AnswersTo
  <2>2. PICK k \in Answers(api[c]) :
           m \in {[kind |-> k, asker |-> c, ord |-> o,
                   req |-> IF By(c) = "request" THEN id[c] ELSE Unspecified] : o \in OrdersOf(k)}
    BY <1>1 DEF AnswersTo
  <2>3. PICK o \in OrdersOf(k) :
           m = [kind |-> k, asker |-> c, ord |-> o,
                req |-> IF By(c) = "request" THEN id[c] ELSE Unspecified]
    BY <2>2
  <2> QED  BY <2>1, <2>3 DEF IsAnswerTo
<1>2. ASSUME NEW c \in Callers, m \in FaultsOf(c)
      PROVE  /\ m = [kind |-> m.kind, asker |-> m.asker, req |-> m.req, ord |-> m.ord]
             /\ IsFaultOf(m, c)
  <2>1. id[c] # Unspecified
    BY <1>2 DEF FaultsOf
  <2>2. PICK k \in Faults :
           m = [kind |-> k, asker |-> c, req |-> id[c],
                ord |-> IF By(c) = "request" THEN Unspecified ELSE id[c]]
    BY <1>2 DEF FaultsOf
  <2> QED  BY <2>1, <2>2 DEF IsFaultOf
<1>3. ASSUME m \in OrderEvents
      PROVE  /\ m = [kind |-> m.kind, asker |-> m.asker, req |-> m.req, ord |-> m.ord]
             /\ IsEvent(m)
  <2>1. PICK k \in OrderKinds :
           m \in {[kind |-> k, asker |-> None, req |-> Unspecified, ord |-> o]
                  : o \in IF k = "CommissionsReport" THEN filled ELSE placed}
    BY <1>3 DEF OrderEvents
  <2>2. PICK o \in IF k = "CommissionsReport" THEN filled ELSE placed :
           m = [kind |-> k, asker |-> None, req |-> Unspecified, ord |-> o]
    BY <2>1
  <2> QED  BY <2>2 DEF IsEvent
<1>4. CASE m = [Nothing EXCEPT !.kind = "Warning"]
  BY <1>4 DEF Nothing
<1> QED  BY <1>1, <1>2, <1>3, <1>4 DEF Sent

\* An answer is of a kind its call takes, and names what it answers.
LEMMA AnswerFacts ==
  ASSUME TypeOK, NEW c \in Callers, NEW m, IsAnswerTo(m, c)
  PROVE  /\ api[c] \in Apis /\ m.kind \in Api[api[c]].takes
         /\ \/ By(c) = "request" /\ m.kind \in AskedKinds /\ m.req = id[c]
            \/ By(c) \in UsedRequests /\ m.kind \in Responses[By(c)] /\ m.req = Unspecified
         /\ m.kind \notin {"", "CommissionsReport"} \cup Faults
         /\ m.kind \in {"OpenOrder", "OrderStatus"} => m.ord \in placed
         /\ m.kind = "ExecutionData" => m.ord \in filled
         /\ m.kind \notin {"OpenOrder", "OrderStatus", "ExecutionData"} => m.ord = Unspecified
<1>1. api[c] \in Apis /\ By(c) = Api[api[c]].by /\ m.kind \in Answers(api[c])
  BY CallerFacts DEF IsAnswerTo
<1>2. /\ m.kind \in Api[api[c]].takes
      /\ \/ By(c) = "request" /\ m.kind \in AskedKinds
         \/ By(c) \in UsedRequests /\ m.kind \in Responses[By(c)]
  BY <1>1, AnswerKinds
<1>3. m.kind \notin {"", "CommissionsReport"} \cup Faults
  BY <1>2, AskedKindsRouted, SharedKindsRouted
<1>4. "request" \notin UsedRequests
  BY SharedNames
<1>5. \/ By(c) = "request" /\ m.kind \in AskedKinds /\ m.req = id[c]
      \/ By(c) \in UsedRequests /\ m.kind \in Responses[By(c)] /\ m.req = Unspecified
  BY <1>2, <1>4 DEF IsAnswerTo
<1>6. m.ord \in OrdersOf(m.kind)
  BY DEF IsAnswerTo
<1>7. m.kind \in {"OpenOrder", "OrderStatus"} => m.ord \in placed
  BY <1>6 DEF OrdersOf
<1>8. m.kind = "ExecutionData" => m.ord \in filled
  BY <1>6 DEF OrdersOf
<1>9. m.kind \notin {"OpenOrder", "OrderStatus", "ExecutionData"} => m.ord = Unspecified
  BY <1>3, <1>6 DEF OrdersOf
<1> QED  BY <1>1, <1>2, <1>3, <1>5, <1>7, <1>8, <1>9

\* Every message the broker sends is a message.
LEMMA SentTypes ==
  ASSUME TypeOK, NEW m \in Sent
  PROVE  m \in Message /\ (m.kind = "ExecutionData" => m.ord \in placed)
<1>a. placed \subseteq OrderIds /\ filled \subseteq placed /\ \A c \in Callers : id[c] \in Ids \cup {Unspecified}
  BY DEF TypeOK
<1>b. OrderIds \subseteq Int /\ Ids \subseteq Int
  BY IdFacts
<1>0. placed \subseteq Int /\ filled \subseteq placed /\ \A c \in Callers : id[c] \in Int
  BY <1>a, <1>b, IdFacts
<1>1. m = [kind |-> m.kind, asker |-> m.asker, req |-> m.req, ord |-> m.ord]
  BY SentMessages
<1>2. ASSUME NEW c \in Callers, IsFaultOf(m, c)
      PROVE  m \in Message /\ m.kind # "ExecutionData"
  <2>1. m.kind \in Kinds /\ m.kind # "ExecutionData"
    BY <1>2 DEF IsFaultOf, Kinds, Faults
  <2>2. m.asker \in CallerOrNone /\ m.req \in Int /\ m.ord \in Int
    BY <1>0, <1>2, IdFacts DEF IsFaultOf, CallerOrNone
  <2> QED  BY <1>1, <2>1, <2>2 DEF Message
<1>3. ASSUME NEW c \in Callers, IsAnswerTo(m, c)
      PROVE  m \in Message /\ (m.kind = "ExecutionData" => m.ord \in placed)
  <2>1. m.kind \in Kinds
    <3>1. api[c] \in Apis /\ m.kind \in Answers(api[c])
      BY <1>3, CallerFacts DEF IsAnswerTo
    <3> QED  BY <3>1 DEF Kinds
  <2>2. m.ord \in placed \cup {Unspecified}
    BY <1>0, <1>3, AnswerFacts
  <2>3. m.kind = "ExecutionData" => m.ord \in placed
    BY <1>0, <1>3, AnswerFacts
  <2>4. m.asker \in CallerOrNone /\ m.req \in Int
    BY <1>0, <1>3, IdFacts DEF IsAnswerTo, CallerOrNone
  <2> QED  BY <1>0, <1>1, <2>1, <2>2, <2>3, <2>4, IdFacts DEF Message
<1>4. ASSUME IsEvent(m) PROVE m \in Message /\ m.ord \in placed
  BY <1>0, <1>1, <1>4, IdFacts DEF IsEvent, Message, Kinds, CallerOrNone
<1>5. ASSUME m = [Nothing EXCEPT !.kind = "Warning"] PROVE m \in Message /\ m.kind # "ExecutionData"
  BY <1>5, IdFacts DEF Nothing, Message, Kinds, Faults, CallerOrNone
<1> QED  BY <1>2, <1>3, <1>4, <1>5, SentMessages

-------------------------------------------------------------------------------
(* The types. *)

\* So is the one that was never routed.
LEMMA NoRoutingType ==
  NoRouting \in [message : Message, reached : SUBSET Callers, took : SUBSET Callers,
                 shelved : SUBSET SharedRequests, read : BOOLEAN]
BY IdFacts DEF NoRouting, Nothing, Message, CallerOrNone

\* What a call changes, and that no other call is touched by it.
LEMMA MakesFacts ==
  ASSUME TypeOK, NEW c \in Callers, NEW a, NEW st, NEW i, NEW f, Makes(c, a, st, i, f)
  PROVE  /\ a \in Apis /\ a # None /\ api[c] = None
         /\ api'[c] = a /\ state'[c] = st /\ id'[c] = i /\ founder'[c] = f
         /\ \A d \in Callers \ {c} :
              api'[d] = api[d] /\ state'[d] = state[d] /\ id'[d] = id[d] /\ founder'[d] = founder[d]
         /\ last' = NoRouting
         /\ UNCHANGED <<transport, executions, shelf, filled, told, silent>>
<1>1. a \in Apis /\ a # None
  BY CallersAssumption DEF Makes
<1>2. /\ api' = [api EXCEPT ![c] = a] /\ state' = [state EXCEPT ![c] = st]
      /\ id' = [id EXCEPT ![c] = i] /\ founder' = [founder EXCEPT ![c] = f]
      /\ api[c] = None /\ last' = NoRouting
      /\ UNCHANGED <<transport, executions, shelf, filled, told, silent>>
  BY DEF Makes
<1> QED  BY <1>1, <1>2 DEF TypeOK

\* By which kind of id its answers are addressed.
LEMMA MakesBy ==
  ASSUME TypeOK, NEW c \in Callers, NEW a, NEW st, NEW i, NEW f, Makes(c, a, st, i, f)
  PROVE  /\ By(c) = "" /\ Api[a].by \in {"request", "order", "updates", "nothing"} \cup UsedRequests
         /\ \A d \in Callers : By(d)' = IF d = c THEN Api[a].by ELSE By(d)
<1>1. a \in Apis /\ a # None /\ api[c] = None /\ api'[c] = a
  BY MakesFacts
<1>2. \A d \in Callers \ {c} : api'[d] = api[d]
  BY MakesFacts
<1>3. Agrees(a, Api[a])
  BY <1>1, CallsAgree
<1> QED  BY <1>1, <1>2, <1>3 DEF Agrees, By

\* Making a call keeps the types of what it changes.
LEMMA MakesTypes ==
  ASSUME TypeOK, NEW c \in Callers, NEW a, NEW st \in States, NEW i \in Ids \cup {Unspecified},
         NEW f \in CallerOrNone, Makes(c, a, st, i, f),
         i # Unspecified <=> Api[a].by \in {"request", "order", "nothing"},
         requests' \in [Ids -> CallerOrNone], orders' \in [Ids -> CallerOrNone],
         stream' \in CallerOrNone, nextRequest' \in Nat,
         placed' \subseteq OrderIds, placed \subseteq placed'
  PROVE  TypeOK'
<1>1. /\ api' \in [Callers -> Apis \cup {None}] /\ state' \in [Callers -> States]
      /\ id' \in [Callers -> Ids \cup {Unspecified}] /\ founder' \in [Callers -> CallerOrNone]
  <2>1. /\ api' = [api EXCEPT ![c] = a] /\ state' = [state EXCEPT ![c] = st]
        /\ id' = [id EXCEPT ![c] = i] /\ founder' = [founder EXCEPT ![c] = f]
    BY DEF Makes
  <2>2. a \in Apis
    BY MakesFacts
  <2> QED  BY <2>1, <2>2 DEF TypeOK
<1>2. \A d \in Callers : id'[d] # Unspecified <=> By(d)' \in {"request", "order", "nothing"}
  <2> SUFFICES ASSUME NEW d \in Callers
               PROVE  id'[d] # Unspecified <=> By(d)' \in {"request", "order", "nothing"}
    OBVIOUS
  <2>1. CASE d = c
    <3>1. id'[d] = i
      BY <2>1, MakesFacts
    <3>2. By(d)' = Api[a].by
      BY <2>1, MakesBy
    <3> QED  BY <3>1, <3>2
  <2>2. CASE d # c
    <3>1. id'[d] = id[d]
      BY <2>2, MakesFacts
    <3>2. By(d)' = By(d)
      BY <2>2, MakesBy
    <3> QED  BY <3>1, <3>2 DEF TypeOK
  <2> QED  BY <2>1, <2>2
<1>3. UNCHANGED <<transport, executions, shelf, filled, told, silent>> /\ last' = NoRouting
  BY MakesFacts
<1> QED  BY <1>1, <1>2, <1>3, NoRoutingType DEF TypeOK

\* Every way of making a call keeps the types.
LEMMA CallTypes ==
  ASSUME TypeOK, NEW c \in Callers, Call(c)
  PROVE  TypeOK'
<1> PICK a \in Asked[c] :
      Request(c, a) \/ OrderRequest(c, a) \/ Submit(c, a) \/ SharedRequest(c, a) \/ Updates(c, a)
  BY DEF Call
<1>0. /\ requests \in [Ids -> CallerOrNone] /\ orders \in [Ids -> CallerOrNone]
      /\ stream \in CallerOrNone /\ nextRequest \in Nat
      /\ placed \subseteq OrderIds /\ c \in CallerOrNone /\ None \in CallerOrNone
      /\ {"open", "dropped"} \subseteq States
  BY DEF TypeOK, CallerOrNone, States
<1>1. CASE Request(c, a)
  <2>1. /\ Makes(c, a, "open", nextRequest, c) /\ nextRequest \in Ids
        /\ Api[a].by = "request"
        /\ requests' = [requests EXCEPT ![nextRequest] = c] /\ nextRequest' = nextRequest + 1
        /\ UNCHANGED <<orders, stream, placed>>
    BY <1>1, IdFacts DEF Request
  <2>2. requests' \in [Ids -> CallerOrNone] /\ nextRequest' \in Nat
    BY <1>0, <2>1
  <2> QED  BY <1>0, <2>1, <2>2, IdFacts, MakesTypes
<1>2. CASE OrderRequest(c, a)
  <2>1. PICK o \in OrderOf(a) :
          /\ Makes(c, a, "open", o, IF transport = "async" /\ Listeners(orders[o]) # {} THEN orders[o] ELSE c)
          /\ Api[a].by = "order"
          /\ orders' = [orders EXCEPT
                         ![o] = IF transport = "async" /\ Listeners(orders[o]) # {} THEN orders[o] ELSE c]
          /\ placed' = placed \cup {o}
          /\ UNCHANGED <<requests, stream, nextRequest>>
    BY <1>2 DEF OrderRequest
  <2>2. o \in OrderIds
    BY <1>0 DEF OrderOf
  <2>3. orders[o] \in CallerOrNone
    BY <1>0, <2>2, IdFacts
  <2>4. (IF transport = "async" /\ Listeners(orders[o]) # {} THEN orders[o] ELSE c) \in CallerOrNone
    BY <1>0, <2>3
  <2>5. orders' \in [Ids -> CallerOrNone]
    BY <1>0, <2>1, <2>4
  <2>6. placed' \subseteq OrderIds /\ placed \subseteq placed' /\ o \in Ids /\ o # Unspecified
    BY <1>0, <2>1, <2>2, IdFacts
  <2> QED  BY <1>0, <2>1, <2>4, <2>5, <2>6, MakesTypes
<1>3. CASE Submit(c, a)
  <2>1. PICK o \in OrderOf(a) :
          /\ Makes(c, a, "dropped", o, None)
          /\ Api[a].by = "nothing"
          /\ placed' = placed \cup {o}
          /\ UNCHANGED <<requests, orders, stream, nextRequest>>
    BY <1>3 DEF Submit
  <2>2. o \in OrderIds
    BY <1>0 DEF OrderOf
  <2>3. placed' \subseteq OrderIds /\ placed \subseteq placed' /\ o \in Ids /\ o # Unspecified
    BY <1>0, <2>1, <2>2, IdFacts
  <2> QED  BY <1>0, <2>1, <2>3, MakesTypes
<1>4. CASE SharedRequest(c, a)
  <2>1. /\ Makes(c, a, "open", Unspecified, None) /\ Api[a].by \in SharedRequests
        /\ UNCHANGED <<requests, orders, stream, nextRequest, placed>>
    BY <1>4 DEF SharedRequest
  <2>2. Api[a].by \notin {"request", "order", "nothing"}
    BY <2>1, SharedNames
  <2> QED  BY <1>0, <2>1, <2>2, IdFacts, MakesTypes
<1>5. CASE Updates(c, a)
  <2>1. /\ Makes(c, a, "open", Unspecified, c) /\ Api[a].by = "updates" /\ stream' = c
        /\ UNCHANGED <<requests, orders, nextRequest, placed>>
    BY <1>5 DEF Updates
  <2> QED  BY <1>0, <2>1, IdFacts, MakesTypes
<1> QED  BY <1>1, <1>2, <1>3, <1>4, <1>5

\* What is common to the steps after which the calls are the same.
SameCalls == UNCHANGED <<transport, api, id, founder>>

\* What leaves the calls alone leaves how each is addressed alone.
LEMMA SameCallsFacts ==
  ASSUME TypeOK, SameCalls, NEW c \in Callers
  PROVE  By(c)' = By(c)
BY DEF SameCalls, By

\* It keeps the types, if the rest of what it changes does.
LEMMA SameCallsTypes ==
  ASSUME TypeOK, SameCalls, state' \in [Callers -> States],
         requests' \in [Ids -> CallerOrNone], orders' \in [Ids -> CallerOrNone],
         executions' \in [Ids -> CallerOrNone], stream' \in CallerOrNone,
         shelf' \in [SharedRequests -> Seq(Message)],
         UNCHANGED <<nextRequest, placed>>,
         filled' \subseteq placed, told' \in [Ids -> SUBSET Callers], silent' \subseteq Callers,
         last' \in [message : Message, reached : SUBSET Callers, took : SUBSET Callers,
                    shelved : SUBSET SharedRequests, read : BOOLEAN]
  PROVE  TypeOK'
<1>1. \A c \in Callers : id'[c] # Unspecified <=> By(c)' \in {"request", "order", "nothing"}
  <2> SUFFICES ASSUME NEW c \in Callers
               PROVE  id'[c] # Unspecified <=> By(c)' \in {"request", "order", "nothing"}
    OBVIOUS
  <2>1. id'[c] = id[c] /\ By(c)' = By(c)
    BY SameCallsFacts DEF SameCalls
  <2> QED  BY <2>1 DEF TypeOK
<1> QED  BY <1>1 DEF TypeOK, SameCalls

\* A cleanup leaves a table of callers.
LEMMA ReleasedType ==
  ASSUME NEW table \in [Ids -> CallerOrNone], NEW c
  PROVE  Released(table, c) \in [Ids -> CallerOrNone]
<1>1. \A i \in Ids : table[i] \in CallerOrNone /\ None \in CallerOrNone
  BY DEF CallerOrNone
<1> QED  BY <1>1 DEF Released

\* A drop keeps the types.
LEMMA DropTypes ==
  ASSUME TypeOK, NEW c \in Callers, Drop(c)
  PROVE  TypeOK'
<1>1. /\ SameCalls
      /\ UNCHANGED <<executions, shelf, nextRequest, placed, filled, told, silent>>
      /\ last' = NoRouting
      /\ state' = [state EXCEPT ![c] = "dropped"]
      /\ requests' = IF By(c) = "request" THEN Released(requests, c) ELSE requests
      /\ orders' = IF By(c) = "order" THEN Released(orders, c) ELSE orders
      /\ stream' = IF By(c) = "updates" THEN None ELSE stream
  BY DEF Drop, SameCalls, broker
<1>2. /\ requests' \in [Ids -> CallerOrNone] /\ orders' \in [Ids -> CallerOrNone]
      /\ stream' \in CallerOrNone
  BY <1>1, ReleasedType DEF TypeOK, CallerOrNone
<1>3. state' \in [Callers -> States]
  BY <1>1 DEF TypeOK, States
<1>4. /\ executions \in [Ids -> CallerOrNone] /\ shelf \in [SharedRequests -> Seq(Message)]
      /\ filled \subseteq placed /\ told \in [Ids -> SUBSET Callers] /\ silent \subseteq Callers
  BY DEF TypeOK
<1> QED  BY <1>1, <1>2, <1>3, <1>4, NoRoutingType, SameCallsTypes

\* A routing leaves each call in a state of a call.
LEMMA AfterType ==
  ASSUME TypeOK, NEW took, NEW m
  PROVE  After(took, m) \in [Callers -> States]
<1>1. \A c \in Callers : state[c] \in States /\ "ended" \in States
  BY DEF TypeOK, States
<1> QED  BY <1>1 DEF After

\* What the routing of a message changes.
LEMMA DispatchFacts ==
  ASSUME NEW m, Dispatch(m)
  PROVE  LET took == {c \in Reached(m) : Accepts(c, m)}
             bound == m.kind = "ExecutionData" /\ Channel(m) # None
         IN /\ state' = After(took, m)
            /\ shelf' = [r \in SharedRequests |->
                           IF r \in Shelved(m) THEN Append(shelf[r], m) ELSE shelf[r]]
            /\ executions' = IF bound THEN [executions EXCEPT ![m.ord] = Channel(m)] ELSE executions
            /\ told' = IF bound THEN [told EXCEPT ![m.ord] = took \ {stream}] ELSE told
            /\ filled' = IF m.kind = "ExecutionData" THEN filled \cup {m.ord} ELSE filled
            /\ silent' = IF m.asker # None /\ m.kind \in Finals(api[m.asker])
                           THEN silent \cup {m.asker} ELSE silent
            /\ last' = [message |-> m, reached |-> Reached(m), took |-> took,
                        shelved |-> Shelved(m), read |-> FALSE]
            /\ SameCalls /\ UNCHANGED <<requests, orders, stream, nextRequest, placed>>
BY DEF Dispatch, SameCalls

\* The founder of a channel is a caller, if there is one.
LEMMA ChannelType ==
  ASSUME TypeOK, NEW m
  PROVE  Channel(m) \in CallerOrNone
<1>1. \A i : /\ Entry(requests, i) \in CallerOrNone /\ Entry(orders, i) \in CallerOrNone
             /\ Entry(executions, i) \in CallerOrNone
  BY DEF TypeOK, Entry, CallerOrNone
<1>2. \A i : RequestOrOrder(i) \in CallerOrNone
  BY <1>1 DEF RequestOrOrder
<1>3. ExecutionChannel(m) \in CallerOrNone
  BY <1>1 DEF ExecutionChannel
<1>4. None \in CallerOrNone
  BY DEF CallerOrNone
<1>5. OrderChannel(m) \in CallerOrNone
  BY <1>1, <1>3, <1>4, Zenon DEF OrderChannel
<1> QED  BY <1>1, <1>2, <1>4, <1>5, Zenon DEF Channel

\* Whom a message reaches are callers.
LEMMA ReachedType ==
  ASSUME TypeOK, NEW m
  PROVE  Reached(m) \subseteq Callers /\ Shelved(m) \subseteq SharedRequests
BY DEF TypeOK, Reached, Listeners, Shelved, SharedChannels, ChannelsOf, CallerOrNone

\* Routing a message keeps the types.
LEMMA DispatchTypes ==
  ASSUME TypeOK, NEW m \in Sent, Dispatch(m)
  PROVE  TypeOK'
<1> DEFINE took == {c \in Reached(m) : Accepts(c, m)}
           bound == m.kind = "ExecutionData" /\ Channel(m) # None
<1>1. /\ state' = After(took, m)
      /\ shelf' = [r \in SharedRequests |->
                     IF r \in Shelved(m) THEN Append(shelf[r], m) ELSE shelf[r]]
      /\ executions' = IF bound THEN [executions EXCEPT ![m.ord] = Channel(m)] ELSE executions
      /\ told' = IF bound THEN [told EXCEPT ![m.ord] = took \ {stream}] ELSE told
      /\ filled' = IF m.kind = "ExecutionData" THEN filled \cup {m.ord} ELSE filled
      /\ silent' = IF m.asker # None /\ m.kind \in Finals(api[m.asker])
                     THEN silent \cup {m.asker} ELSE silent
      /\ last' = [message |-> m, reached |-> Reached(m), took |-> took,
                  shelved |-> Shelved(m), read |-> FALSE]
      /\ SameCalls /\ UNCHANGED <<requests, orders, stream, nextRequest, placed>>
  BY DispatchFacts
<1>2. m \in Message /\ (m.kind = "ExecutionData" => m.ord \in placed)
  BY SentTypes
<1>3. took \subseteq Callers /\ Reached(m) \subseteq Callers /\ Shelved(m) \subseteq SharedRequests
  BY ReachedType
<1>4. Channel(m) \in CallerOrNone
  BY ChannelType
<1>5. state' \in [Callers -> States]
  BY <1>1, AfterType
<1> HIDE DEF took, bound
<1>6. shelf' \in [SharedRequests -> Seq(Message)]
  <2>1. \A r \in SharedRequests : shelf[r] \in Seq(Message) /\ Append(shelf[r], m) \in Seq(Message)
    BY <1>2 DEF TypeOK
  <2> QED  BY <1>1, <2>1
<1>7. executions' \in [Ids -> CallerOrNone]
  BY <1>1, <1>4 DEF TypeOK
<1>8. told' \in [Ids -> SUBSET Callers]
  BY <1>1, <1>3 DEF TypeOK
<1>9. filled' \subseteq placed
  BY <1>1, <1>2 DEF TypeOK
<1>10. silent' \subseteq Callers
  BY <1>1, <1>2 DEF TypeOK, Message, CallerOrNone
<1>11. last' \in [message : Message, reached : SUBSET Callers, took : SUBSET Callers,
                  shelved : SUBSET SharedRequests, read : BOOLEAN]
  BY <1>1, <1>2, <1>3
<1>12. /\ requests' \in [Ids -> CallerOrNone] /\ orders' \in [Ids -> CallerOrNone]
       /\ stream' \in CallerOrNone
  BY <1>1 DEF TypeOK
<1> QED  BY <1>1, <1>5, <1>6, <1>7, <1>8, <1>9, <1>10, <1>11, <1>12, SameCallsTypes

\* What a read of a shared queue does.
LEMMA ReadFacts ==
  ASSUME TypeOK, NEW c \in Callers, Read(c)
  PROVE  LET m == Head(shelf[By(c)])
             took == {d \in {c} : Accepts(d, m)}
         IN /\ By(c) \in SharedRequests /\ shelf[By(c)] # <<>> /\ state[c] = "open"
            /\ shelf[By(c)] \in Seq(Message) /\ m \in Message
            /\ state' = After(took, m)
            /\ last' = [message |-> m, reached |-> {c}, took |-> took, shelved |-> {By(c)}, read |-> TRUE]
            /\ shelf' = [shelf EXCEPT ![By(c)] = Tail(shelf[By(c)])]
            /\ SameCalls /\ UNCHANGED <<tables, nextRequest, broker>>
<1>1. shelf[By(c)] \in Seq(Message) /\ shelf[By(c)] # <<>>
  BY DEF Read, TypeOK
<1>2. Head(shelf[By(c)]) \in Message
  BY <1>1
<1> QED  BY <1>1, <1>2 DEF Read, SameCalls

\* A read keeps the types.
LEMMA ReadTypes ==
  ASSUME TypeOK, NEW c \in Callers, Read(c)
  PROVE  TypeOK'
<1> DEFINE m == Head(shelf[By(c)])
           took == {d \in {c} : Accepts(d, m)}
<1>1. /\ By(c) \in SharedRequests /\ shelf[By(c)] # <<>>
      /\ shelf[By(c)] \in Seq(Message) /\ m \in Message
      /\ state' = After(took, m)
      /\ last' = [message |-> m, reached |-> {c}, took |-> took, shelved |-> {By(c)}, read |-> TRUE]
      /\ shelf' = [shelf EXCEPT ![By(c)] = Tail(shelf[By(c)])]
      /\ SameCalls /\ UNCHANGED <<tables, nextRequest, broker>>
  BY ReadFacts
<1>2. took \subseteq Callers
  OBVIOUS
<1>3. state' \in [Callers -> States]
  BY <1>1, AfterType
<1> HIDE DEF took, m
<1>4. shelf' \in [SharedRequests -> Seq(Message)]
  BY <1>1 DEF TypeOK
<1>5. last' \in [message : Message, reached : SUBSET Callers, took : SUBSET Callers,
                 shelved : SUBSET SharedRequests, read : BOOLEAN]
  BY <1>1, <1>2
<1>6. /\ requests' \in [Ids -> CallerOrNone] /\ orders' \in [Ids -> CallerOrNone]
      /\ executions' \in [Ids -> CallerOrNone] /\ stream' \in CallerOrNone
      /\ UNCHANGED <<nextRequest, placed>>
      /\ filled' \subseteq placed /\ told' \in [Ids -> SUBSET Callers] /\ silent' \subseteq Callers
  BY <1>1 DEF TypeOK, tables, broker
<1> QED  BY <1>1, <1>3, <1>4, <1>5, <1>6, SameCallsTypes

\* The types hold at first.
LEMMA InitTypes == Init => TypeOK
<1> SUFFICES ASSUME Init PROVE TypeOK
  OBVIOUS
<1>1. \A c \in Callers : id[c] # Unspecified <=> By(c) \in {"request", "order", "nothing"}
  BY DEF Init, By
<1>2. shelf \in [SharedRequests -> Seq(Message)]
  BY DEF Init
<1> QED  BY <1>1, <1>2, NoRoutingType, BoundsAssumption
            DEF Init, TypeOK, States, NoEntry, CallerOrNone

\* Every variable keeps its type, and a call has an id exactly if its answers
\* name one, whatever is called, dropped and sent.
THEOREM RoutingTypesHold == Spec => []TypeOK
<1>1. TypeOK /\ [Next]_vars => TypeOK'
  <2> SUFFICES ASSUME TypeOK, [Next]_vars PROVE TypeOK'
    OBVIOUS
  <2>1. ASSUME NEW c \in Callers, Call(c) \/ Drop(c) \/ Read(c) PROVE TypeOK'
    BY <2>1, CallTypes, DropTypes, ReadTypes
  <2>2. ASSUME NEW m \in Sent, Dispatch(m) PROVE TypeOK'
    BY <2>2, DispatchTypes
  <2>3. CASE UNCHANGED vars
    BY <2>3 DEF TypeOK, vars, clients, tables, broker, By
  <2> QED  BY <2>1, <2>2, <2>3 DEF Next
<1> QED  BY <1>1, InitTypes, PTL DEF Spec

-------------------------------------------------------------------------------
(* The inductive invariant. *)

Live(c) == state[c] \in {"open", "ended"}
Channelled == {"request", "order", "updates"}

\* A request's id is its own; an order's may be that of several calls.
IdInv ==
  /\ \A c \in Callers : By(c) = "request" => id[c] \in RequestIds /\ id[c] < nextRequest
  /\ \A c, d \in Callers : By(c) = "request" /\ By(d) = "request" /\ id[c] = id[d] => c = d
  /\ \A c \in Callers : By(c) \in {"order", "nothing"} => id[c] \in OrderIds

\* A founder listens on its own channel, those who joined it follow its order.
FounderInv ==
  /\ \A c \in Callers : By(c) \in Channelled <=> founder[c] # None
  /\ \A c, f \in Callers : founder[c] = f =>
       /\ founder[f] = f /\ By(f) = By(c) /\ id[f] = id[c]
       /\ By(c) # "order" \/ transport = "sync" => f = c

\* The request table has each call that is there under its id, and no strangers.
RequestInv ==
  /\ \A i \in Ids, f \in Callers : requests[i] = f => By(f) = "request" /\ id[f] = i
  /\ \A c \in Callers : By(c) = "request" /\ Live(c) => requests[id[c]] = c

Alone(c) == \A d \in Callers \ {c} : ~ (By(d) = "order" /\ id[d] = id[c])

\* The order table: somebody listens on each of its channels, and each call that
\* is there listens on its order's, but for the synchronous client's that met.
OrderInv ==
  /\ \A o \in Ids, f \in Callers : orders[o] = f =>
       /\ By(f) = "order" /\ id[f] = o /\ founder[f] = f
       /\ \E d \in Callers : founder[d] = f /\ Live(d)
  /\ \A c \in Callers : By(c) = "order" /\ Live(c) /\ (transport = "async" \/ Alone(c)) =>
       orders[id[c]] = founder[c]

StreamInv == \A c \in Callers : stream = c => By(c) = "updates"

\* An execution's channel is its order's, or that of a request that was told of it.
ExecutionInv ==
  /\ \A o \in Ids, f \in Callers : executions[o] = f =>
       \/ By(f) = "order" /\ id[f] = o
       \/ By(f) = "request" /\ (state[f] = "open" => f \in told[o])
  /\ \A o \in Ids : \A c \in told[o] : founder[c] # None /\ founder[c] = executions[o]

\* A shared queue has only answers that name no request.
ShelfInv ==
  \A r \in UsedRequests : \A n \in 1..Len(shelf[r]) :
     shelf[r][n].req = Unspecified /\ shelf[r][n].kind \in Responses[r]

CallInv == IdInv /\ FounderInv
RoutingInv == CallInv /\ RequestInv /\ OrderInv /\ StreamInv /\ ExecutionInv /\ ShelfInv

\* A call is made with an id and on a channel of the sort its answers are for.
FreshOrJoined(c, by, i, f) ==
  \/ by = "request" /\ i = nextRequest /\ i \in RequestIds /\ f = c /\ nextRequest' = nextRequest + 1
  \/ by = "updates" /\ i = Unspecified /\ f = c
  \/ by = "nothing" /\ i \in OrderIds /\ f = None
  \/ by \in UsedRequests /\ f = None
  \/ /\ by = "order" /\ i \in OrderIds
     /\ \/ f = c
        \/ transport = "async" /\ f \in Callers /\ founder[f] = f /\ By(f) = "order" /\ id[f] = i

\* Making a call keeps what is known of each call.
LEMMA MakesCallInv ==
  ASSUME TypeOK, CallInv, NEW c \in Callers, NEW a, NEW st, NEW i, NEW f, Makes(c, a, st, i, f),
         FreshOrJoined(c, Api[a].by, i, f), nextRequest' >= nextRequest, nextRequest' \in Nat
  PROVE  CallInv'
<1> DEFINE by == Api[a].by
<1>0. "request" \notin UsedRequests /\ "order" \notin UsedRequests /\ "updates" \notin UsedRequests
      /\ "nothing" \notin UsedRequests
  BY SharedNames
<1>a. By(c) = ""
  BY MakesBy
<1>1. /\ api[c] = None /\ id'[c] = i /\ founder'[c] = f
      /\ transport' = transport
      /\ \A d \in Callers \ {c} : id'[d] = id[d] /\ founder'[d] = founder[d]
  BY MakesFacts
<1>2. \A d \in Callers : By(d)' = IF d = c THEN by ELSE By(d)
  BY MakesBy
<1>3. \A d \in Callers \ {c} : By(d)' = By(d)
  BY <1>2
<1>b. c # None
  BY CallersAssumption
<1>4. founder[c] = None /\ \A d \in Callers : founder[d] # c
  <2>1. founder[c] = None
    BY <1>a DEF CallInv, FounderInv, Channelled
  <2>2. ASSUME NEW d \in Callers, founder[d] = c PROVE FALSE
    <3>1. founder[c] = c
      BY <2>2 DEF CallInv, FounderInv
    <3> QED  BY <2>1, <3>1, <1>b
  <2> QED  BY <2>1, <2>2
<1>c. \A d \in Callers : id[d] \in Ids \cup {Unspecified}
  BY DEF TypeOK
<1>f. \A n \in Ids \cup {Unspecified} : n \in Int
  BY IdFacts
<1>d. \A d \in Callers : id[d] \in Int
  BY <1>c, <1>f
<1>e. nextRequest \in Nat
  BY DEF TypeOK
<1>5. c # None /\ nextRequest \in Nat /\ \A d \in Callers : id[d] \in Int
  BY <1>b, <1>d, <1>e
<1> HIDE DEF by
<1>6. FreshOrJoined(c, by, i, f)
  BY DEF by
<1>7. IdInv'
  <2>1. ASSUME NEW d \in Callers, By(d)' = "request"
        PROVE  id'[d] \in RequestIds /\ id'[d] < nextRequest'
    <3>1. CASE d = c
      <4>1. by = "request"
        BY <2>1, <3>1, <1>2
      <4> QED  BY <4>1, <3>1, <1>0, <1>1, <1>5, <1>6 DEF FreshOrJoined
    <3>2. CASE d # c
      BY <2>1, <3>2, <1>1, <1>3, <1>5 DEF CallInv, IdInv
    <3> QED  BY <3>1, <3>2
  <2>2. ASSUME NEW d \in Callers, NEW e \in Callers, By(d)' = "request", By(e)' = "request", id'[d] = id'[e]
        PROVE  d = e
    <3>1. ASSUME NEW g \in Callers \ {c}, By(g)' = "request", By(c)' = "request" PROVE id'[g] # id'[c]
      <4>1. by = "request" /\ By(g) = "request"
        BY <3>1, <1>2, <1>3
      <4>2. id'[c] = nextRequest
        BY <4>1, <1>0, <1>1, <1>6 DEF FreshOrJoined
      <4>3. id'[g] < nextRequest
        BY <4>1, <1>1 DEF CallInv, IdInv
      <4> QED  BY <4>2, <4>3, <1>5
    <3>2. CASE d # c /\ e # c
      BY <2>2, <3>2, <1>1, <1>3 DEF CallInv, IdInv
    <3>3. CASE d = c /\ e # c
      BY <2>2, <3>1, <3>3
    <3>4. CASE d # c /\ e = c
      BY <2>2, <3>1, <3>4
    <3> QED  BY <3>2, <3>3, <3>4
  <2>3. ASSUME NEW d \in Callers, By(d)' \in {"order", "nothing"}
        PROVE  id'[d] \in OrderIds
    <3>1. CASE d = c
      <4>1. by \in {"order", "nothing"}
        BY <2>3, <3>1, <1>2
      <4> QED  BY <4>1, <3>1, <1>0, <1>1, <1>6 DEF FreshOrJoined
    <3>2. CASE d # c
      BY <2>3, <3>2, <1>1, <1>3 DEF CallInv, IdInv
    <3> QED  BY <3>1, <3>2
  <2> QED  BY <2>1, <2>2, <2>3 DEF IdInv
<1>8. FounderInv'
  <2>1. ASSUME NEW d \in Callers
        PROVE  By(d)' \in Channelled <=> founder'[d] # None
    <3>1. CASE d = c
      <4>1. by \in Channelled <=> f # None
        BY <1>0, <1>5, <1>6, CallersAssumption DEF FreshOrJoined, Channelled
      <4> QED  BY <3>1, <4>1, <1>1, <1>2
    <3>2. CASE d # c
      BY <3>2, <1>1, <1>3 DEF CallInv, FounderInv
    <3> QED  BY <3>1, <3>2
  <2>2. ASSUME NEW d \in Callers, NEW g \in Callers, founder'[d] = g
        PROVE  /\ founder'[g] = g /\ By(g)' = By(d)' /\ id'[g] = id'[d]
               /\ By(d)' # "order" \/ transport' = "sync" => g = d
    <3>1. CASE d = c /\ g = c
      BY <3>1, <2>2
    <3>2. CASE d = c /\ g # c
      <4>1. /\ by = "order" /\ transport = "async" /\ founder[g] = g /\ By(g) = "order" /\ id[g] = i
        BY <2>2, <3>2, <1>1, <1>6, CallersAssumption DEF FreshOrJoined
      <4>2. By(g)' = "order" /\ By(c)' = "order" /\ founder'[g] = g /\ id'[g] = i /\ id'[c] = i
        BY <4>1, <3>2, <1>1, <1>2, <1>3
      <4> QED  BY <4>1, <4>2, <3>2, <1>1
    <3>3. CASE d # c
      <4>1. founder[d] = g /\ g # c
        BY <2>2, <3>3, <1>1, <1>4
      <4>2. /\ founder[g] = g /\ By(g) = By(d) /\ id[g] = id[d]
            /\ By(d) # "order" \/ transport = "sync" => g = d
        BY <4>1 DEF CallInv, FounderInv
      <4> QED  BY <4>1, <4>2, <3>3, <1>1, <1>3
    <3> QED  BY <3>1, <3>2, <3>3
  <2> QED  BY <2>1, <2>2 DEF FounderInv
<1> QED  BY <1>7, <1>8 DEF CallInv

\* The calls that were there stay on their channels, and nobody is on a new one.
LEMMA CallKeepsTables ==
  ASSUME TypeOK, RoutingInv, NEW c \in Callers, NEW a, NEW st, NEW i, NEW f, Makes(c, a, st, i, f),
         FreshOrJoined(c, Api[a].by, i, f), CallInv',
         Api[a].by # "order" => orders' = orders,
         Api[a].by # "updates" => stream' = stream,
         Api[a].by = "updates" => stream' = c
  PROVE  StreamInv' /\ ExecutionInv' /\ ShelfInv' /\ (Api[a].by # "order" => OrderInv')
<1> DEFINE by == Api[a].by
<1>1. /\ id'[c] = i /\ founder'[c] = f /\ state'[c] = st
      /\ transport' = transport
      /\ \A d \in Callers \ {c} : id'[d] = id[d] /\ founder'[d] = founder[d] /\ state'[d] = state[d]
      /\ UNCHANGED <<executions, shelf, told>>
  BY MakesFacts
<1>2. \A d \in Callers : By(d)' = IF d = c THEN by ELSE By(d)
  BY MakesBy
<1>3. By(c) = ""
  BY MakesBy
<1>4. founder[c] = None
  BY <1>3 DEF RoutingInv, CallInv, FounderInv, Channelled
<1>5. c # None
  BY CallersAssumption
<1> HIDE DEF by
<1>6. StreamInv'
  <2> SUFFICES ASSUME NEW d \in Callers, stream' = d PROVE By(d)' = "updates"
    BY DEF StreamInv
  <2>1. CASE by = "updates"
    BY <2>1, <1>2 DEF by
  <2>2. CASE by # "updates"
    <3>1. By(d) = "updates"
      BY <2>2 DEF by, RoutingInv, StreamInv
    <3> QED  BY <3>1, <1>2, <1>3
  <2> QED  BY <2>1, <2>2
<1>7. ExecutionInv'
  <2>1. ASSUME NEW o \in Ids, NEW g \in Callers, executions'[o] = g
        PROVE  \/ By(g)' = "order" /\ id'[g] = o
               \/ By(g)' = "request" /\ (state'[g] = "open" => g \in told'[o])
    <3>1. \/ By(g) = "order" /\ id[g] = o
          \/ By(g) = "request" /\ (state[g] = "open" => g \in told[o])
      BY <2>1, <1>1 DEF RoutingInv, ExecutionInv
    <3>2. g # c
      BY <3>1, <1>3
    <3> QED  BY <3>1, <3>2, <1>1, <1>2
  <2>2. ASSUME NEW o \in Ids, NEW d \in told'[o]
        PROVE  founder'[d] # None /\ founder'[d] = executions'[o]
    <3>1. d \in Callers /\ founder[d] # None /\ founder[d] = executions[o]
      BY <1>1 DEF RoutingInv, ExecutionInv, TypeOK
    <3>2. d # c
      BY <3>1, <1>4
    <3> QED  BY <3>1, <3>2, <1>1
  <2> QED  BY <2>1, <2>2 DEF ExecutionInv
<1>8. ShelfInv'
  BY <1>1 DEF RoutingInv, ShelfInv
<1>9. ASSUME by # "order" PROVE OrderInv'
  <2>0. orders' = orders
    BY <1>9 DEF by
  <2>1. ASSUME NEW o \in Ids, NEW g \in Callers, orders'[o] = g
        PROVE  /\ By(g)' = "order" /\ id'[g] = o /\ founder'[g] = g
               /\ \E d \in Callers : founder'[d] = g /\ Live(d)'
    <3>1. By(g) = "order" /\ id[g] = o /\ founder[g] = g
      BY <2>0, <2>1 DEF RoutingInv, OrderInv
    <3>2. PICK d \in Callers : founder[d] = g /\ Live(d)
      BY <2>0, <2>1 DEF RoutingInv, OrderInv
    <3>3. g # c /\ g # None
      BY <3>1, <1>3, CallersAssumption
    <3>4. d # c
      BY <3>2, <3>3, <1>4
    <3>5. founder'[d] = g /\ state'[d] = state[d]
      BY <3>2, <3>4, <1>1
    <3> QED  BY <3>1, <3>2, <3>3, <3>5, <1>1, <1>2 DEF Live
  <2>2. ASSUME NEW d \in Callers, By(d)' = "order", Live(d)', transport' = "async" \/ Alone(d)'
        PROVE  orders'[id'[d]] = founder'[d]
    <3>1. d # c /\ By(d) = "order"
      BY <2>2, <1>2, <1>9
    <3>2. id'[d] = id[d] /\ founder'[d] = founder[d] /\ Live(d)
      BY <2>2, <3>1, <1>1 DEF Live
    <3>3. transport = "async" \/ Alone(d)
      <4>1. ASSUME Alone(d)', NEW e \in Callers \ {d}, By(e) = "order", id[e] = id[d] PROVE FALSE
        <5>1. e # c
          BY <4>1, <1>3
        <5>2. By(e)' = "order" /\ id'[e] = id'[d]
          BY <4>1, <5>1, <3>1, <1>1, <1>2
        <5> QED  BY <4>1, <5>2 DEF Alone
      <4> QED  BY <2>2, <4>1, <1>1 DEF Alone
    <3> QED  BY <2>0, <3>1, <3>2, <3>3 DEF RoutingInv, OrderInv
  <2> QED  BY <2>1, <2>2 DEF OrderInv
<1> QED  BY <1>6, <1>7, <1>8, <1>9 DEF by

\* send_order_request keeps the order table, joining or replacing.
LEMMA OrderRequestKeeps ==
  ASSUME TypeOK, RoutingInv, NEW c \in Callers, NEW a, NEW o \in OrderIds, NEW f,
         Makes(c, a, "open", o, f), Api[a].by = "order", orders' = [orders EXCEPT ![o] = f],
         f = IF transport = "async" /\ Listeners(orders[o]) # {} THEN orders[o] ELSE c
  PROVE  FreshOrJoined(c, "order", o, f) /\ OrderInv'
<1>1. /\ id'[c] = o /\ founder'[c] = f /\ state'[c] = "open"
      /\ transport' = transport
      /\ \A d \in Callers \ {c} : id'[d] = id[d] /\ founder'[d] = founder[d] /\ state'[d] = state[d]
  BY MakesFacts
<1>2. \A d \in Callers : By(d)' = IF d = c THEN "order" ELSE By(d)
  BY MakesBy
<1>3. By(c) = ""
  BY MakesBy
<1>4. founder[c] = None /\ c # None /\ None \notin Callers
  BY <1>3, CallersAssumption DEF RoutingInv, CallInv, FounderInv, Channelled
<1>5. o \in Ids /\ orders[o] \in CallerOrNone /\ transport \in {"async", "sync"}
  BY IdFacts DEF TypeOK
<1>a. orders'[o] = f /\ \A n \in Ids \ {o} : orders'[n] = orders[n]
  BY <1>5 DEF TypeOK
<1>6. \/ f = c /\ (transport = "async" => Listeners(orders[o]) = {})
      \/ /\ transport = "async" /\ f = orders[o] /\ f \in Callers /\ f # c
         /\ founder[f] = f /\ By(f) = "order" /\ id[f] = o
         /\ \E d \in Callers : founder[d] = f /\ Live(d)
  <2>1. CASE transport = "async" /\ Listeners(orders[o]) # {}
    <3>0. PICK d : d \in Listeners(orders[o])
      BY <2>1
    <3>1. f = orders[o] /\ f \in Callers
      BY <2>1, <3>0, <1>5 DEF Listeners, CallerOrNone
    <3>2. /\ By(f) = "order" /\ id[f] = o /\ founder[f] = f
          /\ \E e \in Callers : founder[e] = f /\ Live(e)
      BY <3>1, <1>5 DEF RoutingInv, OrderInv
    <3>3. f # c
      BY <3>2, <1>3
    <3> QED  BY <2>1, <3>1, <3>2, <3>3
  <2>2. CASE ~ (transport = "async" /\ Listeners(orders[o]) # {})
    BY <2>2
  <2> QED  BY <2>1, <2>2
<1>7. FreshOrJoined(c, "order", o, f)
  BY <1>6 DEF FreshOrJoined
<1>8. ASSUME NEW n \in Ids, NEW g \in Callers, orders'[n] = g
      PROVE  /\ By(g)' = "order" /\ id'[g] = n /\ founder'[g] = g
             /\ \E d \in Callers : founder'[d] = g /\ Live(d)'
  <2>1. CASE n = o /\ f = c
    BY <2>1, <1>8, <1>1, <1>2, <1>a DEF Live
  <2>2. CASE \/ n # o
             \/ n = o /\ f # c
    <3>1. /\ By(g) = "order" /\ id[g] = n /\ founder[g] = g
          /\ \E d \in Callers : founder[d] = g /\ Live(d)
      <4>1. CASE n # o
        <5>1. orders[n] = g
          BY <4>1, <1>8, <1>a
        <5> QED  BY <5>1 DEF RoutingInv, OrderInv
      <4>2. CASE n = o /\ f # c
        BY <4>2, <1>6, <1>8, <1>a
      <4> QED  BY <2>2, <4>1, <4>2
    <3>2. g # c /\ g # None
      BY <3>1, <1>3, <1>4
    <3>3. PICK d \in Callers : founder[d] = g /\ Live(d)
      BY <3>1
    <3>4. d # c
      BY <3>2, <3>3, <1>4
    <3>5. founder'[d] = g /\ state'[d] = state[d]
      BY <3>3, <3>4, <1>1
    <3>6. Live(d)'
      BY <3>3, <3>5 DEF Live
    <3> QED  BY <3>1, <3>2, <3>5, <3>6, <1>1, <1>2
  <2> QED  BY <2>1, <2>2
<1>9. ASSUME NEW d \in Callers, By(d)' = "order", Live(d)', transport' = "async" \/ Alone(d)'
      PROVE  orders'[id'[d]] = founder'[d]
  <2>1. CASE d = c
    BY <2>1, <1>1, <1>a
  <2>2. CASE d # c
    <3>1. By(d) = "order" /\ id'[d] = id[d] /\ founder'[d] = founder[d] /\ Live(d)
      BY <2>2, <1>1, <1>2, <1>9 DEF Live
    <3>2. id[d] \in OrderIds /\ id[d] \in Ids
      BY <3>1, IdFacts DEF RoutingInv, CallInv, IdInv
    <3>3. transport = "async" \/ Alone(d)
      <4>1. ASSUME Alone(d)', NEW e \in Callers \ {d}, By(e) = "order", id[e] = id[d] PROVE FALSE
        <5>1. e # c
          BY <4>1, <1>3
        <5>2. By(e)' = "order" /\ id'[e] = id'[d]
          BY <4>1, <5>1, <3>1, <1>1, <1>2
        <5> QED  BY <4>1, <5>2 DEF Alone
      <4> QED  BY <1>9, <4>1, <1>1 DEF Alone
    <3>4. orders[id[d]] = founder[d]
      BY <3>1, <3>3 DEF RoutingInv, OrderInv
    <3>5. CASE id[d] # o
      BY <3>1, <3>2, <3>4, <3>5, <1>a
    <3>6. CASE id[d] = o
      <4>1. transport = "async"
        <5>1. ASSUME Alone(d)' PROVE FALSE
          <6>1. By(c)' = "order" /\ id'[c] = id'[d]
            BY <1>1, <1>2, <3>1, <3>6
          <6> QED  BY <5>1, <6>1, <2>2 DEF Alone
        <5> QED  BY <5>1, <1>1, <1>9
      <4>2. founder[d] # None
        BY <3>1 DEF RoutingInv, CallInv, FounderInv, Channelled
      <4>3. d \in Listeners(orders[o])
        BY <3>1, <3>4, <3>6, <4>2 DEF Listeners, Live
      <4>4. f = orders[o]
        BY <4>1, <4>3
      <4> QED  BY <3>1, <3>4, <3>6, <4>4, <1>a
    <3> QED  BY <3>5, <3>6
  <2> QED  BY <2>1, <2>2
<1>10. OrderInv'
  BY <1>8, <1>9 DEF OrderInv
<1> QED  BY <1>7, <1>10

\* A call that makes no request keeps the table of requests.
LEMMA RequestTableKept ==
  ASSUME TypeOK, RoutingInv, NEW c \in Callers, NEW a, NEW st, NEW i, NEW f, Makes(c, a, st, i, f),
         Api[a].by # "request", requests' = requests
  PROVE  RequestInv'
<1>1. \A d \in Callers \ {c} : id'[d] = id[d] /\ state'[d] = state[d]
  BY MakesFacts
<1>2. \A d \in Callers : By(d)' = IF d = c THEN Api[a].by ELSE By(d)
  BY MakesBy
<1>3. By(c) = ""
  BY MakesBy
<1>4. ASSUME NEW n \in Ids, NEW g \in Callers, requests'[n] = g
      PROVE  By(g)' = "request" /\ id'[g] = n
  <2>1. By(g) = "request" /\ id[g] = n
    BY <1>4 DEF RoutingInv, RequestInv
  <2>2. g # c
    BY <2>1, <1>3
  <2> QED  BY <2>1, <2>2, <1>1, <1>2
<1>5. ASSUME NEW d \in Callers, By(d)' = "request", Live(d)' PROVE requests'[id'[d]] = d
  <2>1. d # c
    BY <1>5, <1>2
  <2>2. By(d) = "request" /\ Live(d) /\ id'[d] = id[d]
    BY <2>1, <1>1, <1>2, <1>5 DEF Live
  <2> QED  BY <2>2 DEF RoutingInv, RequestInv
<1> QED  BY <1>4, <1>5 DEF RequestInv

\* So does a request by id, which takes a fresh one.
LEMMA RequestKeeps ==
  ASSUME TypeOK, RoutingInv, NEW c \in Callers, NEW a, Request(c, a)
  PROVE  RequestInv'
<1>0. /\ Makes(c, a, "open", nextRequest, c) /\ nextRequest \in RequestIds /\ Api[a].by = "request"
      /\ requests' = [requests EXCEPT ![nextRequest] = c]
  BY DEF Request
<1>1. /\ id'[c] = nextRequest
      /\ \A d \in Callers \ {c} : id'[d] = id[d] /\ state'[d] = state[d]
  BY <1>0, MakesFacts
<1>2. \A d \in Callers : By(d)' = IF d = c THEN "request" ELSE By(d)
  BY <1>0, MakesBy
<1>3. By(c) = ""
  BY <1>0, MakesBy
<1>4. nextRequest \in Ids /\ nextRequest \in Nat /\ \A n \in Ids : n \in Nat
  BY <1>0, IdFacts DEF TypeOK
<1>5. requests'[nextRequest] = c /\ \A n \in Ids \ {nextRequest} : requests'[n] = requests[n]
  BY <1>0, <1>4 DEF TypeOK
<1>6. ASSUME NEW n \in Ids, NEW g \in Callers, requests'[n] = g
      PROVE  By(g)' = "request" /\ id'[g] = n
  <2>1. CASE n = nextRequest
    BY <2>1, <1>1, <1>2, <1>5, <1>6
  <2>2. CASE n # nextRequest
    <3>1. By(g) = "request" /\ id[g] = n
      BY <2>2, <1>5, <1>6 DEF RoutingInv, RequestInv
    <3>2. g # c
      BY <3>1, <1>3
    <3> QED  BY <3>1, <3>2, <1>1, <1>2
  <2> QED  BY <2>1, <2>2
<1>7. ASSUME NEW d \in Callers, By(d)' = "request", Live(d)' PROVE requests'[id'[d]] = d
  <2>1. CASE d = c
    BY <2>1, <1>1, <1>5
  <2>2. CASE d # c
    <3>1. By(d) = "request" /\ Live(d) /\ id'[d] = id[d]
      BY <2>2, <1>1, <1>2, <1>7 DEF Live
    <3>2. id[d] \in RequestIds /\ id[d] < nextRequest
      BY <3>1 DEF RoutingInv, CallInv, IdInv
    <3>a. id[d] \in Ids /\ id[d] \in Nat
      BY <3>2, <1>4, IdFacts
    <3>3. id[d] \in Ids \ {nextRequest}
      BY <3>2, <3>a, <1>4
    <3>4. requests[id[d]] = d
      BY <3>1 DEF RoutingInv, RequestInv
    <3> QED  BY <3>1, <3>3, <3>4, <1>5
  <2> QED  BY <2>1, <2>2
<1> QED  BY <1>6, <1>7 DEF RequestInv

\* Every way of making a call keeps it.
LEMMA CallKeeps ==
  ASSUME TypeOK, RoutingInv, NEW c \in Callers, Call(c)
  PROVE  RoutingInv'
<1> PICK a \in Asked[c] :
      Request(c, a) \/ OrderRequest(c, a) \/ Submit(c, a) \/ SharedRequest(c, a) \/ Updates(c, a)
  BY DEF Call
<1>0. nextRequest \in Nat /\ placed \subseteq OrderIds /\ TypeOK'
  BY CallTypes DEF TypeOK
<1>a. nextRequest' \in Nat
  BY <1>0 DEF TypeOK
<1>b. CallInv
  BY DEF RoutingInv
<1>1. CASE Request(c, a)
  <2>1. /\ Makes(c, a, "open", nextRequest, c) /\ nextRequest \in RequestIds
        /\ Api[a].by = "request" /\ nextRequest' = nextRequest + 1
        /\ UNCHANGED <<orders, stream>>
    BY <1>1 DEF Request
  <2>2. FreshOrJoined(c, Api[a].by, nextRequest, c) /\ nextRequest' >= nextRequest
    BY <1>0, <2>1 DEF FreshOrJoined
  <2>3. CallInv'
    BY <1>a, <1>b, <2>1, <2>2, MakesCallInv
  <2>4. StreamInv' /\ ExecutionInv' /\ ShelfInv' /\ OrderInv'
    BY <2>1, <2>2, <2>3, CallKeepsTables
  <2> QED  BY <1>1, <2>3, <2>4, RequestKeeps DEF RoutingInv
<1>2. CASE OrderRequest(c, a)
  <2> DEFINE joined(o) == IF transport = "async" /\ Listeners(orders[o]) # {} THEN orders[o] ELSE c
  <2>1. PICK o \in OrderOf(a) :
          /\ Makes(c, a, "open", o, joined(o)) /\ Api[a].by = "order"
          /\ orders' = [orders EXCEPT ![o] = joined(o)]
          /\ UNCHANGED <<requests, stream, nextRequest>>
    BY <1>2 DEF OrderRequest
  <2>2. o \in OrderIds
    BY <1>0 DEF OrderOf
  <2>3. PICK f : f = joined(o)
    OBVIOUS
  <2>a. /\ Makes(c, a, "open", o, f) /\ orders' = [orders EXCEPT ![o] = f]
        /\ f = IF transport = "async" /\ Listeners(orders[o]) # {} THEN orders[o] ELSE c
    BY <2>1, <2>3
  <2>4. FreshOrJoined(c, Api[a].by, o, f) /\ OrderInv'
    BY <2>1, <2>2, <2>a, OrderRequestKeeps
  <2> HIDE DEF joined
  <2>5. nextRequest' >= nextRequest
    BY <1>0, <2>1
  <2>6. Makes(c, a, "open", o, f)
    BY <2>1, <2>3
  <2>7. CallInv'
    BY <1>a, <1>b, <2>4, <2>5, <2>6, MakesCallInv
  <2>8. StreamInv' /\ ExecutionInv' /\ ShelfInv'
    BY <2>1, <2>4, <2>6, <2>7, CallKeepsTables
  <2>9. RequestInv'
    BY <2>1, <2>6, RequestTableKept
  <2> QED  BY <2>4, <2>7, <2>8, <2>9 DEF RoutingInv
<1>3. CASE Submit(c, a)
  <2>1. PICK o \in OrderOf(a) :
          /\ Makes(c, a, "dropped", o, None) /\ Api[a].by = "nothing"
          /\ UNCHANGED <<requests, orders, stream, nextRequest>>
    BY <1>3 DEF Submit
  <2>2. o \in OrderIds
    BY <1>0 DEF OrderOf
  <2>3. FreshOrJoined(c, Api[a].by, o, None) /\ nextRequest' >= nextRequest
    BY <1>0, <2>1, <2>2 DEF FreshOrJoined
  <2>4. CallInv'
    BY <1>a, <1>b, <2>1, <2>3, MakesCallInv
  <2>5. StreamInv' /\ ExecutionInv' /\ ShelfInv' /\ OrderInv'
    BY <2>1, <2>3, <2>4, CallKeepsTables
  <2>6. RequestInv'
    BY <2>1, RequestTableKept
  <2> QED  BY <2>4, <2>5, <2>6 DEF RoutingInv
<1>4. CASE SharedRequest(c, a)
  <2>1. /\ Makes(c, a, "open", Unspecified, None) /\ Api[a].by \in SharedRequests
        /\ UNCHANGED <<requests, orders, stream, nextRequest>>
    BY <1>4 DEF SharedRequest
  <2>a. Api[a].by \in {"request", "order", "updates", "nothing"} \cup UsedRequests
    BY <2>1, MakesBy
  <2>2. Api[a].by \in UsedRequests /\ Api[a].by \notin {"request", "order", "updates"}
    BY <2>1, <2>a, SharedNames
  <2>3. FreshOrJoined(c, Api[a].by, Unspecified, None) /\ nextRequest' >= nextRequest
    BY <1>0, <2>1, <2>2 DEF FreshOrJoined
  <2>4. CallInv'
    BY <1>a, <1>b, <2>1, <2>3, MakesCallInv
  <2>5. StreamInv' /\ ExecutionInv' /\ ShelfInv' /\ OrderInv'
    BY <2>1, <2>2, <2>3, <2>4, CallKeepsTables
  <2>6. RequestInv'
    BY <2>1, <2>2, RequestTableKept
  <2> QED  BY <2>4, <2>5, <2>6 DEF RoutingInv
<1>5. CASE Updates(c, a)
  <2>1. /\ Makes(c, a, "open", Unspecified, c) /\ Api[a].by = "updates" /\ stream' = c
        /\ UNCHANGED <<requests, orders, nextRequest>>
    BY <1>5 DEF Updates
  <2>2. FreshOrJoined(c, Api[a].by, Unspecified, c) /\ nextRequest' >= nextRequest
    BY <1>0, <2>1 DEF FreshOrJoined
  <2>3. CallInv'
    BY <1>a, <1>b, <2>1, <2>2, MakesCallInv
  <2>4. StreamInv' /\ ExecutionInv' /\ ShelfInv' /\ OrderInv'
    BY <2>1, <2>2, <2>3, CallKeepsTables
  <2>5. RequestInv'
    BY <2>1, RequestTableKept
  <2> QED  BY <2>3, <2>4, <2>5 DEF RoutingInv
<1> QED  BY <1>1, <1>2, <1>3, <1>4, <1>5

-------------------------------------------------------------------------------
(* Drops. *)

\* What a cleanup may do to a table.
LEMMA ReleasedFacts ==
  ASSUME NEW table \in [Ids -> CallerOrNone], NEW c, NEW n \in Ids
  PROVE  /\ Released(table, c)[n] \in {None, table[n]}
         /\ n # id[c] => Released(table, c)[n] = table[n]
         /\ n = id[c] /\ transport # "async" => Released(table, c)[n] = None
         /\ n = id[c] /\ transport = "async" =>
              IF table[n] = founder[c] /\ Listeners(founder[c]) = {c}
                THEN Released(table, c)[n] = None
                ELSE Released(table, c)[n] = table[n]
<1>1. CASE transport = "async"
  BY <1>1 DEF Released
<1>2. CASE transport # "async"
  BY <1>2 DEF Released
<1> QED  BY <1>1, <1>2

\* A drop, with its cleanup, keeps the invariant.
LEMMA DropKeeps ==
  ASSUME TypeOK, RoutingInv, NEW c \in Callers, Drop(c)
  PROVE  RoutingInv'
<1>1. /\ SameCalls /\ UNCHANGED <<executions, shelf, nextRequest, told>>
      /\ Live(c)
      /\ state' = [state EXCEPT ![c] = "dropped"]
      /\ requests' = IF By(c) = "request" THEN Released(requests, c) ELSE requests
      /\ orders' = IF By(c) = "order" THEN Released(orders, c) ELSE orders
      /\ stream' = IF By(c) = "updates" THEN None ELSE stream
  BY DEF Drop, SameCalls, broker, Live
<1>2. \A d \in Callers : By(d)' = By(d)
  BY <1>1, SameCallsFacts
<1>3. \A d \in Callers : Live(d)' <=> Live(d) /\ d # c
  BY <1>1 DEF Live, TypeOK
<1>4. UNCHANGED <<transport, id, founder>>
  BY <1>1 DEF SameCalls
<1>5. None \notin Callers /\ requests \in [Ids -> CallerOrNone] /\ orders \in [Ids -> CallerOrNone]
  BY CallersAssumption DEF TypeOK
<1>6. CallInv'
  BY <1>1, <1>2, <1>4 DEF RoutingInv, CallInv, IdInv, FounderInv
<1>7. RequestInv'
  <2>1. \A n \in Ids : requests'[n] \in {None, requests[n]} /\ (By(c) # "request" \/ n # id[c] => requests'[n] = requests[n])
    BY <1>1, <1>5, ReleasedFacts
  <2>2. ASSUME NEW n \in Ids, NEW g \in Callers, requests'[n] = g
        PROVE  By(g)' = "request" /\ id'[g] = n
    <3>1. requests[n] = g
      BY <2>1, <2>2, <1>5
    <3> QED  BY <3>1, <1>2, <1>4 DEF RoutingInv, RequestInv
  <2>3. ASSUME NEW d \in Callers, By(d)' = "request", Live(d)' PROVE requests'[id'[d]] = d
    <3>1. By(d) = "request" /\ Live(d) /\ d # c /\ id'[d] = id[d]
      BY <2>3, <1>2, <1>3, <1>4
    <3>2. id[d] \in Ids /\ (By(c) # "request" \/ id[d] # id[c]) /\ requests[id[d]] = d
      BY <3>1, IdFacts DEF RoutingInv, CallInv, IdInv, RequestInv
    <3> QED  BY <2>1, <3>1, <3>2
  <2> QED  BY <2>2, <2>3 DEF RequestInv
<1>8. OrderInv'
  <2>1. \A n \in Ids : orders'[n] \in {None, orders[n]} /\ (By(c) # "order" \/ n # id[c] => orders'[n] = orders[n])
    BY <1>1, <1>5, ReleasedFacts
  <2>2. ASSUME By(c) = "order", id[c] \in Ids, NEW d \in Callers, d # c, Live(d), founder[d] = founder[c], transport = "async"
        PROVE  orders'[id[c]] = orders[id[c]]
    <3>1. founder[c] # None
      BY <2>2 DEF RoutingInv, CallInv, FounderInv, Channelled
    <3>2. d \in Listeners(founder[c])
      BY <2>2, <3>1 DEF Listeners, Live
    <3>3. Listeners(founder[c]) # {c}
      BY <2>2, <3>2
    <3>4. orders' = Released(orders, c)
      BY <1>1, <2>2
    <3> QED  BY <3>3, <3>4, <1>5, <2>2, ReleasedFacts
  <2>3. ASSUME NEW n \in Ids, NEW g \in Callers, orders'[n] = g
        PROVE  /\ By(g)' = "order" /\ id'[g] = n /\ founder'[g] = g
               /\ \E d \in Callers : founder'[d] = g /\ Live(d)'
    <3>1. orders[n] = g
      BY <2>1, <2>3, <1>5
    <3>2. By(g) = "order" /\ id[g] = n /\ founder[g] = g
      BY <3>1 DEF RoutingInv, OrderInv
    <3>3. PICK d \in Callers : founder[d] = g /\ Live(d)
      BY <3>1 DEF RoutingInv, OrderInv
    <3>4. CASE d # c
      BY <3>2, <3>3, <3>4, <1>2, <1>3, <1>4
    <3>5. CASE d = c
      <4>1. By(c) = "order" /\ id[c] = n /\ founder[c] = g /\ g # None
        BY <3>2, <3>3, <3>5, <1>5 DEF RoutingInv, CallInv, FounderInv
      <4>2. orders' = Released(orders, c)
        BY <4>1, <1>1
      <4>3. transport = "async" /\ Listeners(g) # {c}
        BY <4>1, <4>2, <2>3, <3>1, <1>5, ReleasedFacts
      <4>4. c \in Listeners(g)
        BY <4>1, <1>1 DEF Listeners, Live
      <4>5. PICK e \in Listeners(g) : e # c
        BY <4>3, <4>4
      <4>6. e \in Callers /\ founder[e] = g /\ Live(e)
        BY <4>5 DEF Listeners, Live
      <4> QED  BY <3>2, <4>5, <4>6, <1>2, <1>3, <1>4
    <3> QED  BY <3>4, <3>5
  <2>4. ASSUME NEW d \in Callers, By(d)' = "order", Live(d)', transport' = "async" \/ Alone(d)'
        PROVE  orders'[id'[d]] = founder'[d]
    <3>1. By(d) = "order" /\ Live(d) /\ d # c /\ id'[d] = id[d] /\ founder'[d] = founder[d]
      BY <2>4, <1>2, <1>3, <1>4
    <3>2. transport = "async" \/ Alone(d)
      BY <2>4, <1>2, <1>4 DEF Alone
    <3>3. orders[id[d]] = founder[d] /\ id[d] \in Ids
      BY <3>1, <3>2, IdFacts DEF RoutingInv, OrderInv, CallInv, IdInv
    <3>4. CASE By(c) # "order" \/ id[d] # id[c]
      BY <2>1, <3>1, <3>3, <3>4
    <3>5. CASE By(c) = "order" /\ id[d] = id[c]
      <4>1. transport = "async"
        BY <3>1, <3>2, <3>5 DEF Alone
      <4>2. orders[id[c]] = founder[c]
        BY <3>5, <4>1, <1>1 DEF RoutingInv, OrderInv
      <4> QED  BY <2>2, <3>1, <3>3, <3>5, <4>1, <4>2
    <3> QED  BY <3>4, <3>5
  <2> QED  BY <2>3, <2>4 DEF OrderInv
<1>9. StreamInv'
  BY <1>1, <1>2, <1>5 DEF RoutingInv, StreamInv
<1>10. ExecutionInv'
  <2>1. ASSUME NEW o \in Ids, NEW g \in Callers, executions'[o] = g
        PROVE  \/ By(g)' = "order" /\ id'[g] = o
               \/ By(g)' = "request" /\ (state'[g] = "open" => g \in told'[o])
    <3>1. \/ By(g) = "order" /\ id[g] = o
          \/ By(g) = "request" /\ (state[g] = "open" => g \in told[o])
      BY <2>1, <1>1 DEF RoutingInv, ExecutionInv
    <3>2. state'[g] = "open" => state[g] = "open"
      BY <1>1 DEF TypeOK
    <3> QED  BY <3>1, <3>2, <1>1, <1>2, <1>4
  <2>2. \A o \in Ids : \A d \in told'[o] : founder'[d] # None /\ founder'[d] = executions'[o]
    BY <1>1, <1>4 DEF RoutingInv, ExecutionInv
  <2> QED  BY <2>1, <2>2 DEF ExecutionInv
<1>11. ShelfInv'
  BY <1>1 DEF RoutingInv, ShelfInv
<1> QED  BY <1>6, <1>7, <1>8, <1>9, <1>10, <1>11 DEF RoutingInv

-------------------------------------------------------------------------------
(* Where a message goes. *)

\* An entry that is found belongs to a call that is registered under it.
LEMMA EntryFacts ==
  ASSUME TypeOK, RoutingInv, NEW n, NEW f \in Callers
  PROVE  /\ Entry(requests, n) = f => n \in RequestIds /\ By(f) = "request" /\ id[f] = n
         /\ Entry(orders, n) = f => n \in OrderIds /\ By(f) = "order" /\ id[f] = n
         /\ Entry(requests, n) \in CallerOrNone /\ Entry(orders, n) \in CallerOrNone
<1>0. None \notin Callers /\ None \in CallerOrNone
  BY CallersAssumption DEF CallerOrNone
<1>1. ASSUME NEW g \in Callers, Entry(requests, n) = g
      PROVE  n \in RequestIds /\ By(g) = "request" /\ id[g] = n
  <2>1. n \in Ids /\ requests[n] = g
    BY <1>0, <1>1 DEF Entry
  <2> QED  BY <2>1 DEF RoutingInv, RequestInv, CallInv, IdInv
<1>2. ASSUME NEW g \in Callers, Entry(orders, n) = g
      PROVE  n \in OrderIds /\ By(g) = "order" /\ id[g] = n
  <2>1. n \in Ids /\ orders[n] = g
    BY <1>0, <1>2 DEF Entry
  <2> QED  BY <2>1 DEF RoutingInv, OrderInv, CallInv, IdInv
<1>3. Entry(requests, n) \in CallerOrNone /\ Entry(orders, n) \in CallerOrNone
  BY <1>0 DEF TypeOK, Entry
<1> QED  BY <1>1, <1>2, <1>3 DEF CallerOrNone

\* Which entry decides, by the destination of the kind.
LEMMA ChannelByDestination ==
  ASSUME NEW m
  PROVE  /\ Destination(m.kind) = "Error" => Channel(m) = RequestOrOrder(m.req)
         /\ Destination(m.kind) = "Shared" => Channel(m) = None
         /\ Destination(m.kind) = "ByRequestId" =>
              Channel(m) = IF transport = "async" THEN Entry(requests, m.req) ELSE RequestOrOrder(m.req)
         /\ Destination(m.kind) = "ByOrderId" => Channel(m) = OrderChannel(m)
         /\ Strategy(m.kind) \in {"ExecutionData", "ExecutionDataEnd"} => OrderChannel(m) = ExecutionChannel(m)
         /\ Strategy(m.kind) = "OrderOrShared" => OrderChannel(m) = Entry(orders, m.ord)
         /\ Strategy(m.kind) = "ByExecutionId" => OrderChannel(m) = Entry(executions, m.ord)
         /\ Strategy(m.kind) = "SharedOnly" => OrderChannel(m) = None
<1>1. ASSUME Destination(m.kind) = "Error" PROVE Channel(m) = RequestOrOrder(m.req)
  BY <1>1, Zenon DEF Channel
<1>2. ASSUME Destination(m.kind) = "Shared" PROVE Channel(m) = None
  BY <1>2, Zenon DEF Channel
<1>3. ASSUME Destination(m.kind) = "ByRequestId"
      PROVE  Channel(m) = IF transport = "async" THEN Entry(requests, m.req) ELSE RequestOrOrder(m.req)
  BY <1>3, Zenon DEF Channel
<1>4. ASSUME Destination(m.kind) = "ByOrderId" PROVE Channel(m) = OrderChannel(m)
  BY <1>4, Zenon DEF Channel
<1>5. ASSUME Strategy(m.kind) \in {"ExecutionData", "ExecutionDataEnd"}
      PROVE  OrderChannel(m) = ExecutionChannel(m)
  BY <1>5, Zenon DEF OrderChannel
<1>6. ASSUME Strategy(m.kind) = "OrderOrShared" PROVE OrderChannel(m) = Entry(orders, m.ord)
  BY <1>6, Zenon DEF OrderChannel
<1>7. ASSUME Strategy(m.kind) = "ByExecutionId" PROVE OrderChannel(m) = Entry(executions, m.ord)
  BY <1>7, Zenon DEF OrderChannel
<1>8. ASSUME Strategy(m.kind) = "SharedOnly" PROVE OrderChannel(m) = None
  BY <1>8, Zenon DEF OrderChannel
<1> QED  BY <1>1, <1>2, <1>3, <1>4, <1>5, <1>6, <1>7, <1>8

\* The shared channels a message is put on, by where it goes.
LEMMA SharedByDestination ==
  ASSUME NEW m
  PROVE  /\ Destination(m.kind) = "Error" => SharedChannels(m) = {}
         /\ Destination(m.kind) = "Shared" => SharedChannels(m) = ChannelsOf(m.kind)
         /\ Destination(m.kind) = "ByRequestId" =>
              SharedChannels(m) = IF Channel(m) = None /\ transport = "sync" THEN ChannelsOf(m.kind) ELSE {}
         /\ Destination(m.kind) = "ByOrderId" /\ Strategy(m.kind) = "SharedOnly" =>
              SharedChannels(m) = ChannelsOf(m.kind)
         /\ Destination(m.kind) = "ByOrderId" /\ Strategy(m.kind) = "OrderOrShared" =>
              SharedChannels(m) = IF Channel(m) = None THEN ChannelsOf(m.kind) ELSE {}
         /\ Destination(m.kind) = "ByOrderId" /\ Strategy(m.kind) \notin {"SharedOnly", "OrderOrShared"} =>
              SharedChannels(m) = {}
BY DEF SharedChannels

\* A request is found under its id as long as it is there, and no other request
\* ever is; when it is gone, an order of the same number may be.
LEMMA AskerFound ==
  ASSUME TypeOK, RoutingInv, NEW c \in Callers, By(c) = "request"
  PROVE  /\ Entry(requests, id[c]) \in {None, c}
         /\ RequestOrOrder(id[c]) \in {c, Entry(orders, id[c])}
         /\ Live(c) => Entry(requests, id[c]) = c /\ RequestOrOrder(id[c]) = c
<1>1. id[c] \in RequestIds /\ id[c] \in Ids
  BY IdFacts DEF RoutingInv, CallInv, IdInv
<1>3. Entry(requests, id[c]) \in CallerOrNone
  BY EntryFacts
<1>4. ASSUME NEW f \in Callers, Entry(requests, id[c]) = f PROVE f = c
  <2>1. By(f) = "request" /\ id[f] = id[c]
    BY <1>4, EntryFacts
  <2> QED  BY <2>1 DEF RoutingInv, CallInv, IdInv
<1>5. Live(c) => Entry(requests, id[c]) = c
  BY <1>1 DEF Entry, RoutingInv, RequestInv
<1> QED  BY <1>3, <1>4, <1>5, CallersAssumption DEF RequestOrOrder, CallerOrNone

\* A message that names a request, on the channel of the order of that number.
Misled(f, m) ==
  m.kind \notin Faults \cup OrderKinds /\ By(f) = "order" /\ id[f] = m.req

\* The channel a message is put on: that of the order it is about, that of the
\* call it answers, or, of a commission, that of its execution; or it is one that
\* a number led to, the same of a request and of an order.
LEMMA ChannelFacts ==
  ASSUME TypeOK, RoutingInv, NEW m \in Sent, NEW f \in Callers, Channel(m) = f
  PROVE  \/ By(f) = "order" /\ id[f] = m.ord
         \/ By(f) = "request" /\ f = m.asker
         \/ m.kind = "CommissionsReport" /\ m.asker = None /\ m.ord \in Ids /\ f = executions[m.ord]
         \/ Mistaken(f, m) \/ Misled(f, m)
<1>0. None \notin Callers /\ Unspecified \notin Ids /\ Unspecified \notin RequestIds /\ Unspecified \notin OrderIds
  BY CallersAssumption, IdFacts
<1>a. /\ Entry(requests, Unspecified) = None /\ Entry(orders, Unspecified) = None
      /\ RequestOrOrder(Unspecified) = None
  BY <1>0 DEF Entry, RequestOrOrder
<1>1. ASSUME NEW c \in Callers, IsFaultOf(m, c)
      PROVE  \/ By(f) = "order" /\ id[f] = m.ord
             \/ By(f) = "request" /\ f = m.asker
             \/ Mistaken(f, m)
  <2>1. f \in {Entry(requests, id[c]), Entry(orders, id[c])}
    BY <1>1, FaultsRouted, ChannelByDestination DEF IsFaultOf, RequestOrOrder
  <2>4. /\ m.kind \in Faults /\ m.asker = c /\ m.req = id[c] /\ id[c] # Unspecified
        /\ m.ord = IF By(c) = "request" THEN Unspecified ELSE id[c]
    BY <1>1 DEF IsFaultOf
  <2>5. \/ By(f) = "request" /\ id[f] = id[c]
        \/ By(f) = "order" /\ id[f] = id[c]
    BY <2>1, EntryFacts
  <2>2. CASE By(c) = "request"
    <3>1. By(f) = "request" => f = c
      BY <2>2, <2>5 DEF RoutingInv, CallInv, IdInv
    <3> QED  BY <2>2, <2>4, <2>5, <3>1 DEF Mistaken
  <2>3. CASE By(c) # "request"
    BY <2>3, <2>4, <2>5 DEF Mistaken
  <2> QED  BY <2>2, <2>3
<1>2. ASSUME Destination(m.kind) = "ByOrderId",
             Strategy(m.kind) \in {"OrderOrShared", "SharedOnly"}
      PROVE  By(f) = "order" /\ id[f] = m.ord
  <2>1. Entry(orders, m.ord) = f
    BY <1>0, <1>2, ChannelByDestination
  <2> QED  BY <2>1, EntryFacts
<1>3. ASSUME NEW c \in Callers, IsAnswerTo(m, c)
      PROVE  \/ By(f) = "order" /\ id[f] = m.ord
             \/ By(f) = "request" /\ f = m.asker
             \/ Misled(f, m)
  <2>1. CASE By(c) = "request" /\ m.kind \in AskedKinds /\ m.req = id[c]
    <3>0. m.kind \notin Faults /\ m.asker = c
      BY <2>1, <1>3, AskedKindsRouted DEF IsAnswerTo
    <3>1. CASE Destination(m.kind) = "ByRequestId"
      <4>1. m.kind \notin OrderKinds
        BY <3>1, OrderKindsRouted
      <4>2. f \in {c, Entry(orders, id[c])}
        BY <2>1, <3>1, <1>0, AskerFound, ChannelByDestination
      <4> QED  BY <4>1, <4>2, <2>1, <3>0, EntryFacts DEF Misled
    <3>2. CASE /\ m.kind \in {"ExecutionData", "ExecutionDataEnd"}
               /\ Destination(m.kind) = "ByOrderId" /\ Strategy(m.kind) = m.kind
      <4>1. Channel(m) = ExecutionChannel(m)
        BY <3>2, ChannelByDestination
      <4>2. Entry(requests, m.req) \in {None, c}
        BY <2>1, AskerFound
      <4>3. \/ Entry(orders, m.ord) = f
            \/ m.kind = "ExecutionDataEnd" /\ Entry(orders, m.req) = f
            \/ f = c
        BY <4>1, <4>2, <3>2, <1>0 DEF ExecutionChannel
      <4>4. "ExecutionDataEnd" \notin OrderKinds
        BY DEF OrderKinds
      <4> QED  BY <4>3, <4>4, <2>1, <3>0, EntryFacts DEF Misled
    <3> QED  BY <2>1, <3>1, <3>2, AskedKindsRouted
  <2>2. CASE By(c) \in UsedRequests /\ m.kind \in Responses[By(c)] /\ m.req = Unspecified
    <3>1. Destination(m.kind) # "Shared"
      BY <1>0, ChannelByDestination
    <3>2. Destination(m.kind) = "ByOrderId" /\ Strategy(m.kind) \in {"OrderOrShared", "SharedOnly"}
      BY <2>2, <3>1, SharedKindsRouted
    <3> QED  BY <3>2, <1>2
  <2> QED  BY <2>1, <2>2, <1>3, AnswerFacts
<1>4. ASSUME IsEvent(m)
      PROVE  \/ By(f) = "order" /\ id[f] = m.ord
             \/ m.kind = "CommissionsReport" /\ m.asker = None /\ m.ord \in Ids /\ f = executions[m.ord]
  <2>1. m.kind \in OrderKinds /\ m.asker = None /\ m.req = Unspecified
    BY <1>4 DEF IsEvent
  <2>2. Destination(m.kind) = "ByOrderId"
    BY <2>1, OrderKindsRouted
  <2>3. CASE Strategy(m.kind) = "OrderOrShared"
    BY <2>2, <2>3, <1>2
  <2>4. CASE m.kind = "ExecutionData" /\ Strategy(m.kind) = "ExecutionData"
    <3>1. Channel(m) = ExecutionChannel(m)
      BY <2>2, <2>4, ChannelByDestination
    <3>2. Entry(orders, m.ord) = f
      BY <3>1, <2>1, <2>4, <1>a, <1>0 DEF ExecutionChannel
    <3> QED  BY <3>2, EntryFacts
  <2>5. CASE m.kind = "CommissionsReport" /\ Strategy(m.kind) = "ByExecutionId"
    <3>1. Channel(m) = Entry(executions, m.ord)
      BY <2>2, <2>5, ChannelByDestination
    <3> QED  BY <3>1, <2>1, <2>5, <1>0 DEF Entry
  <2> QED  BY <2>1, <2>3, <2>4, <2>5, OrderKindsRouted
<1>5. ASSUME m = [Nothing EXCEPT !.kind = "Warning"] PROVE FALSE
  <2>1. m.kind \in Faults /\ m.req = Unspecified
    BY <1>5 DEF Nothing, Faults
  <2>2. Channel(m) = None
    BY <2>1, <1>a, FaultsRouted, ChannelByDestination
  <2> QED  BY <2>2, <1>0
<1> QED  BY <1>1, <1>3, <1>4, <1>5, SentMessages

\* What is put on a shared channel that is used names no request.
LEMMA SharedFacts ==
  ASSUME TypeOK, RoutingInv, NEW m \in Sent, NEW r \in UsedRequests, r \in SharedChannels(m)
  PROVE  m.req = Unspecified /\ m.kind \in Responses[r]
<1>1. m.kind \in Responses[r] /\ m.kind \notin Faults
  <2>1. m.kind \in Responses[r]
    BY DEF SharedChannels, ChannelsOf
  <2> QED  BY <2>1, SharedKindsRouted
<1>2. ASSUME NEW c \in Callers, IsAnswerTo(m, c) PROVE m.req = Unspecified
  BY <1>1, <1>2, AnswerFacts, AskedKindsRouted
<1>3. ASSUME IsEvent(m) PROVE m.req = Unspecified
  BY <1>3 DEF IsEvent
<1>4. m = [Nothing EXCEPT !.kind = "Warning"] => m.kind \in Faults
  BY DEF Nothing, Faults
<1> QED  BY <1>1, <1>2, <1>3, <1>4, SentMessages DEF IsFaultOf

-------------------------------------------------------------------------------
(* Messages routed, and messages read. *)

\* What a routing does to the states of the calls.
LEMMA AfterFacts ==
  ASSUME TypeOK, NEW m, NEW took \in SUBSET Callers, \A c \in took : state[c] = "open",
         state' = After(took, m), NEW c \in Callers
  PROVE  /\ Live(c)' <=> Live(c)
         /\ state'[c] = "open" => state[c] = "open"
         /\ state'[c] = "ended" => state[c] = "ended" \/ c \in took
         /\ state[c] = "ended" => state'[c] = "ended"
<1>1. state'[c] = IF c \in took /\ Ends(c, m) THEN "ended" ELSE state[c]
  BY DEF After
<1>2. state[c] \in States
  BY DEF TypeOK
<1> QED  BY <1>1, <1>2 DEF Live, States

\* A step that ends no channel and touches no table keeps who is registered where.
LEMMA QuietKeeps ==
  ASSUME TypeOK, RoutingInv, SameCalls, UNCHANGED <<requests, orders, stream, nextRequest>>,
         \A c \in Callers : Live(c)' <=> Live(c)
  PROVE  CallInv' /\ RequestInv' /\ OrderInv' /\ StreamInv'
<1>1. \A c \in Callers : By(c)' = By(c)
  BY SameCallsFacts
<1>2. UNCHANGED <<transport, id, founder>>
  BY DEF SameCalls
<1>3. CallInv'
  BY <1>1, <1>2 DEF RoutingInv, CallInv, IdInv, FounderInv
<1>4. RequestInv'
  BY <1>1, <1>2 DEF RoutingInv, RequestInv
<1>5. OrderInv'
  <2>1. \A o \in Ids, f \in Callers : orders'[o] = f =>
          /\ By(f)' = "order" /\ id'[f] = o /\ founder'[f] = f
          /\ \E d \in Callers : founder'[d] = f /\ Live(d)'
    BY <1>1, <1>2 DEF RoutingInv, OrderInv
  <2>2. ASSUME NEW c \in Callers, By(c)' = "order", Live(c)', transport' = "async" \/ Alone(c)'
        PROVE  orders'[id'[c]] = founder'[c]
    <3>1. By(c) = "order" /\ Live(c)
      BY <1>1, <2>2
    <3>2. transport = "async" \/ Alone(c)
      BY <1>1, <1>2, <2>2 DEF Alone
    <3> QED  BY <1>2, <3>1, <3>2 DEF RoutingInv, OrderInv
  <2> QED  BY <2>1, <2>2 DEF OrderInv
<1>6. StreamInv'
  BY <1>1 DEF RoutingInv, StreamInv
<1> QED  BY <1>3, <1>4, <1>5, <1>6

\* Those on a channel.
LEMMA ListenerFacts ==
  ASSUME TypeOK, RoutingInv, NEW f, NEW c \in Listeners(f)
  PROVE  /\ c \in Callers /\ f \in Callers /\ founder[c] = f /\ Live(c)
         /\ By(c) = By(f) /\ id[c] = id[f] /\ By(f) \in Channelled
         /\ By(c) # "order" => c = f
<1>1. c \in Callers /\ founder[c] = f /\ f # None /\ Live(c)
  BY DEF Listeners, Live
<1>2. f \in Callers
  BY <1>1 DEF TypeOK, CallerOrNone
<1>3. By(c) \in Channelled
  BY <1>1 DEF RoutingInv, CallInv, FounderInv
<1>4. By(f) = By(c) /\ id[f] = id[c] /\ (By(c) # "order" \/ transport = "sync" => f = c)
  BY <1>1, <1>2 DEF RoutingInv, CallInv, FounderInv
<1> QED  BY <1>1, <1>2, <1>3, <1>4

\* A founder that is there listens on its own channel.
LEMMA FounderListens ==
  ASSUME TypeOK, RoutingInv, NEW c \in Callers, By(c) \in Channelled, Live(c)
  PROVE  c \in Listeners(founder[c]) /\ (By(c) # "order" => founder[c] = c)
<1>1. founder[c] # None
  BY DEF RoutingInv, CallInv, FounderInv
<1>2. c \in Listeners(founder[c])
  BY <1>1 DEF Listeners, Live
<1> QED  BY <1>2, ListenerFacts

\* Routing a message keeps the invariant.
LEMMA DispatchKeeps ==
  ASSUME TypeOK, RoutingInv, NEW m \in Sent, Dispatch(m)
  PROVE  RoutingInv'
<1> DEFINE took == {c \in Reached(m) : Accepts(c, m)}
           bound == m.kind = "ExecutionData" /\ Channel(m) # None
<1>1. /\ state' = After(took, m)
      /\ shelf' = [r \in SharedRequests |->
                     IF r \in Shelved(m) THEN Append(shelf[r], m) ELSE shelf[r]]
      /\ executions' = IF bound THEN [executions EXCEPT ![m.ord] = Channel(m)] ELSE executions
      /\ told' = IF bound THEN [told EXCEPT ![m.ord] = took \ {stream}] ELSE told
      /\ SameCalls /\ UNCHANGED <<requests, orders, stream, nextRequest>>
  BY DispatchFacts
<1>2. took \in SUBSET Callers /\ \A c \in took : state[c] = "open" /\ c \in Reached(m) /\ Accepts(c, m)
  BY ReachedType DEF Accepts
<1>3. \A c \in Callers : Accepts(c, m) /\ c \in Reached(m) => c \in took
  OBVIOUS
<1> HIDE DEF took
<1>4. \A c \in Callers : (Live(c)' <=> Live(c)) /\ (state'[c] = "open" => state[c] = "open")
  BY <1>1, <1>2, AfterFacts
<1>5. CallInv' /\ RequestInv' /\ OrderInv' /\ StreamInv'
  BY <1>1, <1>4, QuietKeeps
<1>6. \A c \in Callers : By(c)' = By(c)
  BY <1>1, SameCallsFacts
<1>7. UNCHANGED <<id, founder>>
  BY <1>1 DEF SameCalls
<1>8. ShelfInv'
  <2> SUFFICES ASSUME NEW r \in UsedRequests, NEW n \in 1..Len(shelf'[r])
               PROVE  shelf'[r][n].req = Unspecified /\ shelf'[r][n].kind \in Responses[r]
    BY DEF ShelfInv
  <2>1. r \in SharedRequests /\ shelf[r] \in Seq(Message)
    BY DEF UsedRequests, TypeOK
  <2>2. CASE r \in Shelved(m)
    <3>1. m.req = Unspecified /\ m.kind \in Responses[r]
      BY <2>2, SharedFacts DEF Shelved
    <3>2. shelf'[r] = Append(shelf[r], m)
      BY <1>1, <2>1, <2>2
    <3>3. CASE n \in 1..Len(shelf[r])
      <4>1. shelf'[r][n] = shelf[r][n]
        BY <2>1, <3>2, <3>3
      <4> QED  BY <3>3, <4>1 DEF RoutingInv, ShelfInv
    <3>4. CASE n = Len(shelf[r]) + 1
      <4>1. shelf'[r][n] = m
        BY <2>1, <3>2, <3>4
      <4> QED  BY <3>1, <4>1
    <3>5. n \in 1..(Len(shelf[r]) + 1) /\ Len(shelf[r]) \in Nat
      BY <2>1, <3>2
    <3> QED  BY <3>3, <3>4, <3>5
  <2>3. CASE r \notin Shelved(m)
    <3>1. shelf'[r] = shelf[r]
      BY <1>1, <2>1, <2>3
    <3> QED  BY <3>1 DEF RoutingInv, ShelfInv
  <2> QED  BY <2>2, <2>3
<1>9. ExecutionInv'
  <2>1. CASE ~ bound
    <3>1. executions' = executions /\ told' = told
      BY <1>1, <2>1
    <3> QED  BY <3>1, <1>4, <1>6, <1>7 DEF RoutingInv, ExecutionInv
  <2>2. CASE bound
    <3>1. PICK f : f = Channel(m)
      OBVIOUS
    <3>2. m.kind = "ExecutionData" /\ f # None /\ f \in Callers
      BY <2>2, <3>1, ChannelType DEF CallerOrNone
    <3>3. m.ord \in Ids
      BY <3>2, SentTypes, IdFacts DEF TypeOK
    <3>4. /\ executions'[m.ord] = f /\ told'[m.ord] = took \ {stream}
          /\ \A o \in Ids \ {m.ord} : executions'[o] = executions[o] /\ told'[o] = told[o]
      BY <1>1, <2>2, <3>1, <3>3 DEF TypeOK
    <3>5. \/ By(f) = "order" /\ id[f] = m.ord
          \/ By(f) = "request" /\ f = m.asker
      <4>1. m.kind \in OrderKinds /\ m.kind # "CommissionsReport" /\ m.kind \notin Faults
        BY <3>2 DEF OrderKinds, Faults
      <4> QED  BY <3>1, <3>2, <4>1, ChannelFacts DEF Mistaken, Misled
    <3>6. By(f) # "updates" /\ Destination("ExecutionData") = "ByOrderId" /\ Strategy("ExecutionData") = "ExecutionData"
          /\ "ExecutionData" \notin Faults
      BY <3>5, OrderKindsRouted DEF OrderKinds
    <3>7. SharedChannels(m) = {}
      BY <3>2, <3>6, SharedByDestination
    <3>8. ASSUME NEW c \in took \ {stream} PROVE c \in Callers /\ founder[c] = f
      <4>1. c \in Listeners(f)
        BY <1>2, <3>1, <3>7, <3>8 DEF Reached
      <4> QED  BY <4>1, ListenerFacts
    <3>9. ASSUME By(f) = "request", state'[f] = "open" PROVE f \in took \ {stream}
      <4>1. state[f] = "open" /\ f = m.asker
        BY <1>4, <3>2, <3>5, <3>9
      <4>2. f \in Listeners(f)
        BY <3>2, <3>9, <4>1, FounderListens DEF Live, Channelled
      <4>3. f \in Reached(m)
        BY <3>1, <4>2 DEF Reached
      <4>4. m.kind \in Api[api[f]].takes
        <5>1. IsAnswerTo(m, f)
          <6>1. m # [Nothing EXCEPT !.kind = "Warning"]
            BY <3>2 DEF Nothing
          <6>2. ~ IsEvent(m)
            BY <3>2, <4>1, CallersAssumption DEF IsEvent
          <6> QED  BY <6>1, <6>2, <4>1, <3>2, <3>6, SentMessages DEF IsFaultOf, IsAnswerTo
        <5> QED  BY <3>2, <5>1, AnswerFacts
      <4>5. Accepts(f, m)
        BY <3>2, <3>6, <4>1, <4>4 DEF Accepts
      <4>6. f # stream
        BY <3>2, <3>9 DEF RoutingInv, StreamInv
      <4> QED  BY <1>3, <3>2, <4>3, <4>5, <4>6
    <3>10. ASSUME NEW o \in Ids, NEW g \in Callers, executions'[o] = g
           PROVE  \/ By(g)' = "order" /\ id'[g] = o
                  \/ By(g)' = "request" /\ (state'[g] = "open" => g \in told'[o])
      <4>1. CASE o = m.ord
        BY <4>1, <3>4, <3>5, <3>9, <3>10, <1>6, <1>7
      <4>2. CASE o # m.ord
        <5>1. executions[o] = g /\ told'[o] = told[o]
          BY <4>2, <3>4, <3>10
        <5> QED  BY <5>1, <1>4, <1>6, <1>7 DEF RoutingInv, ExecutionInv
      <4> QED  BY <4>1, <4>2
    <3>11. ASSUME NEW o \in Ids, NEW c \in told'[o]
           PROVE  founder'[c] # None /\ founder'[c] = executions'[o]
      <4>1. CASE o = m.ord
        BY <4>1, <3>2, <3>4, <3>8, <3>11, <1>7
      <4>2. CASE o # m.ord
        <5>1. executions'[o] = executions[o] /\ told'[o] = told[o]
          BY <4>2, <3>4
        <5> QED  BY <5>1, <3>11, <1>7 DEF RoutingInv, ExecutionInv
      <4> QED  BY <4>1, <4>2
    <3> QED  BY <3>10, <3>11 DEF ExecutionInv
  <2> QED  BY <2>1, <2>2
<1> QED  BY <1>5, <1>8, <1>9 DEF RoutingInv

\* A read keeps it.
LEMMA ReadKeeps ==
  ASSUME TypeOK, RoutingInv, NEW c \in Callers, Read(c)
  PROVE  RoutingInv'
<1>0. PICK m : m = Head(shelf[By(c)])
  OBVIOUS
<1>1. /\ By(c) \in SharedRequests /\ shelf[By(c)] # <<>> /\ shelf[By(c)] \in Seq(Message)
      /\ state' = After({d \in {c} : Accepts(d, m)}, m)
      /\ shelf' = [shelf EXCEPT ![By(c)] = Tail(shelf[By(c)])]
      /\ SameCalls /\ UNCHANGED <<requests, orders, executions, stream, nextRequest, told>>
  BY <1>0, ReadFacts DEF tables, broker
<1>2. /\ {d \in {c} : Accepts(d, m)} \in SUBSET Callers
      /\ \A d \in {e \in {c} : Accepts(e, m)} : state[d] = "open"
  BY DEF Accepts
<1>3. \A d \in Callers : (Live(d)' <=> Live(d)) /\ (state'[d] = "open" => state[d] = "open")
  BY <1>1, <1>2, AfterFacts
<1>4. CallInv' /\ RequestInv' /\ OrderInv' /\ StreamInv'
  BY <1>1, <1>3, QuietKeeps
<1>5. \A d \in Callers : By(d)' = By(d)
  BY <1>1, SameCallsFacts
<1>6. UNCHANGED <<id, founder>>
  BY <1>1 DEF SameCalls
<1>7. ExecutionInv'
  BY <1>1, <1>3, <1>5, <1>6 DEF RoutingInv, ExecutionInv
<1>8. ShelfInv'
  <2> SUFFICES ASSUME NEW r \in UsedRequests, NEW n \in 1..Len(shelf'[r])
               PROVE  shelf'[r][n].req = Unspecified /\ shelf'[r][n].kind \in Responses[r]
    BY DEF ShelfInv
  <2>1. shelf \in [SharedRequests -> Seq(Message)] /\ r \in SharedRequests
    BY DEF TypeOK, UsedRequests
  <2>2. CASE r = By(c)
    <3>1. shelf'[r] = Tail(shelf[r]) /\ shelf[r] # <<>> /\ shelf[r] \in Seq(Message)
      BY <1>1, <2>1, <2>2
    <3>2. n + 1 \in 1..Len(shelf[r]) /\ shelf'[r][n] = shelf[r][n + 1]
      BY <3>1
    <3> QED  BY <3>2 DEF RoutingInv, ShelfInv
  <2>3. CASE r # By(c)
    <3>1. shelf'[r] = shelf[r]
      BY <1>1, <2>1, <2>3
    <3> QED  BY <3>1 DEF RoutingInv, ShelfInv
  <2> QED  BY <2>2, <2>3
<1> QED  BY <1>4, <1>7, <1>8 DEF RoutingInv

\* The invariant holds at first.
LEMMA InitRouting == Init => RoutingInv
<1> SUFFICES ASSUME Init PROVE RoutingInv
  OBVIOUS
<1>1. /\ \A c \in Callers : By(c) = "" /\ founder[c] = None /\ state[c] = "idle"
      /\ \A n \in Ids : requests[n] = None /\ orders[n] = None /\ executions[n] = None /\ told[n] = {}
      /\ stream = None
      /\ \A r \in SharedRequests : shelf[r] = <<>>
      /\ None \notin Callers
  BY CallersAssumption DEF Init, By, NoEntry
<1>2. CallInv
  BY <1>1 DEF CallInv, IdInv, FounderInv, Channelled
<1>3. RequestInv /\ OrderInv /\ StreamInv /\ ExecutionInv
  BY <1>1 DEF RequestInv, OrderInv, StreamInv, ExecutionInv
<1>4. ShelfInv
  <2> SUFFICES ASSUME NEW r \in UsedRequests, NEW n \in 1..Len(shelf[r]) PROVE FALSE
    BY DEF ShelfInv
  <2>1. shelf[r] = <<>>
    BY <1>1 DEF UsedRequests
  <2> QED  BY <2>1
<1> QED  BY <1>2, <1>3, <1>4 DEF RoutingInv

\* The invariant holds.
LEMMA Registered == Spec => []RoutingInv
<1>1. TypeOK /\ RoutingInv /\ [Next]_vars => RoutingInv'
  <2> SUFFICES ASSUME TypeOK, RoutingInv, [Next]_vars PROVE RoutingInv'
    OBVIOUS
  <2>1. ASSUME NEW c \in Callers, Call(c) \/ Drop(c) \/ Read(c) PROVE RoutingInv'
    BY <2>1, CallKeeps, DropKeeps, ReadKeeps
  <2>2. ASSUME NEW m \in Sent, Dispatch(m) PROVE RoutingInv'
    BY <2>2, DispatchKeeps
  <2>3. CASE UNCHANGED vars
    <3>1. /\ SameCalls
          /\ UNCHANGED <<state, requests, orders, executions, stream, nextRequest, shelf, told>>
      BY <2>3 DEF vars, clients, tables, broker, SameCalls
    <3>2. \A c \in Callers : Live(c)' <=> Live(c)
      BY <3>1 DEF Live
    <3>3. CallInv' /\ RequestInv' /\ OrderInv' /\ StreamInv'
      BY <3>1, <3>2, QuietKeeps
    <3>4. \A c \in Callers : By(c)' = By(c)
      BY <3>1, SameCallsFacts
    <3>5. ExecutionInv' /\ ShelfInv'
      BY <3>1, <3>4 DEF SameCalls, RoutingInv, ExecutionInv, ShelfInv
    <3> QED  BY <3>3, <3>5 DEF RoutingInv
  <2> QED  BY <2>1, <2>2, <2>3 DEF Next
<1> QED  BY <1>1, InitRouting, RoutingTypesHold, PTL DEF Spec

-------------------------------------------------------------------------------
(* The properties: each says of the last step what became of its message. *)

\* A step that routes or reads no message has nothing to answer for.
QuietStep == last' = NoRouting
RoutingStep(m) ==
  /\ m \in Sent /\ TypeOK /\ RoutingInv /\ SameCalls
  /\ UNCHANGED <<stream, requests, orders>>
  /\ last'.message = m /\ last'.reached = Reached(m) /\ last'.shelved = Shelved(m) /\ ~ last'.read
  /\ last'.took = {c \in Reached(m) : Accepts(c, m)}
  /\ state' = After(last'.took, m)
  /\ m.kind # "ExecutionData" => told' = told
ReadStep(c) ==
  /\ c \in Callers /\ SameCalls /\ By(c) \in UsedRequests
  /\ last'.read /\ last'.took \subseteq {c}
  /\ last'.message.req = Unspecified /\ last'.message.kind \in Responses[By(c)]

\* Every step is quiet, routes a message, reads a queue or changes nothing.
LEMMA Steps ==
  ASSUME TypeOK, RoutingInv, [Next]_vars
  PROVE  \/ QuietStep
         \/ \E m : RoutingStep(m)
         \/ \E c : ReadStep(c)
         \/ UNCHANGED vars
<1>1. ASSUME NEW c \in Callers, Call(c) PROVE QuietStep
  BY <1>1 DEF Call, Request, OrderRequest, Submit, SharedRequest, Updates, Makes, QuietStep
<1>2. ASSUME NEW c \in Callers, Drop(c) PROVE QuietStep
  BY <1>2 DEF Drop, QuietStep
<1>3. ASSUME NEW m \in Sent, Dispatch(m) PROVE RoutingStep(m)
  <2>1. last' = [message |-> m, reached |-> Reached(m), took |-> {c \in Reached(m) : Accepts(c, m)},
                 shelved |-> Shelved(m), read |-> FALSE]
    BY <1>3, DispatchFacts
  <2>2. /\ state' = After({c \in Reached(m) : Accepts(c, m)}, m) /\ SameCalls
        /\ UNCHANGED <<stream, requests, orders>>
    BY <1>3, DispatchFacts
  <2>3. m.kind # "ExecutionData" => told' = told
    BY <1>3, DispatchFacts
  <2> QED  BY <2>1, <2>2, <2>3 DEF RoutingStep
<1>4. ASSUME NEW c \in Callers, Read(c) PROVE ReadStep(c)
  <2>1. PICK m : m = Head(shelf[By(c)])
    OBVIOUS
  <2>2. /\ By(c) \in SharedRequests /\ shelf[By(c)] # <<>> /\ shelf[By(c)] \in Seq(Message) /\ SameCalls
        /\ last' = [message |-> m, reached |-> {c}, took |-> {d \in {c} : Accepts(d, m)},
                    shelved |-> {By(c)}, read |-> TRUE]
    BY <1>4, <2>1, ReadFacts
  <2>3. By(c) \in UsedRequests
    <3>1. By(c) # "" /\ By(c) \notin {"request", "order", "updates", "nothing"}
      BY <2>2, SharedNames
    <3> QED  BY <3>1, CallerFacts
  <2>4. m = shelf[By(c)][1] /\ 1 \in 1..Len(shelf[By(c)])
    BY <2>1, <2>2
  <2>5. m.req = Unspecified /\ m.kind \in Responses[By(c)]
    BY <2>3, <2>4 DEF RoutingInv, ShelfInv
  <2> QED  BY <2>2, <2>3, <2>5 DEF ReadStep
<1> QED  BY <1>1, <1>2, <1>3, <1>4 DEF Next

\* What a step that routes a message leaves alone, and who takes it.
LEMMA RoutingStepFacts ==
  ASSUME NEW m, RoutingStep(m)
  PROVE  /\ TypeOK /\ RoutingInv /\ m \in Message
         /\ \A c \in Callers :
              /\ By(c)' = By(c)
              /\ Live(c)' <=> Live(c)
              /\ state'[c] = "open" => state[c] = "open"
              /\ state[c] = "ended" => state'[c] = "ended"
         /\ \A c \in last'.took : c \in Callers /\ c \in Reached(m) /\ Accepts(c, m) /\ state[c] = "open"
         /\ \A c \in Callers : c \in Reached(m) /\ Accepts(c, m) => c \in last'.took
         /\ UNCHANGED <<api, id, transport, founder>>
<1>1. TypeOK /\ RoutingInv /\ m \in Message
  BY SentTypes DEF RoutingStep
<1>2. \A c \in Callers : By(c)' = By(c)
  BY <1>1, SameCallsFacts DEF RoutingStep
<1>3. \A c \in last'.took : c \in Callers /\ c \in Reached(m) /\ Accepts(c, m) /\ state[c] = "open"
  BY <1>1, ReachedType DEF RoutingStep, Accepts
<1>4. last'.took \in SUBSET Callers /\ \A c \in last'.took : state[c] = "open"
  BY <1>3
<1>5. \A c \in Callers :
        /\ Live(c)' <=> Live(c)
        /\ state'[c] = "open" => state[c] = "open"
        /\ state[c] = "ended" => state'[c] = "ended"
  <2>1. PICK took : took = last'.took
    OBVIOUS
  <2>2. state' = After(took, m) /\ took \in SUBSET Callers /\ \A c \in took : state[c] = "open"
    BY <2>1, <1>4 DEF RoutingStep
  <2> QED  BY <1>1, <2>2, AfterFacts
<1>6. \A c \in Callers : c \in Reached(m) /\ Accepts(c, m) => c \in last'.took
  BY DEF RoutingStep
<1> QED  BY <1>1, <1>2, <1>3, <1>5, <1>6 DEF RoutingStep, SameCalls

\* What a message that names an asker, or none, may be.
LEMMA OrderMeansKind ==
  ASSUME TypeOK, NEW m \in Sent
  PROVE  /\ m.kind = "CommissionsReport" => m.asker = None /\ m.req = Unspecified
         /\ m.asker = None /\ m.kind \notin Faults => IsEvent(m)
         /\ m.asker # None /\ m.kind \notin Faults => m.asker \in Callers /\ IsAnswerTo(m, m.asker)
<1>1. "CommissionsReport" \notin Faults /\ None \notin Callers
  BY CallersAssumption DEF Faults
<1>2. m = [Nothing EXCEPT !.kind = "Warning"] => m.kind \in Faults
  BY DEF Nothing, Faults
<1>3. \A c \in Callers : IsAnswerTo(m, c) => m.kind # "CommissionsReport" /\ m.kind \notin Faults /\ m.asker = c
  BY AnswerFacts DEF IsAnswerTo
<1>4. IsEvent(m) => m.asker = None /\ m.req = Unspecified
  BY DEF IsEvent
<1> QED  BY <1>1, <1>2, <1>3, <1>4, SentMessages DEF IsFaultOf

\* What a call takes of a routed message.
LEMMA TakenIsOwn ==
  ASSUME NEW m, RoutingStep(m), NEW c \in last'.took
  PROVE  \/ c = m.asker
         \/ By(c) = "order" /\ m.ord = id[c]
         \/ By(c) = "updates" /\ m.kind \in OrderKinds
         \/ By(c) \in SharedRequests /\ m.req = Unspecified /\ m.kind \in Responses[By(c)]
         \/ m.kind = "CommissionsReport" /\ c \in told'[m.ord]
         \/ Mistaken(c, m)
<1>1. TypeOK /\ RoutingInv /\ m \in Sent /\ c \in Callers /\ c \in Reached(m) /\ Accepts(c, m) /\ state[c] = "open"
  BY RoutingStepFacts DEF RoutingStep
<1>2. CASE c \in Listeners(Channel(m))
  <2>1. PICK f : f = Channel(m)
    OBVIOUS
  <2>2. /\ f \in Callers /\ By(c) = By(f) /\ id[c] = id[f] /\ founder[c] = f
        /\ By(c) # "order" => c = f
    BY <1>1, <1>2, <2>1, ListenerFacts
  <2>3. CASE By(f) = "order" /\ id[f] = m.ord
    BY <2>2, <2>3
  <2>4. CASE By(f) = "request" /\ f = m.asker
    BY <2>2, <2>4
  <2>5. CASE m.kind = "CommissionsReport" /\ m.ord \in Ids /\ f = executions[m.ord]
    <3>1. \/ By(f) = "order" /\ id[f] = m.ord
          \/ By(f) = "request" /\ (state[f] = "open" => f \in told[m.ord])
      BY <1>1, <2>2, <2>5 DEF RoutingInv, ExecutionInv
    <3>2. told' = told
      BY <2>5 DEF RoutingStep
    <3> QED  BY <1>1, <2>2, <2>5, <3>1, <3>2
  <2>6. CASE Mistaken(f, m)
    BY <2>2, <2>6 DEF Mistaken
  <2>7. ~ Misled(f, m)
    <3>1. ASSUME By(c) = "order" PROVE m.kind \in Faults \cup OrderKinds
      <4>1. api[c] # None /\ Api[api[c]].takes \subseteq OrderKinds
        BY <1>1, <3>1, CallerFacts
      <4> QED  BY <1>1, <4>1 DEF Accepts
    <3> QED  BY <2>2, <3>1 DEF Misled
  <2> QED  BY <1>1, <2>1, <2>2, <2>3, <2>4, <2>5, <2>6, <2>7, ChannelFacts
<1>3. CASE c = stream
  <2>1. By(c) = "updates"
    BY <1>1, <1>3 DEF RoutingInv, StreamInv
  <2>2. api[c] # None /\ Api[api[c]].takes = OrderKinds
    BY <1>1, <2>1, CallerFacts
  <2>3. m.kind \in OrderKinds
    BY <1>1, <2>1, <2>2 DEF Accepts
  <2> QED  BY <2>1, <2>3
<1>4. CASE By(c) \in SharedChannels(m)
  <2>1. By(c) \in SharedRequests
    BY <1>4 DEF SharedChannels, ChannelsOf
  <2>2. By(c) \in UsedRequests
    <3>1. By(c) # "" /\ By(c) \notin {"request", "order", "updates", "nothing"}
      BY <2>1, SharedNames
    <3> QED  BY <1>1, <3>1, CallerFacts
  <2> QED  BY <1>1, <1>4, <2>1, <2>2, SharedFacts
<1> QED  BY <1>1, <1>2, <1>3, <1>4 DEF Reached

\* Nothing strays, with any number of callers, whatever each has called and wherever
\* the two sorts of ids start: the tables of ids, the shared channels and the decoders
\* keep the calls apart, and only a fault is mistaken, of a number that has two.
THEOREM NothingGoesAstray == Spec => []NothingStrays
<1>1. Init => NothingStrays
  BY DEF Init, NothingStrays, NoRouting
<1>2. TypeOK /\ RoutingInv /\ NothingStrays /\ [Next]_vars => NothingStrays'
  <2> SUFFICES ASSUME TypeOK, RoutingInv, NothingStrays, [Next]_vars PROVE NothingStrays'
    OBVIOUS
  <2>1. CASE QuietStep
    BY <2>1 DEF QuietStep, NoRouting, NothingStrays
  <2>2. ASSUME NEW m, RoutingStep(m) PROVE NothingStrays'
    <3>1. last'.message = m
      BY <2>2 DEF RoutingStep
    <3>2. UNCHANGED id /\ \A c \in Callers : By(c)' = By(c)
      BY <2>2, RoutingStepFacts
    <3>3. ASSUME NEW c \in last'.took
          PROVE  \/ c = m.asker
                 \/ By(c)' = "order" /\ m.ord = id'[c]
                 \/ By(c)' = "updates" /\ m.kind \in OrderKinds
                 \/ By(c)' \in SharedRequests /\ m.req = Unspecified /\ m.kind \in Responses[By(c)']
                 \/ m.kind = "CommissionsReport" /\ c \in told'[m.ord]
                 \/ /\ m.kind \in Faults /\ m.req = id'[c]
                    /\ By(c)' = IF m.ord = Unspecified THEN "order" ELSE "request"
      <4>1. c \in Callers
        BY <2>2, RoutingStepFacts
      <4> QED  BY <2>2, <3>2, <4>1, TakenIsOwn DEF Mistaken
    <3> QED  BY <3>1, <3>3 DEF NothingStrays, AboutItsOrder, Mistaken
  <2>3. ASSUME NEW c, ReadStep(c) PROVE NothingStrays'
    <3>1. By(c)' = By(c) /\ By(c) \in SharedRequests /\ c \in Callers
      BY <2>3, SameCallsFacts DEF ReadStep, UsedRequests
    <3>2. ASSUME NEW d \in last'.took
          PROVE  By(d)' \in SharedRequests /\ last'.message.req = Unspecified /\ last'.message.kind \in Responses[By(d)']
      <4>1. d = c
        BY <2>3 DEF ReadStep
      <4>2. \A e \in Callers : By(e)' = By(e)
        BY <2>3, SameCallsFacts DEF ReadStep
      <4> QED  BY <2>3, <3>1, <4>1, <4>2 DEF ReadStep
    <3> QED  BY <3>2 DEF NothingStrays
  <2>4. CASE UNCHANGED vars
    BY <2>4 DEF vars, clients, tables, broker, NothingStrays, AboutItsOrder, Mistaken, By
  <2> QED  BY <2>1, <2>2, <2>3, <2>4, Steps
<1> QED  BY <1>1, <1>2, RoutingTypesHold, Registered, PTL DEF Spec

\* What is put on the channel of an order reaches somebody who follows it.
LEMMA OrderEntryReaches ==
  ASSUME TypeOK, RoutingInv, NEW m, NEW n, Channel(m) = Entry(orders, n), Channel(m) # None
  PROVE  \E d \in Callers : d \in Reached(m) /\ By(d) = "order" /\ n = id[d]
<1>1. PICK f : f = Channel(m)
  OBVIOUS
<1>2. n \in Ids /\ orders[n] = f /\ f \in Callers
  BY <1>1 DEF Entry, TypeOK, CallerOrNone
<1>3. By(f) = "order" /\ id[f] = n /\ \E d \in Callers : founder[d] = f /\ Live(d)
  BY <1>2 DEF RoutingInv, OrderInv
<1>4. PICK d \in Callers : founder[d] = f /\ Live(d)
  BY <1>3
<1>5. d \in Listeners(f)
  BY <1>2, <1>4, CallersAssumption DEF Listeners, Live
<1>6. By(d) = "order" /\ id[d] = n
  BY <1>3, <1>5, ListenerFacts
<1> QED  BY <1>1, <1>5, <1>6 DEF Reached

\* An answer to a call that is there reaches it, waits for it, or goes to the
\* order it is about, or, the end of executions, to that of its number.
LEMMA AnswerReaches ==
  ASSUME TypeOK, RoutingInv, NEW m \in Sent, NEW c \in Callers, IsAnswerTo(m, c), Live(c)
  PROVE  \/ c \in Reached(m)
         \/ By(c) \in Shelved(m)
         \/ m.ord # Unspecified /\ \E d \in Callers : d \in Reached(m) /\ By(d) = "order" /\ m.ord = id[d]
         \/ m.kind = "ExecutionDataEnd" /\ \E d \in Callers : d \in Reached(m) /\ By(d) = "order" /\ m.req = id[d]
<1>0. transport \in {"async", "sync"} /\ None \notin Callers
  BY CallersAssumption DEF TypeOK
<1>1. CASE By(c) = "request" /\ m.kind \in AskedKinds /\ m.req = id[c]
  <2>1. Entry(requests, m.req) = c /\ RequestOrOrder(m.req) = c
    BY <1>1, AskerFound
  <2>2. ASSUME Channel(m) = c PROVE c \in Reached(m)
    <3>1. c \in Listeners(c)
      BY <1>1, FounderListens DEF Channelled
    <3> QED  BY <2>2, <3>1 DEF Reached
  <2>3. CASE Destination(m.kind) = "ByRequestId"
    BY <2>1, <2>2, <2>3, ChannelByDestination
  <2>4. CASE /\ m.kind \in {"ExecutionData", "ExecutionDataEnd"}
             /\ Destination(m.kind) = "ByOrderId" /\ Strategy(m.kind) = m.kind
    <3>1. Channel(m) = ExecutionChannel(m)
      BY <2>4, ChannelByDestination
    <3>2. CASE m.kind = "ExecutionDataEnd"
      <4>1. CASE Entry(orders, m.req) = None
        BY <2>1, <2>2, <3>1, <3>2, <4>1 DEF ExecutionChannel
      <4>2. CASE Entry(orders, m.req) # None
        <5>1. Channel(m) = Entry(orders, m.req)
          BY <3>1, <3>2, <4>2 DEF ExecutionChannel
        <5> QED  BY <3>2, <4>2, <5>1, OrderEntryReaches
      <4> QED  BY <4>1, <4>2
    <3>3. CASE m.kind = "ExecutionData" /\ Entry(orders, m.ord) = None
      BY <2>1, <2>2, <3>1, <3>3 DEF ExecutionChannel
    <3>4. CASE m.kind = "ExecutionData" /\ Entry(orders, m.ord) # None
      <4>1. Channel(m) = Entry(orders, m.ord)
        BY <3>1, <3>4 DEF ExecutionChannel
      <4>2. m.ord # Unspecified
        BY <3>4, IdFacts DEF Entry
      <4> QED  BY <3>4, <4>1, <4>2, OrderEntryReaches
    <3> QED  BY <2>4, <3>2, <3>3, <3>4
  <2> QED  BY <1>1, <2>3, <2>4, AskedKindsRouted
<1>2. CASE By(c) \in UsedRequests /\ m.kind \in Responses[By(c)]
  <2>1. By(c) \in ChannelsOf(m.kind)
    BY <1>2 DEF ChannelsOf, UsedRequests
  <2>2. ASSUME SharedChannels(m) = ChannelsOf(m.kind) PROVE c \in Reached(m) \/ By(c) \in Shelved(m)
    <3>1. CASE transport = "async"
      BY <2>1, <2>2, <3>1 DEF Reached, Live
    <3>2. CASE transport = "sync"
      BY <2>1, <2>2, <3>2 DEF Shelved
    <3> QED  BY <1>0, <3>1, <3>2
  <2>3. CASE Destination(m.kind) = "Shared"
    BY <2>2, <2>3, SharedByDestination
  <2>4. CASE Destination(m.kind) = "ByOrderId" /\ Strategy(m.kind) = "SharedOnly"
    BY <2>2, <2>4, SharedByDestination
  <2>5. CASE Destination(m.kind) = "ByOrderId" /\ Strategy(m.kind) = "OrderOrShared"
    <3>1. CASE Channel(m) = None
      BY <2>2, <2>5, <3>1, SharedByDestination
    <3>2. CASE Channel(m) # None
      <4>1. Channel(m) = Entry(orders, m.ord)
        BY <2>5, ChannelByDestination
      <4>2. m.ord # Unspecified
        BY <3>2, <4>1, IdFacts DEF Entry
      <4> QED  BY <3>2, <4>1, <4>2, OrderEntryReaches
    <3> QED  BY <3>1, <3>2
  <2>6. PICK r \in UsedRequests : r = By(c)
    BY <1>2
  <2>7. PICK k \in Responses[r] : k = m.kind
    BY <1>2, <2>6
  <2>8. \/ Destination(k) = "Shared"
        \/ Destination(k) = "ByOrderId" /\ Strategy(k) \in {"SharedOnly", "OrderOrShared"}
    BY SharedKindsRouted
  <2> QED  BY <2>3, <2>4, <2>5, <2>7, <2>8
<1>3. \/ By(c) = "request" /\ m.kind \in AskedKinds /\ m.req = id[c]
      \/ By(c) \in UsedRequests /\ m.kind \in Responses[By(c)]
  BY AnswerFacts
<1> QED  BY <1>1, <1>2, <1>3

\* No answer is lost: whatever is called, dropped, modified and routed before it,
\* an answer finds the call that asked for it.
THEOREM NoAnswerIsLost == Spec => []AnswersArrive
<1>1. Init => AnswersArrive
  <2> SUFFICES ASSUME Init PROVE AnswersArrive
    OBVIOUS
  <2>1. last = NoRouting
    BY DEF Init
  <2>2. last.message.asker = None /\ last.message.kind = ""
    BY <2>1 DEF NoRouting, Nothing
  <2> QED  BY <2>2 DEF AnswersArrive
<1>2. TypeOK /\ RoutingInv /\ AnswersArrive /\ [Next]_vars => AnswersArrive'
  <2> SUFFICES ASSUME TypeOK, RoutingInv, AnswersArrive, [Next]_vars PROVE AnswersArrive'
    OBVIOUS
  <2>1. CASE QuietStep
    BY <2>1 DEF QuietStep, NoRouting, Nothing, AnswersArrive
  <2>2. ASSUME NEW m, RoutingStep(m) PROVE AnswersArrive'
    <3>0. PICK c : c = m.asker
      OBVIOUS
    <3>1. /\ last'.message = m /\ last'.reached = Reached(m) /\ last'.shelved = Shelved(m)
          /\ m \in Sent
      BY <2>2 DEF RoutingStep
    <3>2. /\ UNCHANGED <<id, api>> /\ \A d \in Callers : By(d)' = By(d)
          /\ \A d \in Callers : state[d] = "ended" => state'[d] = "ended"
          /\ \A d \in Callers : Live(d)' <=> Live(d)
          /\ \A d \in Callers : d \in Reached(m) /\ Accepts(d, m) => d \in last'.took
      BY <2>2, RoutingStepFacts
    <3>3. ASSUME c # None, Live(c)', m.kind \notin Faults
          PROVE  \/ c \in last'.took
                 \/ c \in Reached(m) /\ state'[c] = "ended"
                 \/ By(c)' \in Shelved(m)
                 \/ m.ord # Unspecified /\ \E d \in Reached(m) : By(d)' = "order" /\ m.ord = id'[d]
                 \/ m.kind = "ExecutionDataEnd" /\ \E d \in Reached(m) : By(d)' = "order" /\ id'[d] = m.req
      <4>1. c \in Callers /\ IsAnswerTo(m, c)
        BY <3>0, <3>1, <3>3, OrderMeansKind
      <4>2. Live(c)
        BY <3>2, <3>3, <4>1
      <4>3. CASE c \in Reached(m)
        <5>1. CASE state[c] = "open"
          <6>1. m.kind \in Api[api[c]].takes
            BY <4>1, AnswerFacts
          <6>2. Accepts(c, m)
            BY <5>1, <6>1, <3>3 DEF Accepts
          <6> QED  BY <3>2, <4>1, <4>3, <6>2
        <5>2. CASE state[c] = "ended"
          BY <3>2, <4>1, <4>3, <5>2
        <5> QED  BY <4>2, <5>1, <5>2 DEF Live
      <4>4. CASE By(c) \in Shelved(m)
        BY <3>2, <4>1, <4>4
      <4>5. CASE m.ord # Unspecified /\ \E d \in Callers : d \in Reached(m) /\ By(d) = "order" /\ m.ord = id[d]
        BY <3>2, <4>5
      <4>6. CASE m.kind = "ExecutionDataEnd" /\ \E d \in Callers : d \in Reached(m) /\ By(d) = "order" /\ m.req = id[d]
        BY <3>2, <4>6
      <4> QED  BY <3>1, <4>1, <4>2, <4>3, <4>4, <4>5, <4>6, AnswerReaches
    <3> QED  BY <3>0, <3>1, <3>3 DEF AnswersArrive, AboutItsOrder, Live
  <2>3. ASSUME NEW c, ReadStep(c) PROVE AnswersArrive'
    BY <2>3 DEF ReadStep, AnswersArrive
  <2>4. CASE UNCHANGED vars
    BY <2>4 DEF vars, clients, tables, broker, AnswersArrive, AboutItsOrder, By
  <2> QED  BY <2>1, <2>2, <2>3, <2>4, Steps
<1> QED  BY <1>1, <1>2, RoutingTypesHold, Registered, PTL DEF Spec

\* A commission goes where the last report of its execution went, though the
\* entries of the order and of the request may be gone by then.
THEOREM CommissionsGoWithExecutions == Spec => []CommissionsFollow
<1>1. Init => CommissionsFollow
  <2> SUFFICES ASSUME Init PROVE CommissionsFollow
    OBVIOUS
  <2>1. last = NoRouting
    BY DEF Init
  <2>2. last.message.asker = None /\ last.message.kind = ""
    BY <2>1 DEF NoRouting, Nothing
  <2> QED  BY <2>2 DEF CommissionsFollow
<1>2. TypeOK /\ RoutingInv /\ CommissionsFollow /\ [Next]_vars => CommissionsFollow'
  <2> SUFFICES ASSUME TypeOK, RoutingInv, CommissionsFollow, [Next]_vars PROVE CommissionsFollow'
    OBVIOUS
  <2>1. CASE QuietStep
    BY <2>1 DEF QuietStep, NoRouting, Nothing, CommissionsFollow
  <2>2. ASSUME NEW m, RoutingStep(m) PROVE CommissionsFollow'
    <3>1. last'.message = m /\ m \in Sent /\ (m.kind # "ExecutionData" => told' = told)
      BY <2>2 DEF RoutingStep
    <3>2. /\ UNCHANGED api
          /\ \A d \in Callers : state'[d] = "open" => state[d] = "open"
          /\ \A d \in Callers : d \in Reached(m) /\ Accepts(d, m) => d \in last'.took
      BY <2>2, RoutingStepFacts
    <3>3. ASSUME m.kind = "CommissionsReport", NEW c \in told'[m.ord],
                 state'[c] = "open", m.kind \in Api[api'[c]].takes
          PROVE  c \in last'.took
      <4>1. IsEvent(m)
        BY <3>1, <3>3, OrderMeansKind DEF Faults
      <4>2. m.ord \in Ids
        BY <3>3, <4>1, IdFacts DEF IsEvent, TypeOK
      <4>3. c \in told[m.ord] /\ c \in Callers
        BY <3>1, <3>3, <4>2 DEF TypeOK
      <4>4. founder[c] # None /\ founder[c] = executions[m.ord]
        BY <4>2, <4>3 DEF RoutingInv, ExecutionInv
      <4>5. Channel(m) = Entry(executions, m.ord)
        BY <3>3, OrderKindsRouted, ChannelByDestination DEF OrderKinds
      <4>6. state[c] = "open"
        BY <3>2, <3>3, <4>3
      <4>7. c \in Listeners(Channel(m))
        BY <4>2, <4>3, <4>4, <4>5, <4>6 DEF Listeners, Entry
      <4>8. Accepts(c, m)
        BY <3>2, <3>3, <4>6 DEF Accepts, Faults
      <4> QED  BY <3>2, <4>3, <4>7, <4>8 DEF Reached
    <3> QED  BY <3>1, <3>3 DEF CommissionsFollow
  <2>3. ASSUME NEW c, ReadStep(c) PROVE CommissionsFollow'
    BY <2>3 DEF ReadStep, CommissionsFollow
  <2>4. CASE UNCHANGED vars
    BY <2>4 DEF vars, clients, tables, broker, CommissionsFollow
  <2> QED  BY <2>1, <2>2, <2>3, <2>4, Steps
<1> QED  BY <1>1, <1>2, RoutingTypesHold, Registered, PTL DEF Spec

\* Each event of an order reaches all who follow it, whoever joined and whoever
\* left before; synchronously, the one who follows it.
THEOREM EventsReachFollowers == Spec => []FollowersAreTold
<1>1. Init => FollowersAreTold
  BY DEF Init, FollowersAreTold, NoRouting, Nothing
<1>2. TypeOK /\ RoutingInv /\ FollowersAreTold /\ [Next]_vars => FollowersAreTold'
  <2> SUFFICES ASSUME TypeOK, RoutingInv, FollowersAreTold, [Next]_vars PROVE FollowersAreTold'
    OBVIOUS
  <2>1. CASE QuietStep
    BY <2>1 DEF QuietStep, NoRouting, Nothing, FollowersAreTold
  <2>2. ASSUME NEW m, RoutingStep(m) PROVE FollowersAreTold'
    <3>1. last'.message = m /\ last'.reached = Reached(m) /\ m \in Sent
      BY <2>2 DEF RoutingStep
    <3>2. /\ UNCHANGED <<id, transport>> /\ \A d \in Callers : By(d)' = By(d)
          /\ \A d \in Callers : state'[d] = "open" => state[d] = "open"
      BY <2>2, RoutingStepFacts
    <3>3. ASSUME m.asker = None, m.kind \in {"OpenOrder", "OrderStatus", "ExecutionData"},
                 NEW c \in Callers, By(c)' = "order", m.ord = id'[c], state'[c] = "open",
                 \/ transport' = "async"
                 \/ \A d \in Callers \ {c} : ~ (By(d)' = "order" /\ m.ord = id'[d])
          PROVE  c \in Reached(m)
      <4>1. By(c) = "order" /\ m.ord = id[c] /\ state[c] = "open"
        BY <3>2, <3>3
      <4>2. transport = "async" \/ Alone(c)
        BY <3>2, <3>3, <4>1 DEF Alone
      <4>3. orders[m.ord] = founder[c] /\ m.ord \in Ids
        BY <4>1, <4>2, IdFacts DEF Live, RoutingInv, OrderInv, CallInv, IdInv
      <4>4. m.req = Unspecified
        BY <3>1, <3>3, OrderMeansKind DEF IsEvent, Faults
      <4>5. Channel(m) = Entry(orders, m.ord)
        <5>1. m.kind \in OrderKinds /\ m.kind # "CommissionsReport" /\ m.kind # "ExecutionDataEnd"
          BY <3>3 DEF OrderKinds
        <5>2. Channel(m) = OrderChannel(m)
          BY <5>1, OrderKindsRouted, ChannelByDestination
        <5>3. CASE Strategy(m.kind) = "OrderOrShared"
          BY <5>2, <5>3, ChannelByDestination
        <5>4. CASE m.kind = "ExecutionData" /\ Strategy(m.kind) = "ExecutionData"
          <6>1. Entry(requests, m.req) = None
            BY <4>4, IdFacts DEF Entry
          <6>2. OrderChannel(m) = ExecutionChannel(m)
            BY <5>4, ChannelByDestination
          <6> QED  BY <5>2, <5>4, <6>1, <6>2 DEF ExecutionChannel
        <5> QED  BY <5>1, <5>3, <5>4, OrderKindsRouted
      <4>6. c \in Listeners(founder[c])
        BY <4>1, FounderListens DEF Live, Channelled
      <4>7. Channel(m) = founder[c]
        BY <4>3, <4>5 DEF Entry
      <4> QED  BY <4>6, <4>7 DEF Reached
    <3> QED  BY <3>1, <3>3 DEF FollowersAreTold, AboutItsOrder
  <2>3. ASSUME NEW c, ReadStep(c) PROVE FollowersAreTold'
    BY <2>3 DEF ReadStep, FollowersAreTold
  <2>4. CASE UNCHANGED vars
    BY <2>4 DEF vars, clients, tables, broker, FollowersAreTold, AboutItsOrder, By
  <2> QED  BY <2>1, <2>2, <2>3, <2>4, Steps
<1> QED  BY <1>1, <1>2, RoutingTypesHold, Registered, PTL DEF Spec

-------------------------------------------------------------------------------
(* A channel of the asynchronous client and its readers.                       *)

\* Where a reader stands: as long as it was told of no end it is past exactly
\* what it was given; and each flag says of which end it was told.
ReaderInv(r) ==
    /\ pos[r] <= Len(sent)
    /\ gave[r] = "nothing" => pos[r] = start[r] + Len(got[r])
    /\ gave[r] = "none" => ~open /\ pos[r] = Len(sent)
    /\ completed[r] => gave[r] = "end"
    /\ gave[r] = "end" => completed[r] /\ streamEnded[r]
    /\ gave[r] = "error" => streamEnded[r] \/ lagged[r]
    /\ streamEnded[r] => style = "typed" /\ gave[r] \in {"end", "error"}
    /\ lagged[r] => style = "raw" /\ gave[r] = "error"
    /\ handle[r] = "absent" => /\ gave[r] = "nothing" /\ task[r] = "idle"
                               /\ got[r] = <<>>

ReadersInv == \A r \in Reader : ReaderInv(r)

\* Where the cancellation stands: what each flag and each call in progress
\* proves of the writes.
CancelInv ==
    /\ written => attempted
    /\ cancelSent => written
    /\ \A r \in Reader : task[r] \in {"wroteCancel", "wroteTry", "marked"} => written
    /\ \A r \in Reader : task[r] # "idle" => style = "typed"
    /\ cancelled /\ cancelFn => attempted \/ spawned > 0
    /\ \A r \in Reader : handle[r] = "dropped" => cancelled \/ style = "raw"
    /\ style = "raw" => ~cancelFn
    /\ \E r \in Reader : handle[r] # "absent"
    /\ \A r \in Reader : task[r] # "idle" => handle[r] = "live"

\* The actions of one reader that read, by what they leave alone.
LEMMA PollTypes ==
    ASSUME SubscriptionTypeOK, NEW r \in Reader, Poll(r)
    PROVE  SubscriptionTypeOK'
<1> USE CapacityAssumption, BoundAssumption DEF SubscriptionTypeOK, Item
<1>0. Overwritten \in Nat
  BY DEF Overwritten
<1>1. CASE PollItem(r)
  <2>1. sent[pos[r] + 1] \in Item
    BY <1>1 DEF PollItem
  <2> QED  BY <1>1, <2>1 DEF PollItem, channel, flags, session
<1>2. CASE PollEnd(r)
  BY <1>2 DEF PollEnd, channel, flags, session
<1>3. CASE PollError(r)
  BY <1>3 DEF PollError, channel, flags, session
<1>4. CASE PollLagged(r)
  BY <1>0, <1>4 DEF PollLagged, channel, flags, session
<1>5. CASE PollClosed(r)
  BY <1>5 DEF PollClosed, channel, flags, session
<1>6. CASE RawItem(r)
  <2>1. pos[r] + 1 \in 1..Len(sent)
    BY <1>0, <1>6 DEF RawItem, HasNext
  <2>2. sent[pos[r] + 1] \in Item
    BY <2>1
  <2> QED  BY <1>6, <2>2 DEF RawItem, channel, flags, session
<1>7. CASE RawLagged(r)
  BY <1>0, <1>7 DEF RawLagged, channel, flags, session
<1>8. CASE RawClosed(r)
  BY <1>8 DEF RawClosed, channel, flags, session
<1> QED
  BY <1>1, <1>2, <1>3, <1>4, <1>5, <1>6, <1>7, <1>8 DEF Poll

\* The steps of a cancel and of a drop keep the types.
LEMMA CancelTypes ==
    ASSUME SubscriptionTypeOK, NEW r \in Reader,
           CallCancel(r) \/ CallTryCancel(r) \/ CancelStep(r) \/ AbandonCancel(r)
    PROVE  SubscriptionTypeOK'
<1> USE BoundAssumption DEF SubscriptionTypeOK, channel, reading, flags, session, Task
<1>1. CASE CallCancel(r)
  <2>1. cancelled' \in BOOLEAN
    BY <1>1, Zenon DEF CallCancel
  <2>2. task' \in [Reader -> Task]
    BY <1>1 DEF CallCancel
  <2>3. calls' \in [Reader -> 0..MaxCalls]
    BY <1>1 DEF CallCancel, CanCall
  <2> QED  BY <1>1, <2>1, <2>2, <2>3 DEF CallCancel
<1>2. CASE CallTryCancel(r)
  BY <1>2 DEF CallTryCancel, CanCall
<1>3. CASE WriteCancel(r)
  BY <1>3 DEF WriteCancel
<1>4. CASE WriteFails(r)
  BY <1>4 DEF WriteFails
<1>5. CASE StoreSent(r)
  BY <1>5 DEF StoreSent
<1>6. CASE StoreCancelled(r)
  BY <1>6 DEF StoreCancelled
<1>7. CASE AbandonCancel(r)
  BY <1>7 DEF AbandonCancel
<1> QED
  BY <1>1, <1>2, <1>3, <1>4, <1>5, <1>6, <1>7 DEF CancelStep

\* Positions and counters are natural numbers, flags Booleans, the items of the
\* channel those the decoder tells apart (SubscriptionTypeOK).
THEOREM SubscriptionTypes == SubscriptionSpec => []SubscriptionTypeOK
<1>1. SubscriptionInit => SubscriptionTypeOK
  <2> SUFFICES ASSUME SubscriptionInit PROVE SubscriptionTypeOK
    OBVIOUS
  <2>1. handle \in [Reader -> {"absent", "live", "dropped"}]
    <3>1. PICK r \in Reader : handle = [s \in Reader |-> IF s = r THEN "live" ELSE "absent"]
      BY DEF SubscriptionInit
    <3> QED  BY <3>1
  <2>2. sent \in Seq(Item) /\ Len(sent) <= MaxSent
    BY BoundAssumption DEF SubscriptionInit
  <2>3. calls \in [Reader -> 0..MaxCalls]
    BY BoundAssumption DEF SubscriptionInit
  <2>4. /\ open \in BOOLEAN /\ cancelFn \in BOOLEAN /\ cancelled \in BOOLEAN
        /\ cancelSent \in BOOLEAN /\ written \in BOOLEAN /\ attempted \in BOOLEAN
    BY Zenon DEF SubscriptionInit
  <2> QED  BY <2>1, <2>2, <2>3, <2>4 DEF SubscriptionInit, SubscriptionTypeOK, Task
<1>2. SubscriptionTypeOK /\ [SubscriptionNext]_subscriptionVars => SubscriptionTypeOK'
  <2> SUFFICES ASSUME SubscriptionTypeOK, [SubscriptionNext]_subscriptionVars PROVE SubscriptionTypeOK'
    OBVIOUS
  <2> USE BoundAssumption DEF SubscriptionTypeOK
  <2>1. ASSUME NEW i \in Item, Send(i) PROVE SubscriptionTypeOK'
    BY <2>1 DEF Send, reading, flags, session, Item
  <2>2. CASE Close
    BY <2>2 DEF Close, reading, flags, session
  <2>3. ASSUME NEW r \in Reader, NEW c \in Reader, CloneReader(r, c) PROVE SubscriptionTypeOK'
    BY <2>3 DEF CloneReader, channel, flags, session
  <2>4. ASSUME NEW r \in Reader, Poll(r) PROVE SubscriptionTypeOK'
    BY <2>4, PollTypes
  <2>5. ASSUME NEW r \in Reader,
               CallCancel(r) \/ CallTryCancel(r) \/ CancelStep(r) \/ AbandonCancel(r)
        PROVE  SubscriptionTypeOK'
    BY <2>5, CancelTypes
  <2>6. ASSUME NEW r \in Reader, DropBegin(r) PROVE SubscriptionTypeOK'
    BY <2>6 DEF DropBegin, channel, reading, flags, session, Task
  <2>7. ASSUME NEW r \in Reader, DropFinish(r) PROVE SubscriptionTypeOK'
    BY <2>7 DEF DropFinish, channel, reading, Task
  <2>8. CASE SpawnedSend
    <3>1. spawned' \in Nat
      BY <2>8 DEF SpawnedSend
    <3>2. written' \in BOOLEAN
      BY <2>8, Zenon DEF SpawnedSend
    <3> QED  BY <2>8, <3>1, <3>2 DEF SpawnedSend, channel, reading, flags
  <2>9. CASE UNCHANGED subscriptionVars
    BY <2>9 DEF subscriptionVars, channel, reading, flags, session
  <2> QED
    BY <2>1, <2>2, <2>3, <2>4, <2>5, <2>6, <2>7, <2>8, <2>9 DEF SubscriptionNext
<1> QED
  BY <1>1, <1>2, PTL DEF SubscriptionSpec
-----------------------------------------------------------------------------
\* A poll keeps where every reader stands.
LEMMA PollReaders ==
    ASSUME SubscriptionTypeOK, ReadersInv, NEW r \in Reader, Poll(r)
    PROVE  ReadersInv'
<1> SUFFICES ASSUME NEW s \in Reader PROVE ReaderInv(s)'
  BY DEF ReadersInv
<1> USE CapacityAssumption DEF SubscriptionTypeOK, ReaderInv, channel, flags, session, CanPoll, HasNext
<1>0. ReaderInv(s) /\ ReaderInv(r)
  BY DEF ReadersInv
<1>a. Overwritten \in Nat /\ Overwritten <= Len(sent)
  BY DEF Overwritten
<1>1. CASE PollItem(r)
  BY <1>0, <1>a, <1>1 DEF PollItem
<1>2. CASE PollEnd(r)
  BY <1>0, <1>a, <1>2 DEF PollEnd
<1>3. CASE PollError(r)
  BY <1>0, <1>a, <1>3 DEF PollError
<1>4. CASE PollLagged(r)
  BY <1>0, <1>a, <1>4 DEF PollLagged
<1>5. CASE PollClosed(r)
  BY <1>0, <1>a, <1>5 DEF PollClosed
<1>6. CASE RawItem(r)
  <2>1. pos[r] < Len(sent) /\ pos[r] \in Nat /\ Len(sent) \in Nat
    BY <1>6 DEF RawItem
  <2>2. gave[r] # "none"
    BY <1>0, <2>1
  <2>3. pos[r] + 1 <= Len(sent)
    BY <2>1
  <2>4. Len(Append(got[r], sent[pos[r] + 1])) = Len(got[r]) + 1
    OBVIOUS
  <2> QED  BY <1>0, <1>a, <1>6, <2>2, <2>3, <2>4 DEF RawItem
<1>7. CASE RawLagged(r)
  BY <1>0, <1>a, <1>7 DEF RawLagged
<1>8. CASE RawClosed(r)
  BY <1>0, <1>a, <1>8 DEF RawClosed
<1> QED
  BY <1>1, <1>2, <1>3, <1>4, <1>5, <1>6, <1>7, <1>8 DEF Poll

\* So do the steps of a cancel.
LEMMA CancelReaders ==
    ASSUME SubscriptionTypeOK, ReadersInv, NEW r \in Reader,
           CallCancel(r) \/ CallTryCancel(r) \/ CancelStep(r) \/ AbandonCancel(r)
    PROVE  ReadersInv'
<1> SUFFICES ASSUME NEW s \in Reader PROVE ReaderInv(s)'
  BY DEF ReadersInv
<1>0. ReaderInv(s) /\ ReaderInv(r)
  BY DEF ReadersInv
<1> USE <1>0 DEF SubscriptionTypeOK, ReaderInv, channel, reading
<1>1. CASE CallCancel(r)
  BY <1>1 DEF CallCancel, CanCall
<1>2. CASE CallTryCancel(r)
  BY <1>2 DEF CallTryCancel, CanCall
<1>3. CASE WriteCancel(r)
  BY <1>3 DEF WriteCancel
<1>4. CASE WriteFails(r)
  BY <1>4 DEF WriteFails
<1>5. CASE StoreSent(r)
  BY <1>5 DEF StoreSent
<1>6. CASE StoreCancelled(r)
  BY <1>6 DEF StoreCancelled
<1>7. CASE AbandonCancel(r)
  BY <1>7 DEF AbandonCancel
<1> QED
  BY <1>1, <1>2, <1>3, <1>4, <1>5, <1>6, <1>7 DEF CancelStep

\* Every reader stands where its invariant says.
LEMMA Readers == SubscriptionSpec => []ReadersInv
<1>1. SubscriptionInit => ReadersInv
  <2> SUFFICES ASSUME SubscriptionInit, NEW r \in Reader PROVE ReaderInv(r)
    BY DEF ReadersInv
  <2>1. /\ sent = <<>> /\ pos[r] = 0 /\ start[r] = 0 /\ got[r] = <<>> /\ gave[r] = "nothing"
        /\ completed[r] = FALSE /\ streamEnded[r] = FALSE /\ lagged[r] = FALSE /\ task[r] = "idle"
    BY DEF SubscriptionInit
  <2> QED  BY <2>1 DEF ReaderInv
<1>2. SubscriptionTypeOK /\ ReadersInv /\ [SubscriptionNext]_subscriptionVars => ReadersInv'
  <2> SUFFICES ASSUME SubscriptionTypeOK, ReadersInv, [SubscriptionNext]_subscriptionVars PROVE ReadersInv'
    OBVIOUS
  <2>1. ASSUME NEW i \in Item, Send(i) PROVE ReadersInv'
    <3> SUFFICES ASSUME NEW s \in Reader PROVE ReaderInv(s)'
      BY DEF ReadersInv
    <3>1. Len(sent') = Len(sent) + 1 /\ Len(sent) \in Nat /\ open
      BY <2>1 DEF Send, SubscriptionTypeOK
    <3>2. ReaderInv(s)
      BY DEF ReadersInv
    <3> QED  BY <2>1, <3>1, <3>2 DEF Send, reading, ReaderInv, SubscriptionTypeOK
  <2>2. CASE Close
    BY <2>2 DEF Close, reading, ReadersInv, ReaderInv
  <2>3. ASSUME NEW r \in Reader, NEW c \in Reader, CloneReader(r, c) PROVE ReadersInv'
    <3> SUFFICES ASSUME NEW s \in Reader PROVE ReaderInv(s)'
      BY DEF ReadersInv
    <3>1. ReaderInv(s) /\ ReaderInv(c)
      BY DEF ReadersInv
    <3> QED  BY <2>3, <3>1 DEF CloneReader, channel, ReaderInv, SubscriptionTypeOK
  <2>4. ASSUME NEW r \in Reader, Poll(r) PROVE ReadersInv'
    BY <2>4, PollReaders
  <2>5. ASSUME NEW r \in Reader,
               CallCancel(r) \/ CallTryCancel(r) \/ CancelStep(r) \/ AbandonCancel(r)
        PROVE  ReadersInv'
    BY <2>5, CancelReaders
  <2>6. ASSUME NEW r \in Reader, DropBegin(r) \/ DropFinish(r) PROVE ReadersInv'
    BY <2>6 DEF DropBegin, DropFinish, channel, reading, ReadersInv, ReaderInv, SubscriptionTypeOK
  <2>7. CASE SpawnedSend
    BY <2>7 DEF SpawnedSend, channel, reading, ReadersInv, ReaderInv
  <2>8. CASE UNCHANGED subscriptionVars
    BY <2>8 DEF subscriptionVars, channel, reading, ReadersInv, ReaderInv
  <2> QED
    BY <2>1, <2>2, <2>3, <2>4, <2>5, <2>6, <2>7, <2>8 DEF SubscriptionNext
<1> QED
  BY <1>1, <1>2, SubscriptionTypes, PTL DEF SubscriptionSpec
-----------------------------------------------------------------------------
\* Which step of the promise each way of reading is.
LEMMA PollKeeps ==
    ASSUME SubscriptionTypeOK, ReadersInv, NEW r \in Reader, Poll(r)
    PROVE  Answer!Read(r) \/ Answer!Complete(r) \/ Answer!GiveUp(r)
<1>0. ReaderInv(r)
  BY DEF ReadersInv
<1>a. handle[r] = "live" /\ handle' = handle
  BY DEF Poll, PollItem, PollEnd, PollError, PollLagged, PollClosed, RawItem, RawLagged, RawClosed, CanPoll
<1>b. ASSUME gave[r] = "nothing"
      PROVE  /\ Verdict[r] = "reading"
             /\ Answer!NextFor(r) = pos[r] + 1
  BY <1>0, <1>a, <1>b DEF Verdict, Answer!NextFor, ReaderInv, SubscriptionTypeOK
<1>c. Overwritten \in Nat /\ Overwritten <= Len(sent) /\ Len(sent) \in Nat /\ pos[r] \in Nat
  BY CapacityAssumption DEF Overwritten, SubscriptionTypeOK
<1>1. CASE PollItem(r) \/ RawItem(r)
  <2>1. gave[r] = "nothing" /\ pos[r] + 1 <= Len(sent)
    BY <1>0, <1>1, <1>c DEF PollItem, RawItem, HasNext, ReaderInv, SubscriptionTypeOK
  <2>2. Verdict' = Verdict
    BY <1>1, <1>a DEF PollItem, RawItem, Verdict
  <2>3. /\ got' = [got EXCEPT ![r] = Append(@, sent[pos[r] + 1])]
        /\ UNCHANGED <<sent, open, start>>
    BY <1>1 DEF PollItem, RawItem, channel
  <2> QED  BY <1>b, <2>1, <2>2, <2>3 DEF Answer!Read
<1>2. CASE PollEnd(r)
  <2>1. gave[r] = "nothing" /\ pos[r] + 1 <= Len(sent) /\ sent[pos[r] + 1] = "end"
    BY <1>0, <1>2, <1>c DEF PollEnd, HasNext, ReaderInv, SubscriptionTypeOK
  <2>2. Verdict' = [Verdict EXCEPT ![r] = "complete"]
    BY <1>2, <1>a DEF PollEnd, Verdict, SubscriptionTypeOK
  <2>3. UNCHANGED <<sent, open, start, got>>
    BY <1>2 DEF PollEnd, channel
  <2> QED  BY <1>b, <2>1, <2>2, <2>3 DEF Answer!Complete
<1>3. CASE PollError(r) \/ PollLagged(r) \/ PollClosed(r) \/ RawLagged(r) \/ RawClosed(r)
  <2>1. gave[r] = "nothing" /\ ~completed[r]
    BY <1>0, <1>3, <1>c DEF PollError, PollLagged, PollClosed, RawLagged, RawClosed, HasNext, ReaderInv, SubscriptionTypeOK
  <2>2. /\ gave' = [gave EXCEPT ![r] = gave'[r]] /\ gave'[r] # "nothing"
        /\ completed' = completed
        /\ UNCHANGED <<sent, open, start, got>>
    BY <1>3 DEF PollError, PollLagged, PollClosed, RawLagged, RawClosed, channel, SubscriptionTypeOK
  <2>3. Verdict' = [Verdict EXCEPT ![r] = "over"]
    BY <1>a, <2>1, <2>2 DEF Verdict, SubscriptionTypeOK
  <2> QED  BY <1>b, <2>1, <2>2, <2>3 DEF Answer!GiveUp
<1> QED
  BY <1>1, <1>2, <1>3 DEF Poll

\* Losses, clones, errors and cancels included, what the subscriptions do is
\* what AnswerStream promises: a stretch without a hole, one end, and complete
\* only at the end marker (poll_next, next_item, Clone::clone).
THEOREM SubscriptionKeepsThePromise == SubscriptionSpec => KeepsThePromise
<1>1. SubscriptionInit => Answer!Init
  BY DEF SubscriptionInit, Answer!Init, Verdict
<1>2. SubscriptionTypeOK /\ ReadersInv /\ [SubscriptionNext]_subscriptionVars => [Answer!Next]_Answer!vars
  <2> SUFFICES ASSUME SubscriptionTypeOK, ReadersInv, [SubscriptionNext]_subscriptionVars
               PROVE  [Answer!Next]_Answer!vars
    OBVIOUS
  <2> USE DEF Answer!Next, Answer!vars
  <2>1. ASSUME NEW i \in Item, Send(i) PROVE Answer!Send(i)
    BY <2>1 DEF Send, Answer!Send, reading, Verdict
  <2>2. CASE Close
    BY <2>2 DEF Close, Answer!Close, reading, Verdict
  <2>3. ASSUME NEW r \in Reader, NEW c \in Reader, CloneReader(r, c) PROVE Answer!Join(c)
    <3>1. ReaderInv(c) /\ handle[c] = "absent"
      BY <2>3 DEF ReadersInv, CloneReader
    <3>2. Verdict[c] = "absent" /\ gave[c] = "nothing" /\ ~completed[c]
      BY <3>1 DEF Verdict, ReaderInv
    <3>3. Verdict' = [Verdict EXCEPT ![c] = "reading"]
      BY <2>3, <3>2 DEF CloneReader, Verdict, SubscriptionTypeOK
    <3> QED  BY <2>3, <3>2, <3>3 DEF CloneReader, Answer!Join, channel
  <2>4. ASSUME NEW r \in Reader, Poll(r)
        PROVE  Answer!Read(r) \/ Answer!Complete(r) \/ Answer!GiveUp(r)
    BY <2>4, PollKeeps
  <2>5. ASSUME NEW r \in Reader,
               CallCancel(r) \/ CallTryCancel(r) \/ CancelStep(r) \/ AbandonCancel(r)
        PROVE  UNCHANGED Answer!vars
    BY <2>5 DEF CallCancel, CallTryCancel, CancelStep, AbandonCancel, WriteCancel, WriteFails,
                StoreSent, StoreCancelled, channel, reading, Verdict
  <2>6. ASSUME NEW r \in Reader, DropBegin(r) \/ DropFinish(r) PROVE UNCHANGED Answer!vars
    <3>1. /\ UNCHANGED <<sent, open, start, got, completed, gave>>
      BY <2>6 DEF DropBegin, DropFinish, channel, reading
    <3>2. \A s \in Reader : handle'[s] = "absent" <=> handle[s] = "absent"
      <4>1. CASE DropBegin(r)
        BY <4>1 DEF DropBegin, SubscriptionTypeOK
      <4>2. CASE DropFinish(r)
        <5>1. ReaderInv(r)
          BY DEF ReadersInv
        <5> QED  BY <4>2, <5>1 DEF DropFinish, SubscriptionTypeOK, ReaderInv
      <4> QED  BY <2>6, <4>1, <4>2
    <3> QED  BY <3>1, <3>2 DEF Verdict
  <2>7. CASE SpawnedSend
    BY <2>7 DEF SpawnedSend, channel, reading, Verdict
  <2>8. CASE UNCHANGED subscriptionVars
    BY <2>8 DEF subscriptionVars, channel, reading, Verdict
  <2> QED
    BY <2>1, <2>2, <2>3, <2>4, <2>5, <2>6, <2>7, <2>8 DEF SubscriptionNext
<1> QED
  BY <1>1, <1>2, SubscriptionTypes, Readers, PTL DEF SubscriptionSpec, KeepsThePromise, Answer!Spec
\* AnswerStream's NoHole is kept by each of its steps that a subscription takes.
LEMMA PromiseHasNoHole ==
    ASSUME SubscriptionTypeOK, ReadersInv, Answer!NoHole, [Answer!Next]_Answer!vars
    PROVE  Answer!NoHole'
<1> USE DEF SubscriptionTypeOK, Answer!NoHole, Answer!NextFor
<1>0. Verdict = [r \in Reader |-> Verdict[r]]
  BY DEF Verdict
<1>1. ASSUME NEW i \in Item, Answer!Send(i) PROVE Answer!NoHole'
  <2>1. /\ Len(sent') = Len(sent) + 1
        /\ \A n \in 1..Len(sent) : sent'[n] = sent[n]
    BY <1>1 DEF Answer!Send
  <2> QED  BY <1>1, <2>1 DEF Answer!Send
<1>2. CASE Answer!Close
  BY <1>2 DEF Answer!Close
<1>3. ASSUME NEW c \in Reader, Answer!Join(c) PROVE Answer!NoHole'
  <2>1. got[c] = <<>>
    BY <1>3 DEF Answer!Join, Verdict, ReadersInv, ReaderInv
  <2> QED  BY <1>0, <1>3, <2>1 DEF Answer!Join
<1>4. ASSUME NEW r \in Reader, Answer!Read(r) PROVE Answer!NoHole'
  <2>1. got' = [got EXCEPT ![r] = Append(got[r], sent[Answer!NextFor(r)])]
    BY <1>4 DEF Answer!Read
  <2>2. /\ Verdict[r] = "reading" /\ Answer!NextFor(r) <= Len(sent)
        /\ UNCHANGED <<sent, start, Verdict>>
    BY <1>4 DEF Answer!Read
  <2>3. /\ Len(got'[r]) = Len(got[r]) + 1
        /\ \A n \in 1..Len(got[r]) : got'[r][n] = got[r][n]
        /\ got'[r][Len(got[r]) + 1] = sent[Answer!NextFor(r)]
    BY <2>1
  <2>4. \A s \in Reader \ {r} : got'[s] = got[s]
    BY <2>1
  <2>5. /\ Answer!NextFor(r) = start[r] + Len(got[r]) + 1
        /\ start[r] \in Nat /\ Len(got[r]) \in Nat /\ Len(sent) \in Nat
        /\ \A n \in 1..Len(got[r]) : got[r][n] = sent[start[r] + n]
    OBVIOUS
  <2>6. start[r] + Len(got'[r]) <= Len(sent)
    BY <2>2, <2>3, <2>5
  <2>7. ASSUME NEW n \in 1..Len(got'[r]) PROVE got'[r][n] = sent[start[r] + n]
    <3>1. CASE n \in 1..Len(got[r])
      BY <3>1, <2>3, <2>5
    <3>2. CASE n = Len(got[r]) + 1
      <4>1. got'[r][n] = sent[Answer!NextFor(r)]
        BY <3>2, <2>3
      <4>2. Answer!NextFor(r) = start[r] + n
        BY <3>2, <2>5
      <4> QED  BY <4>1, <4>2
    <3> QED  BY <3>1, <3>2, <2>3, <2>5
  <2> HIDE DEF SubscriptionTypeOK
  <2>8. ASSUME NEW s \in Reader
        PROVE  /\ start[s] + Len(got'[s]) <= Len(sent)
               /\ \A n \in 1..Len(got'[s]) : got'[s][n] = sent[start[s] + n]
               /\ Verdict[s] = "complete" =>
                    start[s] + Len(got'[s]) + 1 <= Len(sent) /\ sent[start[s] + Len(got'[s]) + 1] = "end"
    <3>1. CASE s = r
      BY <3>1, <2>2, <2>6, <2>7
    <3>2. CASE s # r
      BY <3>2, <2>4
    <3> QED  BY <3>1, <3>2
  <2> QED  BY <2>2, <2>8
<1>5. ASSUME NEW r \in Reader, Answer!Complete(r) \/ Answer!GiveUp(r) PROVE Answer!NoHole'
  <2>1. /\ UNCHANGED <<sent, start, got>>
        /\ \A s \in Reader \ {r} : Verdict'[s] = Verdict[s]
        /\ Verdict'[r] = "complete" =>
              Answer!NextFor(r) <= Len(sent) /\ sent[Answer!NextFor(r)] = "end"
    BY <1>0, <1>5 DEF Answer!Complete, Answer!GiveUp
  <2> QED  BY <2>1
<1>6. CASE UNCHANGED Answer!vars
  BY <1>6 DEF Answer!vars
<1> QED
  BY <1>1, <1>2, <1>3, <1>4, <1>5, <1>6 DEF Answer!Next

\* So what each reader was given is always the stretch of the channel that begins
\* where it joined, and one that calls its answer complete stands before the end
\* marker: a slow reader is never shown an answer with a hole (PollLagged).
THEOREM NoReaderSeesAHole == SubscriptionSpec => []Answer!NoHole
<1>1. SubscriptionInit => Answer!NoHole
  <2> SUFFICES ASSUME SubscriptionInit, NEW r \in Reader
               PROVE  /\ start[r] + Len(got[r]) <= Len(sent)
                      /\ \A n \in 1..Len(got[r]) : got[r][n] = sent[start[r] + n]
                      /\ Verdict[r] # "complete"
    BY DEF Answer!NoHole
  <2>1. start[r] = 0 /\ got[r] = <<>> /\ sent = <<>>
    BY DEF SubscriptionInit
  <2>2. Verdict[r] # "complete"
    BY DEF SubscriptionInit, Verdict
  <2> QED  BY <2>1, <2>2
<1>2. SubscriptionTypeOK /\ ReadersInv /\ Answer!NoHole /\ [Answer!Next]_Answer!vars => Answer!NoHole'
  BY PromiseHasNoHole
<1> QED
  BY <1>1, <1>2, SubscriptionTypes, Readers, SubscriptionKeepsThePromise, PTL
     DEF SubscriptionSpec, KeepsThePromise, Answer!Spec
-----------------------------------------------------------------------------
\* What the steps of a cancel keep of the flags and the writes.
LEMMA CancelSteps ==
    ASSUME SubscriptionTypeOK, CancelInv, NEW r \in Reader,
           CallCancel(r) \/ CallTryCancel(r) \/ CancelStep(r) \/ AbandonCancel(r)
    PROVE  CancelInv'
<1> USE DEF SubscriptionTypeOK, CancelInv, channel, reading, flags, session
<1>1. CASE CallCancel(r)
  BY <1>1 DEF CallCancel, CanCall
<1>2. CASE CallTryCancel(r)
  BY <1>2 DEF CallTryCancel, CanCall
<1>3. CASE WriteCancel(r)
  BY <1>3 DEF WriteCancel
<1>4. CASE WriteFails(r)
  BY <1>4 DEF WriteFails
<1>5. CASE StoreSent(r)
  BY <1>5 DEF StoreSent
<1>6. CASE StoreCancelled(r)
  BY <1>6 DEF StoreCancelled
<1>7. CASE AbandonCancel(r)
  BY <1>7 DEF AbandonCancel
<1> QED
  BY <1>1, <1>2, <1>3, <1>4, <1>5, <1>6, <1>7 DEF CancelStep

\* The invariant of cancellation holds.
LEMMA Cancellation == SubscriptionSpec => []CancelInv
<1>1. SubscriptionInit => CancelInv
  BY DEF SubscriptionInit, CancelInv
<1>2. SubscriptionTypeOK /\ CancelInv /\ [SubscriptionNext]_subscriptionVars => CancelInv'
  <2> SUFFICES ASSUME SubscriptionTypeOK, CancelInv, [SubscriptionNext]_subscriptionVars PROVE CancelInv'
    OBVIOUS
  <2>1. ASSUME NEW i \in Item, Send(i) PROVE CancelInv'
    BY <2>1 DEF Send, reading, flags, session, CancelInv
  <2>2. CASE Close
    BY <2>2 DEF Close, reading, flags, session, CancelInv
  <2>3. ASSUME NEW r \in Reader, NEW c \in Reader, CloneReader(r, c) PROVE CancelInv'
    BY <2>3 DEF CloneReader, channel, flags, session, CancelInv, SubscriptionTypeOK
  <2>4. ASSUME NEW r \in Reader, Poll(r) PROVE CancelInv'
    BY <2>4 DEF Poll, PollItem, PollEnd, PollError, PollLagged, PollClosed, RawItem, RawLagged, RawClosed,
                flags, session, CancelInv
  <2>5. ASSUME NEW r \in Reader,
               CallCancel(r) \/ CallTryCancel(r) \/ CancelStep(r) \/ AbandonCancel(r)
        PROVE  CancelInv'
    BY <2>5, CancelSteps
  <2>6. ASSUME NEW r \in Reader, DropBegin(r) PROVE CancelInv'
    <3>1. UNCHANGED <<style, cancelFn, cancelled, cancelSent, spawned, written, attempted>>
      BY <2>6 DEF DropBegin, flags, session
    <3>2. CASE style = "typed" /\ ~cancelled
      <4>1. task' = [task EXCEPT ![r] = "dropping"] /\ handle' = handle /\ handle[r] = "live"
        BY <2>6, <3>2 DEF DropBegin
      <4> QED  BY <3>1, <3>2, <4>1 DEF CancelInv, SubscriptionTypeOK
    <3>3. CASE ~(style = "typed" /\ ~cancelled)
      <4>1. task' = task /\ task[r] = "idle" /\ handle' = [handle EXCEPT ![r] = "dropped"]
        BY <2>6, <3>3 DEF DropBegin
      <4>2. cancelled \/ style = "raw"
        BY <3>3 DEF SubscriptionTypeOK, Style
      <4> QED  BY <3>1, <4>1, <4>2 DEF CancelInv, SubscriptionTypeOK
    <3> QED  BY <3>2, <3>3
  <2>7. ASSUME NEW r \in Reader, DropFinish(r) PROVE CancelInv'
    BY <2>7 DEF DropFinish, CancelInv, SubscriptionTypeOK
  <2>8. CASE SpawnedSend
    <3>1. attempted' /\ (written => written')
      <4>1. attempted' = TRUE
        BY <2>8 DEF SpawnedSend
      <4>2. written' = written \/ written' = TRUE
        BY <2>8 DEF SpawnedSend
      <4> QED  BY <4>1, <4>2
    <3>2. UNCHANGED <<handle, style, cancelFn, cancelled, cancelSent, task>>
      BY <2>8 DEF SpawnedSend, flags
    <3> QED  BY <3>1, <3>2 DEF CancelInv
  <2>9. CASE UNCHANGED subscriptionVars
    BY <2>9 DEF subscriptionVars, flags, session, CancelInv
  <2> QED
    BY <2>1, <2>2, <2>3, <2>4, <2>5, <2>6, <2>7, <2>8, <2>9 DEF SubscriptionNext
<1> QED
  BY <1>1, <1>2, SubscriptionTypes, PTL DEF SubscriptionSpec

\* try_cancel answers Ok from a flag that no clone sets before a cancel request
\* was written.
THEOREM CancelSentWasWritten == SubscriptionSpec => []SentMeansWritten
<1>1. CancelInv => SentMeansWritten
  BY DEF CancelInv, SentMeansWritten
<1> QED
  BY <1>1, Cancellation, PTL

\* However many clones there are and however their calls were abandoned, when
\* the last is gone and the spawned sends have run, a cancel was at least tried.
THEOREM DroppedWasAsked == SubscriptionSpec => []NoRequestForgotten
<1>1. SubscriptionTypeOK /\ CancelInv => NoRequestForgotten
  <2> SUFFICES ASSUME SubscriptionTypeOK, CancelInv, cancelFn, spawned = 0,
                      \A r \in Reader : handle[r] # "live"
               PROVE  attempted
    BY DEF NoRequestForgotten
  <2>1. PICK r \in Reader : handle[r] # "absent"
    BY DEF CancelInv
  <2>2. handle[r] = "dropped"
    BY <2>1 DEF SubscriptionTypeOK
  <2> QED  BY <2>2 DEF CancelInv, SubscriptionTypeOK
<1> QED
  BY <1>1, SubscriptionTypes, Cancellation, PTL

===============================================================================
