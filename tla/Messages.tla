------------------------------- MODULE Messages -------------------------------
(* The tables by which a message read from the socket is classified: which     *)
(* kinds name a request, which name an order, and which inbound kinds are the  *)
(* answers of a request that has no id (transport/routing.rs, messages.rs and  *)
(* messages/shared_channel_configuration.rs).  A kind is a string, a variant   *)
(* of IncomingMessages; the numbering and the wire format are left out.  An    *)
(* Error that is_warning_error calls a notice is the kind "Warning" here.      *)

\* A slip: the table as it was before marketDataType was given an index, when it
\* went to the shared channel of reqMarketDataType instead (the comment in
\* request_id_index tells).
RequestIdKindsWithoutDataType ==
  {"AccountSummary", "AccountSummaryEnd", "AccountUpdateMulti", "AccountUpdateMultiEnd",
   "ContractData", "ContractDataEnd", "ExecutionData", "ExecutionDataEnd", "HeadTimestamp",
   "HistogramData", "HistoricalData", "HistoricalDataEnd", "HistoricalDataUpdate",
   "HistoricalNews", "HistoricalNewsEnd", "HistoricalSchedule", "HistoricalTick",
   "HistoricalTickBidAsk", "HistoricalTickLast", "MarketDepth", "MarketDepthL2",
   "NewsArticle", "OpenOrder", "PnL", "PnLSingle", "PositionMulti", "PositionMultiEnd",
   "RealTimeBars", "ScannerData", "SecurityDefinitionOptionParameter",
   "SecurityDefinitionOptionParameterEnd", "SymbolSamples", "TickByTick", "TickEFP",
   "TickGeneric", "TickNews", "TickOptionComputation", "TickPrice", "TickReqParams",
   "TickSize", "TickSnapshotEnd", "TickString", "WshEventData",
   "WshMetaData", "DisplayGroupList", "DisplayGroupUpdated"}

\* Kinds request_id_index finds a request id in.
RequestIdKinds == RequestIdKindsWithoutDataType \cup {"MarketDataType"}

\* Kinds order_id_index finds an order id in.  For ExecutionDataEnd it is the
\* field the request id stands in.
OrderIdKinds == {"OpenOrder", "OrderStatus", "ExecutionData", "ExecutionDataEnd"}

Faults == {"Error", "Warning"}

IsOrderMessage(kind) ==
  kind \in {"OrderStatus", "OpenOrder", "OpenOrderEnd", "CompletedOrder", "CompletedOrdersEnd",
            "ExecutionData", "ExecutionDataEnd", "CommissionsReport"}

IsSharedMessage(kind) == kind \in {"ManagedAccounts", "NextValidId", "CurrentTime"}

\* determine_routing: the first test that holds decides.
Destination(kind) ==
  IF kind \in Faults THEN "Error"
  ELSE IF IsOrderMessage(kind) THEN "ByOrderId"
  ELSE IF ~ IsSharedMessage(kind) /\ kind \in RequestIdKinds THEN "ByRequestId"
  ELSE "Shared"

\* order_routing_strategy, for the kinds IsOrderMessage admits.
Strategy(kind) ==
  CASE kind = "ExecutionData"                 -> "ExecutionData"
    [] kind = "ExecutionDataEnd"              -> "ExecutionDataEnd"
    [] kind \in {"OpenOrder", "OrderStatus"}  -> "OrderOrShared"
    [] kind = "CommissionsReport"             -> "ByExecutionId"
    [] OTHER                                  -> "SharedOnly"

OpenOrderKinds == {"OpenOrder", "OrderStatus", "OpenOrderEnd"}

\* CHANNEL_MAPPINGS: the answers each request without an id is given.
Responses ==
  [RequestIds                 |-> {"NextValidId"},
   RequestFamilyCodes         |-> {"FamilyCodes"},
   RequestMarketRule          |-> {"MarketRule"},
   RequestPositions           |-> {"Position", "PositionEnd"},
   RequestPositionsMulti      |-> {"PositionMulti", "PositionMultiEnd"},
   RequestOpenOrders          |-> OpenOrderKinds,
   RequestAllOpenOrders       |-> OpenOrderKinds,
   RequestAutoOpenOrders      |-> OpenOrderKinds,
   RequestCompletedOrders     |-> {"CompletedOrder", "CompletedOrdersEnd"},
   RequestManagedAccounts     |-> {"ManagedAccounts"},
   RequestAccountData         |-> {"AccountValue", "PortfolioValue", "AccountDownloadEnd", "AccountUpdateTime"},
   RequestMarketDataType      |-> {"MarketDataType"},
   RequestMktDepthExchanges   |-> {"MktDepthExchanges"},
   RequestCurrentTime         |-> {"CurrentTime"},
   RequestCurrentTimeInMillis |-> {"CurrentTimeInMillis"},
   RequestNewsProviders       |-> {"NewsProviders"},
   RequestNewsBulletins       |-> {"NewsBulletins"},
   RequestScannerParameters   |-> {"ScannerParameters"},
   RequestWshMetaData         |-> {"WshMetaData"},
   RequestWshEventData        |-> {"WshEventData"}]

SharedRequests == DOMAIN Responses

\* The shared channels a kind is put on.
ChannelsOf(kind) == {r \in SharedRequests : kind \in Responses[r]}
===============================================================================
