------------------------------- MODULE Requests -------------------------------
(* The calls of the client that ask the broker for something, one table for    *)
(* each part of the API.  A call has: "by", how its answers are addressed - a  *)
(* request id, an order id, the update stream, nothing at all (a submission is *)
(* written and forgotten), or the name of the shared request; "takes", the     *)
(* kinds its decoder turns into values, every other kind being skipped as      *)
(* UnexpectedResponse; and "ends", those of them after which it is over.  The  *)
(* synchronous and the asynchronous client have the same calls.                *)
EXTENDS Messages

Stream(by, takes, ends) == [by |-> by, takes |-> takes, ends |-> ends]
Once(by, kind) == Stream(by, {kind}, {kind})

\* accounts: the End kinds are data of these streams, not their end.
AccountApis ==
  [positions             |-> Stream("RequestPositions", {"Position", "PositionEnd"}, {}),
   positions_multi       |-> Stream("request", {"PositionMulti", "PositionMultiEnd"}, {}),
   family_codes          |-> Once("RequestFamilyCodes", "FamilyCodes"),
   pnl                   |-> Stream("request", {"PnL"}, {}),
   pnl_single            |-> Stream("request", {"PnLSingle"}, {}),
   account_summary       |-> Stream("request", {"AccountSummary", "AccountSummaryEnd"}, {}),
   account_updates       |-> Stream("RequestAccountData",
                               {"AccountValue", "PortfolioValue", "AccountUpdateTime", "AccountDownloadEnd"}, {}),
   account_updates_multi |-> Stream("request", {"AccountUpdateMulti", "AccountUpdateMultiEnd"}, {}),
   managed_accounts      |-> Once("RequestManagedAccounts", "ManagedAccounts"),
   server_time           |-> Once("RequestCurrentTime", "CurrentTime"),
   server_time_millis    |-> Once("RequestCurrentTimeInMillis", "CurrentTimeInMillis")]

\* contracts: contract_details collects until the end marker.
ContractApis ==
  [contract_details             |-> Stream("request", {"ContractData", "ContractDataEnd"}, {"ContractDataEnd"}),
   matching_symbols             |-> Once("request", "SymbolSamples"),
   market_rule                  |-> Once("RequestMarketRule", "MarketRule"),
   calculate_option_price       |-> Once("request", "TickOptionComputation"),
   calculate_implied_volatility |-> Once("request", "TickOptionComputation"),
   option_chain                 |-> Stream("request",
      {"SecurityDefinitionOptionParameter", "SecurityDefinitionOptionParameterEnd"},
      {"SecurityDefinitionOptionParameterEnd"})]

\* market_data::realtime: the stream of a snapshot outlives its end marker.
RealtimeApis ==
  [realtime_bars          |-> Stream("request", {"RealTimeBars"}, {}),
   tick_by_tick           |-> Stream("request", {"TickByTick"}, {}),
   market_depth           |-> Stream("request", {"MarketDepth", "MarketDepthL2"}, {}),
   market_depth_exchanges |-> Once("RequestMktDepthExchanges", "MktDepthExchanges"),
   market_data            |-> Stream("request",
      {"TickPrice", "TickSize", "TickString", "TickEFP", "TickGeneric", "TickOptionComputation",
       "TickSnapshotEnd", "TickReqParams", "MarketDataType"}, {})]

\* market_data::historical.
HistoricalApis ==
  [head_timestamp         |-> Once("request", "HeadTimestamp"),
   histogram_data         |-> Once("request", "HistogramData"),
   historical_schedule    |-> Once("request", "HistoricalSchedule"),
   historical_data        |-> Stream("request", {"HistoricalData", "HistoricalDataEnd"}, {"HistoricalDataEnd"}),
   historical_data_stream |-> Stream("request",
      {"HistoricalData", "HistoricalDataUpdate", "HistoricalDataEnd"}, {}),
   historical_ticks       |-> Stream("request",
      {"HistoricalTick", "HistoricalTickBidAsk", "HistoricalTickLast"}, {})]

\* news, scanner, wsh and display groups.
NewsApis ==
  [news_providers  |-> Once("RequestNewsProviders", "NewsProviders"),
   news_bulletins  |-> Stream("RequestNewsBulletins", {"NewsBulletins"}, {}),
   historical_news |-> Stream("request", {"HistoricalNews", "HistoricalNewsEnd"}, {"HistoricalNewsEnd"}),
   news_article    |-> Once("request", "NewsArticle"),
   contract_news   |-> Stream("request", {"TickNews"}, {}),
   broad_tape_news |-> Stream("request", {"TickNews"}, {})]

ScannerApis ==
  [scanner_parameters   |-> Once("RequestScannerParameters", "ScannerParameters"),
   scanner_subscription |-> Stream("request", {"ScannerData"}, {})]

WshApis ==
  [wsh_metadata               |-> Once("request", "WshMetaData"),
   wsh_event_data_by_contract |-> Once("request", "WshEventData"),
   wsh_event_data_by_filter   |-> Stream("request", {"WshEventData"}, {})]

DisplayGroupApis ==
  [subscribe_to_group_events |-> Stream("request", {"DisplayGroupUpdated"}, {})]

OrderKinds == {"OpenOrder", "OrderStatus", "ExecutionData", "CommissionsReport"}
OrderListKinds == {"CompletedOrder", "CommissionsReport", "OpenOrder", "OrderStatus", "OpenOrderEnd", "CompletedOrdersEnd"}
OrderList(by) == Stream(by, OrderListKinds, {"OpenOrderEnd", "CompletedOrdersEnd"})

\* orders: the calls, with the decoders of orders/common/stream_decoders.rs.
OrderApis ==
  [order_update_stream |-> Stream("updates", OrderKinds, {}),
   submit_order        |-> Stream("nothing", {}, {}),
   place_order         |-> Stream("order", OrderKinds, {}),
   cancel_order        |-> Stream("order", {"OrderStatus"}, {}),
   next_valid_order_id |-> Once("RequestIds", "NextValidId"),
   completed_orders    |-> OrderList("RequestCompletedOrders"),
   open_orders         |-> OrderList("RequestOpenOrders"),
   all_open_orders     |-> OrderList("RequestAllOpenOrders"),
   auto_open_orders    |-> OrderList("RequestAutoOpenOrders"),
   executions          |-> Stream("request", {"ExecutionData", "CommissionsReport", "ExecutionDataEnd"},
                             {"ExecutionDataEnd"}),
   exercise_options    |-> Stream("order", {"OpenOrder", "OrderStatus"}, {})]

Tables == {AccountApis, ContractApis, RealtimeApis, HistoricalApis, NewsApis,
           ScannerApis, WshApis, DisplayGroupApis, OrderApis}

Apis == UNION {DOMAIN table : table \in Tables}

\* No two tables have a call of the same name.
Api == [a \in Apis |-> (CHOOSE table \in Tables : a \in DOMAIN table)[a]]

\* The kinds the broker answers a call with (its protocol): what the call
\* decodes, but for the lists of orders, whose decoder they share.  The events of
\* an order are not answers, they come whoever asks; nor are commissions, which
\* name their execution and no request.
Answers(a) ==
  CASE a = "completed_orders"                                        -> {"CompletedOrder", "CompletedOrdersEnd"}
    [] a \in {"open_orders", "all_open_orders", "auto_open_orders"}  -> OpenOrderKinds
    [] Api[a].by \in {"order", "updates", "nothing"}                 -> {}
    [] OTHER                                                         -> Api[a].takes \ {"CommissionsReport"}

\* The kinds of message that this client and its broker exchange.
Kinds == Faults \cup OrderKinds \cup (UNION {Answers(a) : a \in Apis})

\* The kinds after which the broker has no more to say to a call.
Finals(a) == Api[a].ends \cup {"Error"}
===============================================================================
