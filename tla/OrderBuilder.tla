----------------------------- MODULE OrderBuilder -----------------------------
(* The fluent order builder (orders/builder/order_builder.rs) as operators: a   *)
(* builder is a record, a fluent call maps it to another, build either refuses   *)
(* it or gives the order that is sent.  Each call is checked by nobody until     *)
(* build, so what an earlier call set stays under a later one that does not need *)
(* it.  The fields that build copies one by one, without reading another, and    *)
(* the amounts behind a set option, are left out.                                *)
EXTENDS Integers

CONSTANTS
  None,   \* an Option that is not set
  NaN     \* the f64 that are no number, and the infinite ones

ASSUME NumbersAssumption == None \notin Int /\ NaN \notin Int /\ None # NaN

Finite(v) == v \in Int

Reverse == [Buy |-> "Sell", Sell |-> "Buy", SellShort |-> "SellLong", SellLong |-> "SellShort"]
Actions == {"Buy", "Sell", "SellShort", "SellLong"}

OrderTypes ==
  {"Market", "Limit", "Stop", "StopLimit", "TrailingStop", "TrailingStopLimit",
   "MarketOnClose", "LimitOnClose", "MarketOnOpen", "LimitOnOpen", "AtAuction",
   "MarketIfTouched", "LimitIfTouched", "MarketWithProtection", "StopWithProtection",
   "MarketToLimit", "Midprice", "PeggedToMarket", "PeggedToStock", "PeggedToMidpoint",
   "PeggedToBenchmark", "PegBest", "Relative", "PassiveRelative", "Volatility", "BoxTop",
   "AuctionLimit", "AuctionRelative", "ComboLimit", "ComboMarket", "RelativeLimitCombo",
   "RelativeMarketCombo"}

\* OrderType::as_str.
OrderTypeCode(t) ==
  CASE t \in {"Market", "MarketOnOpen", "ComboMarket"}                -> "MKT"
    [] t \in {"Limit", "LimitOnOpen", "AuctionLimit", "ComboLimit"}   -> "LMT"
    [] t \in {"AtAuction", "MarketToLimit"}                           -> "MTL"
    [] t \in {"Relative", "AuctionRelative"}                          -> "REL"
    [] t = "Stop"                -> "STP"
    [] t = "StopLimit"           -> "STP LMT"
    [] t = "TrailingStop"        -> "TRAIL"
    [] t = "TrailingStopLimit"   -> "TRAIL LIMIT"
    [] t = "MarketOnClose"       -> "MOC"
    [] t = "LimitOnClose"        -> "LOC"
    [] t = "MarketIfTouched"     -> "MIT"
    [] t = "LimitIfTouched"      -> "LIT"
    [] t = "MarketWithProtection" -> "MKT PRT"
    [] t = "StopWithProtection"  -> "STP PRT"
    [] t = "Midprice"            -> "MIDPRICE"
    [] t = "PeggedToMarket"      -> "PEG MKT"
    [] t = "PeggedToStock"       -> "PEG STK"
    [] t = "PeggedToMidpoint"    -> "PEG MID"
    [] t = "PeggedToBenchmark"   -> "PEG BENCH"
    [] t = "PegBest"             -> "PEG BEST"
    [] t = "PassiveRelative"     -> "PASSV REL"
    [] t = "Volatility"          -> "VOL"
    [] t = "BoxTop"              -> "BOX TOP"
    [] t = "RelativeLimitCombo"  -> "REL + LMT"
    [] t = "RelativeMarketCombo" -> "REL + MKT"

RequiresLimitPrice ==
  {"Limit", "StopLimit", "LimitOnClose", "LimitOnOpen", "LimitIfTouched", "AuctionLimit",
   "ComboLimit", "RelativeLimitCombo", "AtAuction"}

\* The time in force an order is sent with: by its string, of which GTX is one
\* that the reading side does not know, and takes for a day order.
TimesInForce ==
  {"Day", "GoodTillCancel", "ImmediateOrCancel", "GoodTillDate", "FillOrKill",
   "GoodTillCrossing", "DayTillCanceled", "Auction", "OpeningAuction"}
TimeInForceSent(t) ==
  CASE t = "GoodTillCancel"    -> "GTC"
    [] t = "ImmediateOrCancel" -> "IOC"
    [] t = "GoodTillDate"      -> "GTD"
    [] t = "FillOrKill"        -> "FOK"
    [] t = "DayTillCanceled"   -> "DTC"
    [] t = "Auction"           -> "AUC"
    [] t = "OpeningAuction"    -> "OPG"
    [] t \in {"Day", "GoodTillCrossing"} -> "DAY"

-------------------------------------------------------------------------------
(* Builders. *)

\* The options of type f64 are given the values of Number by their callers.
Builders(Number) ==
  [action : Actions \cup {None}, quantity : Number, order_type : OrderTypes \cup {None},
   limit_price : Number, stop_price : Number, aux_price : Number, trail_stop_price : Number,
   trailing_percent : BOOLEAN, volatility : BOOLEAN, time_in_force : TimesInForce,
   good_till_date : BOOLEAN, transmit : BOOLEAN, what_if : BOOLEAN]

NewBuilder ==
  [action |-> None, quantity |-> None, order_type |-> None, limit_price |-> None,
   stop_price |-> None, aux_price |-> None, trail_stop_price |-> None,
   trailing_percent |-> FALSE, volatility |-> FALSE, time_in_force |-> "Day",
   good_till_date |-> FALSE, transmit |-> TRUE, what_if |-> FALSE]

\* What a call sets.
Sided(b, a, q) == [b EXCEPT !.action = a, !.quantity = q]
Typed(b, t) == [b EXCEPT !.order_type = t]
Limited(b, p) == [b EXCEPT !.limit_price = p]
Stopped(b, p) == [b EXCEPT !.stop_price = p]
Aux(b, p) == [b EXCEPT !.aux_price = p]
Trailing(b, p) == [b EXCEPT !.trailing_percent = TRUE, !.trail_stop_price = p]
InForce(b, z) == [b EXCEPT !.time_in_force = z]

\* buy, sell, sell_short, sell_long.
SideCalls(b, Number) == {Sided(b, a, q) : a \in Actions, q \in Number}

\* The calls that set the type, with the prices each takes; order_type(t) sets it
\* and no more, as market, market_to_limit and their like do.
TypeCalls(b, Number) ==
  LET Cap == Number \cup {None}
  IN {Typed(b, t) : t \in OrderTypes} \cup
     {Limited(Typed(b, t), p) : t \in {"Limit", "LimitOnClose"}, p \in Number} \cup
     {Stopped(Typed(b, t), p) : t \in {"Stop", "StopWithProtection"}, p \in Number} \cup
     {Limited(Stopped(Typed(b, "StopLimit"), p), q) : p \in Number, q \in Number} \cup
     {Trailing(Typed(b, t), p) : t \in {"TrailingStop", "TrailingStopLimit"}, p \in Number} \cup
     {Aux(Typed(b, t), p) : t \in {"MarketIfTouched", "PassiveRelative"}, p \in Number} \cup
     {Limited(Aux(Typed(b, "LimitIfTouched"), p), q) : p \in Number, q \in Number} \cup
     {Limited(Typed(b, "Midprice"), p) : p \in Cap} \cup
     {Limited(Aux(Typed(b, "Relative"), p), q) : p \in Number, q \in Cap} \cup
     {InForce(Limited(Typed(b, "AtAuction"), p), "Auction") : p \in Number} \cup
     {InForce(Limited(Typed(b, "Limit"), p), "OpeningAuction") : p \in Number} \cup
     {InForce(Typed(b, "Market"), "OpeningAuction")}

\* time_in_force and its like, good_till_date, good_till_time.
TimeCalls(b) ==
  {InForce(b, t) : t \in TimesInForce} \cup
  {[b EXCEPT !.time_in_force = "GoodTillDate", !.good_till_date = TRUE],
   [b EXCEPT !.good_till_date = TRUE]}

FlagCalls(b) ==
  {[b EXCEPT !.transmit = FALSE], [b EXCEPT !.what_if = TRUE], [b EXCEPT !.volatility = TRUE]}

-------------------------------------------------------------------------------
(* Build. *)

\* A slip: a limit price is checked for being there, and not for being a number.
AcceptsUnchecked(b) ==
  /\ b.action # None /\ b.order_type # None
  /\ Finite(b.quantity) /\ b.quantity > 0
  /\ b.limit_price = None => b.order_type \notin RequiresLimitPrice
  /\ b.stop_price # NaN
  /\ b.stop_price = None => b.order_type \notin {"Stop", "StopLimit"}
  /\ b.order_type \in {"TrailingStop", "TrailingStopLimit"} =>
       b.trail_stop_price # NaN /\ (b.trailing_percent \/ b.trail_stop_price # None)
  /\ b.order_type = "Volatility" => b.volatility
  /\ b.time_in_force = "GoodTillDate" => b.good_till_date

\* The validation in build.  A price is checked when its type does not need it
\* also, but aux_price never is, and a trailing price by its own types only.
Accepts(b) ==
  /\ b.action # None /\ b.order_type # None
  /\ Finite(b.quantity) /\ b.quantity > 0
  /\ b.limit_price # NaN
  /\ b.limit_price = None => b.order_type \notin RequiresLimitPrice
  /\ b.stop_price # NaN
  /\ b.stop_price = None => b.order_type \notin {"Stop", "StopLimit"}
  /\ b.order_type \in {"TrailingStop", "TrailingStopLimit"} =>
       b.trail_stop_price # NaN /\ (b.trailing_percent \/ b.trail_stop_price # None)
  /\ b.order_type = "Volatility" => b.volatility
  /\ b.time_in_force = "GoodTillDate" => b.good_till_date

\* The order that is sent: the stop price goes out as its auxiliary price, before
\* one given as such.
OrderOf(b) ==
  [action |-> b.action, total_quantity |-> b.quantity,
   order_type |-> OrderTypeCode(b.order_type),
   limit_price |-> b.limit_price,
   aux_price |-> IF b.stop_price # None THEN b.stop_price ELSE b.aux_price,
   trail_stop_price |->
     IF b.order_type \in {"TrailingStop", "TrailingStopLimit"} THEN b.trail_stop_price ELSE None,
   trailing_percent |-> b.trailing_percent, volatility |-> b.volatility,
   tif |-> TimeInForceSent(b.time_in_force), good_till_date |-> b.good_till_date,
   transmit |-> b.transmit, what_if |-> b.what_if]

\* build(): the order, if it is not refused.
Build(b) == IF Accepts(b) THEN {OrderOf(b)} ELSE {}

-------------------------------------------------------------------------------
(* Brackets: an entry with its take profit and its stop loss. *)

\* What entry_limit and entry_market set; None is an entry not set.
Entries(Number) ==
  [kind : {None, "Market"}, price : {None}] \cup [kind : {"Limit"}, price : Number]

\* A slip: the stop loss is compared with the take profit, not with the entry.
PricesAgreeLoosely(action, entry, take_profit, stop_loss) ==
  CASE action = "Buy" -> take_profit > entry /\ stop_loss < take_profit
    [] action \in {"Sell", "SellShort"} -> take_profit < entry /\ stop_loss > take_profit
    [] OTHER -> action # None

\* validate_bracket_prices: of sell_long nothing is asked.
PricesAgree(action, entry, take_profit, stop_loss) ==
  CASE action = "Buy" -> take_profit > entry /\ stop_loss < entry
    [] action \in {"Sell", "SellShort"} -> take_profit < entry /\ stop_loss > entry
    [] OTHER -> action # None

\* The children have the defaults of an order but for what is copied here.
Child(parent, type, limit, aux, transmits) ==
  [action |-> Reverse[parent.action], total_quantity |-> parent.total_quantity,
   order_type |-> type, limit_price |-> limit, aux_price |-> aux,
   trail_stop_price |-> None, trailing_percent |-> FALSE, volatility |-> FALSE,
   tif |-> parent.tif, good_till_date |-> FALSE,
   transmit |-> transmits, what_if |-> FALSE]

\* The builder the entry is built by.  A market entry keeps a limit price that an
\* earlier call has set.
EntryBuilder(b, entry) ==
  IF entry.kind = "Limit" THEN [b EXCEPT !.order_type = "Limit", !.limit_price = entry.price]
                          ELSE [b EXCEPT !.order_type = "Market"]

\* BracketOrderBuilder::build(): entry, take profit and stop loss, if not refused.
BuildBracket(b, entry, take_profit, stop_loss) ==
  IF /\ Finite(take_profit) /\ Finite(stop_loss) /\ entry.kind # None
     /\ entry.kind = "Limit" =>
          Finite(entry.price) /\ PricesAgree(b.action, entry.price, take_profit, stop_loss)
    THEN LET Legs(o) == LET parent == [o EXCEPT !.transmit = FALSE]
                        IN <<parent, Child(parent, "LMT", take_profit, None, FALSE),
                             Child(parent, "STP", None, stop_loss, TRUE)>>
         IN {Legs(o) : o \in Build(EntryBuilder(b, entry))}
    ELSE {}
===============================================================================
