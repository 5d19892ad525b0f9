----------------------------- MODULE OrdersProofs -----------------------------
(* Proofs about the builder and about submissions, for any number of callers,    *)
(* any prices, calls, ids and losses.                                            *)
EXTENDS Orders, SequenceTheorems, TLAPS

-------------------------------------------------------------------------------
(* The builder. *)

\* The types by the string they are sent as.
LEMMA Codes ==
  ASSUME NEW t \in OrderTypes
  PROVE  /\ OrderTypeCode(t) \in {"LMT", "STP LMT", "LOC", "LIT", "REL + LMT"} => t \in RequiresLimitPrice
         /\ OrderTypeCode(t) \in {"STP", "STP LMT"} => t \in {"Stop", "StopLimit"}
         /\ OrderTypeCode(t) \in {"TRAIL", "TRAIL LIMIT"} => t \in {"TrailingStop", "TrailingStopLimit"}
         /\ OrderTypeCode(t) = "VOL" => t = "Volatility"
  BY DEF OrderTypes, OrderTypeCode, RequiresLimitPrice

LEMMA Times ==
  ASSUME NEW t \in TimesInForce
  PROVE  TimeInForceSent(t) = "GTD" => t = "GoodTillDate"
  BY DEF TimesInForce, TimeInForceSent

\* A builder whose numbers are numbers, or not, or missing.
IsBuilder(b) == b \in Builders(Int \cup {NaN, None})

\* What build accepts is sound: nothing an earlier call left behind matters.
LEMMA BuildIsSound ==
  ASSUME NEW b, IsBuilder(b), NEW o \in Build(b)
  PROVE  SoundOrder(o)
<1>1. Accepts(b) /\ o = OrderOf(b)
  BY DEF Build
<1>2. b.order_type \in OrderTypes /\ b.time_in_force \in TimesInForce
  BY <1>1 DEF IsBuilder, Builders, Accepts
<1>3. /\ o.total_quantity = b.quantity /\ o.limit_price = b.limit_price
      /\ o.order_type = OrderTypeCode(b.order_type) /\ o.tif = TimeInForceSent(b.time_in_force)
      /\ o.trailing_percent = b.trailing_percent /\ o.volatility = b.volatility
      /\ o.good_till_date = b.good_till_date
      /\ (b.stop_price # None => o.aux_price = b.stop_price)
      /\ IF b.order_type \in {"TrailingStop", "TrailingStopLimit"}
           THEN o.trail_stop_price = b.trail_stop_price ELSE o.trail_stop_price = None
  BY <1>1 DEF OrderOf
<1>4. /\ b.limit_price \in Int \cup {NaN, None} /\ b.stop_price \in Int \cup {NaN, None}
      /\ b.trail_stop_price \in Int \cup {NaN, None}
  BY DEF IsBuilder, Builders
<1>5. Price(o.limit_price) /\ (b.order_type \in RequiresLimitPrice => Finite(o.limit_price))
  <2>1. b.limit_price # NaN /\ (b.limit_price = None => b.order_type \notin RequiresLimitPrice)
    BY <1>1 DEF Accepts
  <2> QED
    BY <2>1, <1>3, <1>4, NumbersAssumption DEF Price, Finite
<1>6. b.order_type \in {"Stop", "StopLimit"} => Finite(o.aux_price)
  BY <1>1, <1>3, <1>4, NumbersAssumption DEF Accepts, Finite
<1>7. Price(o.trail_stop_price)
  <2>1. b.order_type \in {"TrailingStop", "TrailingStopLimit"} => b.trail_stop_price # NaN
    BY <1>1 DEF Accepts
  <2> QED
    BY <2>1, <1>3, <1>4, NumbersAssumption DEF Price, Finite
<1>8. b.order_type \in {"TrailingStop", "TrailingStopLimit"} =>
        o.trailing_percent \/ Finite(o.trail_stop_price)
  BY <1>1, <1>3, <1>4, NumbersAssumption DEF Accepts, Finite
<1>9. /\ Finite(o.total_quantity) /\ o.total_quantity > 0
      /\ (b.order_type = "Volatility" => o.volatility)
      /\ (b.time_in_force = "GoodTillDate" => o.good_till_date)
  BY <1>1, <1>3 DEF Accepts
<1> QED
  BY <1>2, <1>3, <1>5, <1>6, <1>7, <1>8, <1>9, Codes, Times DEF SoundOrder

\* The entry of a bracket is built by a builder.
LEMMA EntryIsBuilder ==
  ASSUME NEW d, IsBuilder(d), NEW e \in Entries(BracketPrices)
  PROVE  IsBuilder(EntryBuilder(d, e))
<1>1. e.kind = "Limit" => e.price \in Int \cup {NaN, None}
  BY OrdersAssumption DEF Entries
<1>2. "Limit" \in OrderTypes /\ "Market" \in OrderTypes
  BY DEF OrderTypes
<1> QED
  BY <1>1, <1>2 DEF IsBuilder, Builders, EntryBuilder

\* A bracket that is built is sound.
LEMMA BracketIsSound ==
  ASSUME NEW d, IsBuilder(d), NEW e \in Entries(BracketPrices),
         NEW t \in BracketPrices \cup {None}, NEW s \in BracketPrices \cup {None},
         NEW b \in BuildBracket(d, e, t, s)
  PROVE  SoundBracket(b)
<1> DEFINE entry == EntryBuilder(d, e)
<1>1. /\ t \in Int /\ s \in Int
      /\ (e.kind = "Limit" => e.price \in Int /\ PricesAgree(d.action, e.price, t, s))
  BY DEF BuildBracket, Finite
<1>2. PICK o \in Build(entry) :
        LET parent == [o EXCEPT !.transmit = FALSE]
        IN b = <<parent, Child(parent, "LMT", t, None, FALSE),
                 Child(parent, "STP", None, s, TRUE)>>
  BY DEF BuildBracket
<1>3. Accepts(entry) /\ o = OrderOf(entry)
  BY <1>2 DEF Build
<1>4. IsBuilder(entry)
  BY EntryIsBuilder
<1>5. SoundOrder(o)
  BY <1>2, <1>4, BuildIsSound
<1> DEFINE parent == [o EXCEPT !.transmit = FALSE]
<1>6. /\ parent.action = o.action /\ parent.total_quantity = o.total_quantity
      /\ parent.order_type = o.order_type /\ parent.limit_price = o.limit_price
      /\ parent.aux_price = o.aux_price /\ parent.trail_stop_price = o.trail_stop_price
      /\ parent.trailing_percent = o.trailing_percent /\ parent.volatility = o.volatility
      /\ parent.tif = o.tif /\ parent.good_till_date = o.good_till_date
      /\ parent.transmit = FALSE
  BY <1>3 DEF OrderOf
<1> DEFINE profit == Child(parent, "LMT", t, None, FALSE)
           stop == Child(parent, "STP", None, s, TRUE)
<1>7. b[1] = parent /\ b[2] = profit /\ b[3] = stop
  BY <1>2
<1>8. SoundOrder(parent)
  BY <1>5, <1>6 DEF SoundOrder
<1>9. /\ profit.action = Reverse[o.action] /\ profit.total_quantity = o.total_quantity
      /\ profit.order_type = "LMT" /\ profit.limit_price = t /\ profit.trail_stop_price = None
      /\ profit.tif = o.tif /\ ~ profit.transmit
  BY <1>6 DEF Child
<1>10. /\ stop.action = Reverse[o.action] /\ stop.total_quantity = o.total_quantity
       /\ stop.order_type = "STP" /\ stop.aux_price = s /\ stop.limit_price = None
       /\ stop.trail_stop_price = None /\ stop.tif = o.tif /\ stop.transmit
  BY <1>6 DEF Child
<1> HIDE DEF profit, stop, parent, entry
<1>11. o.tif # "GTD" => SoundOrder(profit) /\ SoundOrder(stop)
  <2>1. Finite(o.total_quantity) /\ o.total_quantity > 0
    BY <1>5 DEF SoundOrder
  <2> QED
    BY <2>1, <1>1, <1>9, <1>10 DEF SoundOrder, Price, Finite
<1>12. entry.action = d.action /\ entry.action \in Actions /\ o.action = d.action
  <2>1. entry.action \in Actions
    BY <1>3, <1>4 DEF IsBuilder, Builders, Accepts
  <2> QED
    BY <2>1, <1>3 DEF entry, EntryBuilder, OrderOf, IsBuilder, Builders
<1>13. Reverse[Reverse[o.action]] = o.action
  BY <1>12 DEF Actions, Reverse
<1>14. ASSUME o.order_type = "LMT", o.action # "SellLong"
       PROVE  \/ s < o.limit_price /\ o.limit_price < t /\ o.action = "Buy"
              \/ /\ t < o.limit_price /\ o.limit_price < s
                 /\ o.action \in {"Sell", "SellShort"}
  <2>1. entry.order_type = IF e.kind = "Limit" THEN "Limit" ELSE "Market"
    BY DEF entry, EntryBuilder, IsBuilder, Builders
  <2>2. OrderTypeCode("Market") = "MKT" /\ o.order_type = OrderTypeCode(entry.order_type)
    BY <1>3 DEF OrderTypeCode, OrderOf
  <2>3. e.kind = "Limit"
    BY <1>14, <2>1, <2>2
  <2>4. o.limit_price = e.price
    BY <2>3, <1>3 DEF entry, EntryBuilder, OrderOf, IsBuilder, Builders
  <2>5. PricesAgree(d.action, e.price, t, s) /\ e.price \in Int
    BY <2>3, <1>1
  <2>6. d.action \in {"Buy", "Sell", "SellShort"}
    BY <1>12, <1>14 DEF Actions
  <2> QED
    BY <2>4, <2>5, <2>6, <1>1, <1>12 DEF PricesAgree
<1> QED
  BY <1>6, <1>7, <1>8, <1>9, <1>10, <1>11, <1>13, <1>14 DEF SoundBracket

-------------------------------------------------------------------------------
(* The inductive invariant. *)

\* What a caller has taken and written, by what it is doing.
JobOf(c) ==
  /\ job[c] \in {"idle", "asking", "answered"} => Len(legs[c]) = 0
  /\ job[c] \in {"idle", "asking"} => Len(ids[c]) = 0
  /\ job[c] = "answered" => Len(ids[c]) = 1
  /\ job[c] # "answered" => \A k \in 1..Len(ids[c]) : ids[c][k] \in OrderIds
  /\ job[c] = "submit" =>
       Len(legs[c]) \in {0, 1} /\ (Len(legs[c]) = 0 => Len(ids[c]) = 0)
  /\ job[c] = "bracket" => Len(legs[c]) = 3
  /\ job[c] = "oca" => Len(legs[c]) = 2
  /\ job[c] \in Kinds /\ Len(legs[c]) # 0 => written[c] < Len(legs[c])
  /\ written[c] <= Len(ids[c]) /\ written[c] <= Len(legs[c])
  /\ Len(legs[c]) = 3 => written[c] = 0 \/ Len(ids[c]) >= 3
Jobs == \A c \in Callers : JobOf(c)

\* The places of the ids that were taken, not those of an answer.
Taken(c) == IF job[c] = "answered" THEN {} ELSE 1..Len(ids[c])

\* The counter is past every id that was taken, or was set back over it.
Counted ==
  \A c \in Callers : \A k \in Taken(c) : ids[c][k] < nextId \/ ids[c][k] \in overtaken

\* An id is taken twice only if it was set back over.
Apart ==
  \A c, d \in Callers : \A k \in Taken(c), l \in Taken(d) :
    ids[c][k] = ids[d][l] => (c = d /\ k = l) \/ ids[c][k] \in overtaken

\* What was sent is what its caller has counted as written.
Written ==
  \A o \in sent : o.leg <= written[o.by] /\ o.id = ids[o.by][o.leg]

\* Only the stop loss transmits, and no child is a question.
IsBracket(b) == ~ b[1].transmit /\ ~ b[2].transmit /\ ~ b[2].what_if /\ ~ b[3].what_if
Brackets ==
  /\ \A b \in plan.bracket : IsBracket(b)
  /\ \A c \in Callers : Len(legs[c]) = 3 => IsBracket(legs[c])

\* What the broker has of a bracket is what its caller wrote.
Held ==
  \A i \in OrderIds :
    LET h == held[i]
    IN IF h.leg = 0 THEN h.parent = 0
       ELSE /\ h.by \in Callers /\ Len(legs[h.by]) = 3
            /\ h.leg <= written[h.by] /\ i = ids[h.by][h.leg]
            /\ h.parent = IF h.leg = 1 THEN 0 ELSE ids[h.by][1]

\* What it works was written.
Worked == \A i \in working : \E c \in Callers : \E k \in 1..3 : k <= written[c] /\ i = ids[c][k]

\* With no order lost, an entry that is held has its take profit once that is written.
Own(c) == \A k \in DOMAIN ids[c] : ids[c][k] \notin overtaken
TakeProfits ==
  lost = 0 =>
    \A c \in Callers :
      /\ Len(legs[c]) = 3 /\ written[c] >= 2 /\ Own(c)
      /\ held[ids[c][1]] = [by |-> c, leg |-> 1, parent |-> 0]
      => held[ids[c][2]] = [by |-> c, leg |-> 2, parent |-> ids[c][1]]

-------------------------------------------------------------------------------
(* The chain. *)

\* A call gives a builder again.
LEMMA CallsAreTyped ==
  ASSUME NEW b \in Builders(Numbers \cup {None}),
         NEW d \in TypeCalls(b, Numbers) \cup TimeCalls(b) \cup FlagCalls(b) \cup SideCalls(b, Numbers)
  PROVE  d \in Builders(Numbers \cup {None})
<1> DEFINE B == Builders(Numbers \cup {None})
           N == Numbers \cup {None}
<1>1. /\ \A x \in B, t \in OrderTypes : Typed(x, t) \in B
      /\ \A x \in B, p \in N : Limited(x, p) \in B
      /\ \A x \in B, p \in N : Stopped(x, p) \in B
      /\ \A x \in B, p \in N : Aux(x, p) \in B
      /\ \A x \in B, p \in N : Trailing(x, p) \in B
      /\ \A x \in B, z \in TimesInForce : InForce(x, z) \in B
  BY DEF Builders, Typed, Limited, Stopped, Aux, Trailing, InForce
<1>2. \A a \in Actions, q \in N : Sided(b, a, q) \in B
  BY DEF Builders, Sided
<1>3. {"Limit", "LimitOnClose", "Stop", "StopWithProtection", "StopLimit", "TrailingStop",
       "TrailingStopLimit", "MarketIfTouched", "PassiveRelative", "LimitIfTouched", "Midprice",
       "Relative", "AtAuction", "Market"} \subseteq OrderTypes
  BY DEF OrderTypes
<1>3a. /\ {"Limit", "LimitOnClose"} \subseteq OrderTypes
       /\ {"Stop", "StopWithProtection"} \subseteq OrderTypes
       /\ {"TrailingStop", "TrailingStopLimit"} \subseteq OrderTypes
       /\ {"MarketIfTouched", "PassiveRelative"} \subseteq OrderTypes
  BY DEF OrderTypes
<1>4. {"Auction", "OpeningAuction", "GoodTillDate"} \subseteq TimesInForce
  BY DEF TimesInForce
<1>5. CASE d \in TypeCalls(b, Numbers)
  <2> SUFFICES d \in B
    OBVIOUS
  <2> HIDE DEF B
  <2>1. b \in B /\ Numbers \subseteq N /\ None \in N
    BY DEF B
  <2>2. \/ d \in {Typed(b, t) : t \in OrderTypes}
        \/ d \in {Limited(Typed(b, t), p) : t \in {"Limit", "LimitOnClose"}, p \in Numbers}
        \/ d \in {Stopped(Typed(b, t), p) : t \in {"Stop", "StopWithProtection"}, p \in Numbers}
        \/ d \in {Limited(Stopped(Typed(b, "StopLimit"), p), q) : p \in Numbers, q \in Numbers}
        \/ d \in {Trailing(Typed(b, t), p) : t \in {"TrailingStop", "TrailingStopLimit"}, p \in Numbers}
        \/ d \in {Aux(Typed(b, t), p) : t \in {"MarketIfTouched", "PassiveRelative"}, p \in Numbers}
        \/ d \in {Limited(Aux(Typed(b, "LimitIfTouched"), p), q) : p \in Numbers, q \in Numbers}
        \/ d \in {Limited(Typed(b, "Midprice"), p) : p \in N}
        \/ d \in {Limited(Aux(Typed(b, "Relative"), p), q) : p \in Numbers, q \in N}
        \/ d \in {InForce(Limited(Typed(b, "AtAuction"), p), "Auction") : p \in Numbers}
        \/ d \in {InForce(Limited(Typed(b, "Limit"), p), "OpeningAuction") : p \in Numbers}
        \/ d \in {InForce(Typed(b, "Market"), "OpeningAuction")}
    BY <1>5 DEF TypeCalls
  <2>3. CASE d \in {Typed(b, t) : t \in OrderTypes}
    BY <1>1, <1>3, <1>4, <2>1, <2>3
  <2>4. CASE d \in {Limited(Typed(b, t), p) : t \in {"Limit", "LimitOnClose"}, p \in Numbers}
    <3>1. PICK t \in {"Limit", "LimitOnClose"}, p \in Numbers : d = Limited(Typed(b, t), p)
      BY <2>4
    <3> QED
      BY <1>1, <1>3a, <2>1, <3>1
  <2>5. CASE d \in {Stopped(Typed(b, t), p) : t \in {"Stop", "StopWithProtection"}, p \in Numbers}
    <3>1. PICK t \in {"Stop", "StopWithProtection"}, p \in Numbers : d = Stopped(Typed(b, t), p)
      BY <2>5
    <3> QED
      BY <1>1, <1>3a, <2>1, <3>1
  <2>6. CASE d \in {Limited(Stopped(Typed(b, "StopLimit"), p), q) : p \in Numbers, q \in Numbers}
    BY <1>1, <1>3, <1>4, <2>1, <2>6
  <2>7. CASE d \in {Trailing(Typed(b, t), p) : t \in {"TrailingStop", "TrailingStopLimit"}, p \in Numbers}
    <3>1. PICK t \in {"TrailingStop", "TrailingStopLimit"}, p \in Numbers : d = Trailing(Typed(b, t), p)
      BY <2>7
    <3> QED
      BY <1>1, <1>3a, <2>1, <3>1
  <2>8. CASE d \in {Aux(Typed(b, t), p) : t \in {"MarketIfTouched", "PassiveRelative"}, p \in Numbers}
    <3>1. PICK t \in {"MarketIfTouched", "PassiveRelative"}, p \in Numbers : d = Aux(Typed(b, t), p)
      BY <2>8
    <3> QED
      BY <1>1, <1>3a, <2>1, <3>1
  <2>9. CASE d \in {Limited(Aux(Typed(b, "LimitIfTouched"), p), q) : p \in Numbers, q \in Numbers}
    BY <1>1, <1>3, <1>4, <2>1, <2>9
  <2>10. CASE d \in {Limited(Typed(b, "Midprice"), p) : p \in N}
    BY <1>1, <1>3, <1>4, <2>1, <2>10
  <2>11. CASE d \in {Limited(Aux(Typed(b, "Relative"), p), q) : p \in Numbers, q \in N}
    BY <1>1, <1>3, <1>4, <2>1, <2>11
  <2>12. CASE d \in {InForce(Limited(Typed(b, "AtAuction"), p), "Auction") : p \in Numbers}
    BY <1>1, <1>3, <1>4, <2>1, <2>12
  <2>13. CASE d \in {InForce(Limited(Typed(b, "Limit"), p), "OpeningAuction") : p \in Numbers}
    BY <1>1, <1>3, <1>4, <2>1, <2>13
  <2>14. CASE d \in {InForce(Typed(b, "Market"), "OpeningAuction")}
    BY <1>1, <1>3, <1>4, <2>1, <2>14
  <2> QED
    BY <2>2, <2>3, <2>4, <2>5, <2>6, <2>7, <2>8, <2>9, <2>10, <2>11, <2>12, <2>13, <2>14
<1>6. CASE d \in TimeCalls(b)
  <2>1. \/ \E z \in TimesInForce : d = InForce(b, z)
        \/ d = [b EXCEPT !.time_in_force = "GoodTillDate", !.good_till_date = TRUE]
        \/ d = [b EXCEPT !.good_till_date = TRUE]
    BY <1>6 DEF TimeCalls
  <2>2. CASE \E z \in TimesInForce : d = InForce(b, z)
    BY <1>1, <2>2
  <2> QED
    BY <1>4, <2>1, <2>2 DEF Builders
<1>7. CASE d \in FlagCalls(b)
  BY <1>7 DEF FlagCalls, Builders
<1>8. CASE d \in SideCalls(b, Numbers)
  BY <1>2, <1>8 DEF SideCalls
<1> QED
  BY <1>5, <1>6, <1>7, <1>8

\* What the submission looks at in what is built.
LEMMA PlansAreTyped ==
  ASSUME NEW b \in Builders(Numbers \cup {None}), NEW e \in Entries(BracketPrices),
         NEW t, NEW s
  PROVE  /\ Skeletal(Build(b)) \subseteq Skeletons
         /\ SkeletalBracket(BuildBracket(b, e, t, s)) \subseteq [1..3 -> Skeletons]
         /\ \A l \in SkeletalBracket(BuildBracket(b, e, t, s)) : IsBracket(l)
<1>1. \A x, o : x.transmit \in BOOLEAN /\ x.what_if \in BOOLEAN /\ o \in Build(x) =>
                o.transmit \in BOOLEAN /\ o.what_if \in BOOLEAN
  BY DEF Build, OrderOf
<1>2. b.transmit \in BOOLEAN /\ b.what_if \in BOOLEAN
  BY DEF Builders
<1>3. Skeletal(Build(b)) \subseteq Skeletons
  BY <1>1, <1>2 DEF Skeletal, Skeleton, Skeletons
<1>4. ASSUME NEW l \in SkeletalBracket(BuildBracket(b, e, t, s))
      PROVE  l \in [1..3 -> Skeletons] /\ IsBracket(l)
  <2>1. PICK k \in BuildBracket(b, e, t, s) : l = [i \in 1..3 |-> Skeleton(k[i])]
    BY DEF SkeletalBracket
  <2>2. PICK o \in Build(EntryBuilder(b, e)) :
          LET parent == [o EXCEPT !.transmit = FALSE]
          IN k = <<parent, Child(parent, "LMT", t, None, FALSE),
                   Child(parent, "STP", None, s, TRUE)>>
    BY <2>1 DEF BuildBracket
  <2>3. EntryBuilder(b, e).transmit \in BOOLEAN /\ EntryBuilder(b, e).what_if \in BOOLEAN
    BY DEF Builders, EntryBuilder
  <2>4. o.what_if \in BOOLEAN /\ o = OrderOf(EntryBuilder(b, e))
    BY <1>1, <2>2, <2>3 DEF Build
  <2>5. /\ k[1].transmit = FALSE /\ k[1].what_if \in BOOLEAN
        /\ k[2].transmit = FALSE /\ k[2].what_if = FALSE
        /\ k[3].transmit = TRUE /\ k[3].what_if = FALSE
    BY <2>2, <2>4 DEF Child, OrderOf
  <2>6. /\ l[1] = [transmit |-> FALSE, what_if |-> k[1].what_if]
        /\ l[2] = [transmit |-> FALSE, what_if |-> FALSE]
        /\ l[3] = [transmit |-> TRUE, what_if |-> FALSE]
    <3>1. l[1] = Skeleton(k[1]) /\ l[2] = Skeleton(k[2]) /\ l[3] = Skeleton(k[3])
      BY <2>1
    <3> QED
      BY <3>1, <2>5 DEF Skeleton
  <2>7. \A i \in 1..3 : i = 1 \/ i = 2 \/ i = 3
    OBVIOUS
  <2>8. \A i \in 1..3 : Skeleton(k[i]) \in Skeletons
    BY <2>5, <2>7 DEF Skeleton, Skeletons
  <2> QED
    BY <2>1, <2>6, <2>8 DEF IsBracket
<1> QED
  BY <1>3, <1>4

-------------------------------------------------------------------------------
(* Types. *)

\* The order that is written next.
LEMMA NextOrderIsTyped ==
  ASSUME TypeOK, Jobs, NEW c \in Callers, CanWrite(c)
  PROVE  /\ job[c] \in Kinds /\ written[c] + 1 \in 1..3
         /\ written[c] + 1 <= Len(ids[c]) /\ written[c] + 1 <= Len(legs[c])
         /\ NextOrder(c).id = ids[c][written[c] + 1] /\ NextOrder(c).id \in OrderIds
         /\ NextOrder(c).by = c /\ NextOrder(c).leg = written[c] + 1
         /\ NextOrder(c).bracket \in BOOLEAN /\ (NextOrder(c).bracket <=> Len(legs[c]) = 3)
         /\ NextOrder(c).parent =
              IF NextOrder(c).bracket /\ written[c] > 0 THEN ids[c][1] ELSE 0
         /\ NextOrder(c).parent \in 0..MaxOrderId
         /\ (NextOrder(c).bracket => Len(ids[c]) >= 3)
         /\ legs[c][written[c] + 1] \in Skeletons
         /\ NextOrder(c).what_if = legs[c][written[c] + 1].what_if
         /\ (NextOrder(c).transmit <=> legs[c][written[c] + 1].transmit
                                       \/ (NextOrder(c).bracket /\ written[c] = 2))
<1> DEFINE n == written[c] + 1
           o == NextOrder(c)
<1>0. /\ job[c] \in Kinds /\ MaxOrderId \in Nat
  BY OrdersAssumption DEF CanWrite, IsSubmitting
<1>1. /\ ids[c] \in Seq(1..MaxOrderId + 1) /\ legs[c] \in Seq(Skeletons)
      /\ written[c] \in 0..3
  BY DEF TypeOK
<1>l. Len(ids[c]) \in Nat /\ Len(legs[c]) \in Nat
  BY <1>1
<1>j. JobOf(c)
  BY DEF Jobs
<1>2. /\ n <= Len(ids[c]) /\ n <= Len(legs[c]) /\ 1 <= Len(legs[c]) /\ Len(legs[c]) <= 3
      /\ (job[c] = "bracket" <=> Len(legs[c]) = 3)
      /\ (job[c] = "bracket" => Len(ids[c]) >= 3)
  <2>1. CASE job[c] = "submit"
    <3>1. ids[c] # <<>> /\ Len(ids[c]) # 0
      BY <1>1, <1>l, <2>1 DEF CanWrite, NeedsId
    <3> QED
      <4>1. Len(legs[c]) = 1 /\ written[c] < 1
        BY <1>l, <1>j, <2>1, <3>1 DEF JobOf, Kinds
      <4> QED
        BY <1>1, <1>l, <2>1, <3>1, <4>1
  <2>2. CASE job[c] = "bracket"
    <3>1. Len(ids[c]) >= 3
      BY <1>l, <2>2 DEF CanWrite, NeedsId
    <3>2. Len(legs[c]) = 3 /\ written[c] < 3
      <4>1. Len(legs[c]) = 3 /\ (Len(legs[c]) # 0 => written[c] < Len(legs[c]))
        BY <2>2, <1>j DEF JobOf, Kinds
      <4> QED
        BY <1>l, <4>1
    <3> QED
      BY <1>1, <2>2, <3>1, <3>2
  <2>3. CASE job[c] = "oca"
    <3>1. Len(ids[c]) # written[c]
      BY <2>3 DEF CanWrite, NeedsId
    <3>2. Len(legs[c]) = 2 /\ written[c] < 2 /\ written[c] <= Len(ids[c])
      <4>1. /\ Len(legs[c]) = 2 /\ (Len(legs[c]) # 0 => written[c] < Len(legs[c]))
            /\ written[c] <= Len(ids[c])
        BY <2>3, <1>j DEF JobOf, Kinds
      <4> QED
        BY <1>l, <4>1
    <3> QED
      BY <1>1, <1>l, <2>3, <3>1, <3>2
  <2> QED
    BY <1>0, <2>1, <2>2, <2>3 DEF Kinds
<1>3. \A k \in 1..Len(ids[c]) : ids[c][k] \in OrderIds
  BY <1>0, <1>1, <1>l, <1>j DEF JobOf, Kinds
<1>4. legs[c][n] \in Skeletons
  BY <1>1, <1>l, <1>2, ElementOfSeq
<1>5. /\ o.id = ids[c][n] /\ o.by = c /\ o.leg = n /\ o.bracket = (job[c] = "bracket")
      /\ o.parent = IF job[c] = "bracket" /\ n > 1 THEN ids[c][1] ELSE 0
      /\ o.transmit = (legs[c][n].transmit \/ (job[c] = "bracket" /\ n = 3))
      /\ o.what_if = legs[c][n].what_if
  BY DEF NextOrder
<1> HIDE DEF o
<1>6. o.bracket \in BOOLEAN /\ (o.bracket <=> job[c] = "bracket")
  BY <1>5
<1>7. n \in 1..3 /\ (written[c] > 0 <=> n > 1) /\ (written[c] = 2 <=> n = 3)
  <2>1. written[c] \in 0..3 /\ Len(legs[c]) <= 3 /\ n <= Len(legs[c])
    BY <1>1, <1>2
  <2> QED
    BY <1>l, <2>1
<1>8. ids[c][n] \in OrderIds /\ ids[c][1] \in OrderIds
  BY <1>1, <1>l, <1>2, <1>3, <1>7
<1>9. o.parent \in 0..MaxOrderId
  BY <1>0, <1>5, <1>8 DEF OrderIds
<1>10. o.transmit <=> legs[c][n].transmit \/ (o.bracket /\ written[c] = 2)
  BY <1>5, <1>6, <1>7
<1>11. o.parent = IF o.bracket /\ written[c] > 0 THEN ids[c][1] ELSE 0
  BY <1>5, <1>6, <1>7
<1> QED
  BY <1>0, <1>1, <1>2, <1>4, <1>5, <1>6, <1>7, <1>8, <1>9, <1>10, <1>11 DEF o

\* A caller that does nothing keeps what is known of it.
LEMMA JobIsKept ==
  ASSUME NEW d, JobOf(d), job'[d] = job[d], legs'[d] = legs[d], ids'[d] = ids[d],
         written'[d] = written[d]
  PROVE  JobOf(d)'
  BY DEF JobOf

\* A call of the chain, and its end, give builders and orders again.
LEMMA ChainIsTyped ==
  ASSUME TypeOK, SetSide \/ SetType \/ SetTime \/ SetFlag \/ FinishChain
  PROVE  /\ draft' \in Builders(Numbers \cup {None}) /\ calls' \in -1..MaxCalls
         /\ plan' \in [order : SUBSET Skeletons, bracket : SUBSET [1..3 -> Skeletons]]
         /\ plan' = plan \/ \A b \in plan'.bracket : IsBracket(b)
         /\ NotChain
<1> DEFINE B == Builders(Numbers \cup {None})
           P == [order : SUBSET Skeletons, bracket : SUBSET [1..3 -> Skeletons]]
<1>1. draft \in B /\ calls \in -1..MaxCalls /\ plan \in P
  BY DEF TypeOK
<1>2. MaxCalls \in Nat
  BY OrdersAssumption
<1>3. \A d \in TypeCalls(draft, Numbers) \cup TimeCalls(draft) \cup FlagCalls(draft)
                 \cup SideCalls(draft, Numbers) : d \in B
  BY <1>1, CallsAreTyped
<1>4. CASE SetSide
  BY <1>1, <1>3, <1>4 DEF SetSide
<1>5. CASE SetType \/ SetTime \/ SetFlag
  <2>1. /\ draft' \in TypeCalls(draft, Numbers) \cup TimeCalls(draft) \cup FlagCalls(draft)
        /\ calls \in 0..MaxCalls - 1 /\ calls' = calls + 1 /\ plan' = plan /\ NotChain
    BY <1>5 DEF SetType, SetTime, SetFlag, Fluently
  <2>2. calls' \in -1..MaxCalls
    BY <1>2, <2>1
  <2> QED
    BY <1>1, <1>3, <2>1, <2>2
<1>6. CASE FinishChain
  <2>1. /\ calls' = -1 /\ draft' = NewBuilder /\ NotChain
        /\ \E e \in Entries(BracketPrices), t, s \in BracketPrices \cup {None} :
             plan' = [order |-> Skeletal(Build(draft)),
                      bracket |-> SkeletalBracket(BuildBracket(draft, e, t, s))]
    BY <1>6 DEF FinishChain
  <2>2. NewBuilder \in B
    BY DEF NewBuilder, Builders, TimesInForce
  <2>3. plan' \in P /\ \A b \in plan'.bracket : IsBracket(b)
    <3>1. PICK e \in Entries(BracketPrices), t \in BracketPrices \cup {None},
               s \in BracketPrices \cup {None} :
             plan' = [order |-> Skeletal(Build(draft)),
                      bracket |-> SkeletalBracket(BuildBracket(draft, e, t, s))]
      BY <2>1
    <3>2. /\ Skeletal(Build(draft)) \subseteq Skeletons
          /\ SkeletalBracket(BuildBracket(draft, e, t, s)) \subseteq [1..3 -> Skeletons]
          /\ \A b \in SkeletalBracket(BuildBracket(draft, e, t, s)) : IsBracket(b)
      BY <1>1, PlansAreTyped
    <3> QED
      BY <3>1, <3>2
  <2>4. calls' \in -1..MaxCalls
    BY <1>2, <2>1
  <2> QED
    BY <2>1, <2>2, <2>3, <2>4
<1> QED
  BY <1>4, <1>5, <1>6

\* A function on 1..3 is a sequence of three.
LEMMA IsASequenceOfThree ==
  ASSUME NEW S, NEW f \in [1..3 -> S]
  PROVE  f \in Seq(S) /\ Len(f) = 3
<1>1. f \in Seq(S)
  BY SeqDef
<1>2. Len(f) \in Nat /\ 1..Len(f) = 1..3
  BY <1>1, LenProperties
<1>3. /\ \A i \in Nat : i \in 1..Len(f) <=> i \in 1..3
      /\ Len(f) + 1 \in Nat /\ 3 \in Nat
  BY <1>2
<1> QED
  BY <1>1, <1>2, <1>3

\* What a submission begins with.
LEMMA BeginIsTyped ==
  ASSUME TypeOK, NEW c \in Callers, Submit(c) \/ Analyze(c) \/ SubmitAll(c) \/ SubmitOca(c)
  PROVE  \E kind \in Kinds, orders \in Seq(Skeletons) :
           /\ Begin(c, kind, orders)
           /\ (kind = "submit" => Len(orders) = 0 \/ Len(orders) = 1)
           /\ (kind = "bracket" => Len(orders) = 3 /\ orders \in plan.bracket)
           /\ (kind = "oca" => Len(orders) = 2)
<1>1. plan.order \subseteq Skeletons /\ plan.bracket \subseteq [1..3 -> Skeletons]
  BY DEF TypeOK
<1>2. CASE Submit(c)
  <2>1. CASE \E o \in plan.order : Begin(c, "submit", <<o>>)
    <3>1. PICK o \in plan.order : Begin(c, "submit", <<o>>)
      BY <2>1
    <3>2. <<o>> \in Seq(Skeletons) /\ Len(<<o>>) = 1
      BY <1>1
    <3> QED
      BY <3>1, <3>2 DEF Kinds
  <2>2. CASE Begin(c, "submit", <<>>)
    <3>1. <<>> \in Seq(Skeletons) /\ Len(<<>>) = 0
      OBVIOUS
    <3> QED
      BY <2>2, <3>1 DEF Kinds
  <2> QED
    BY <1>2, <2>1, <2>2 DEF Submit
<1>3. CASE Analyze(c)
  <2>1. PICK o \in plan.order : Begin(c, "submit", <<[o EXCEPT !.what_if = TRUE]>>)
    BY <1>3 DEF Analyze
  <2>2. [o EXCEPT !.what_if = TRUE] \in Skeletons
    BY <1>1 DEF Skeletons
  <2>3. /\ <<[o EXCEPT !.what_if = TRUE]>> \in Seq(Skeletons)
        /\ Len(<<[o EXCEPT !.what_if = TRUE]>>) = 1
    BY <2>2
  <2> QED
    BY <2>1, <2>3 DEF Kinds
<1>4. CASE SubmitAll(c)
  <2>1. PICK b \in plan.bracket : Begin(c, "bracket", b)
    BY <1>4 DEF SubmitAll
  <2>2. b \in Seq(Skeletons) /\ Len(b) = 3
    <3>1. b \in [1..3 -> Skeletons] /\ 3 \in Nat
      BY <1>1
    <3> QED
      BY <3>1, IsASequenceOfThree
  <2> QED
    BY <2>1, <2>2 DEF Kinds
<1>5. CASE SubmitOca(c)
  <2>1. PICK o \in plan.order : Begin(c, "oca", <<o, o>>)
    BY <1>5 DEF SubmitOca
  <2>2. <<o, o>> \in Seq(Skeletons) /\ Len(<<o, o>>) = 2
    BY <1>1
  <2> QED
    BY <2>1, <2>2 DEF Kinds
<1> QED
  BY <1>2, <1>3, <1>4, <1>5

\* Types and jobs hold at first, and every step keeps them.
LEMMA TypesInit == Init => TypeOK /\ Jobs
<1> SUFFICES ASSUME Init PROVE TypeOK /\ Jobs
  OBVIOUS
<1>1. MaxOrderId \in Nat /\ MaxLost \in Nat /\ MaxCalls \in Nat
  BY OrdersAssumption
<1>2. NewBuilder \in Builders(Numbers \cup {None})
  BY DEF NewBuilder, Builders, TimesInForce
<1>3. \A S : <<>> \in Seq(S) /\ Len(<<>>) = 0
  OBVIOUS
<1>4. /\ draft = NewBuilder /\ calls = 0 /\ plan = [order |-> {}, bracket |-> {}]
      /\ nextId = 1 /\ topId = 0 /\ lost = 0 /\ working = {} /\ sent = {} /\ overtaken = {}
      /\ held = [i \in OrderIds |-> NoOrder]
  BY DEF Init
<1>4a. /\ job = [c \in Callers |-> "idle"] /\ legs = [c \in Callers |-> <<>>]
       /\ ids = [c \in Callers |-> <<>>] /\ written = [c \in Callers |-> 0]
  BY DEF Init
<1>5. TypeOK
  <2>1. calls \in -1..MaxCalls /\ lost \in 0..MaxLost
    BY <1>1, <1>4
  <2>2. plan \in [order : SUBSET Skeletons, bracket : SUBSET [1..3 -> Skeletons]]
    BY <1>4
  <2>3. nextId \in 1..MaxOrderId + 1 /\ topId \in 0..MaxOrderId
    BY <1>1, <1>4
  <2>4. /\ job \in [Callers -> Kinds \cup {"idle", "failed", "done", "asking", "answered"}]
        /\ legs \in [Callers -> Seq(Skeletons)] /\ ids \in [Callers -> Seq(1..MaxOrderId + 1)]
        /\ written \in [Callers -> 0..3]
    <3>1. legs \in [Callers -> Seq(Skeletons)] /\ ids \in [Callers -> Seq(1..MaxOrderId + 1)]
      BY <1>3, <1>4a
    <3>2. job \in [Callers -> Kinds \cup {"idle", "failed", "done", "asking", "answered"}]
      BY <1>4a
    <3>3. written \in [Callers -> 0..3]
      BY <1>4a
    <3> QED
      BY <3>1, <3>2, <3>3
  <2>5. NoOrder \in [by : Callers \cup {None}, leg : 0..3, parent : 0..MaxOrderId]
    BY <1>1 DEF NoOrder
  <2>6. held \in [OrderIds -> [by : Callers \cup {None}, leg : 0..3, parent : 0..MaxOrderId]]
    BY <1>4, <2>5
  <2> QED
    BY <1>2, <1>4, <2>1, <2>2, <2>3, <2>4, <2>6 DEF TypeOK
<1>6. ASSUME NEW c \in Callers
      PROVE  JobOf(c)
  <2>1. job[c] = "idle" /\ Len(legs[c]) = 0 /\ Len(ids[c]) = 0 /\ written[c] = 0
    BY <1>3, <1>4a
  <2>2. \A k \in 1..Len(ids[c]) : ids[c][k] \in OrderIds
    BY <2>1
  <2>3. written[c] <= Len(ids[c]) /\ written[c] <= Len(legs[c])
    BY <2>1
  <2> QED
    BY <2>1, <2>2, <2>3 DEF JobOf, Kinds
<1> QED
  BY <1>5, <1>6 DEF Jobs

\* What a step of a caller leaves alone.
OthersKept(c) ==
  \A d \in Callers \ {c} :
    /\ job'[d] = job[d] /\ legs'[d] = legs[d]
    /\ ids'[d] = ids[d] /\ written'[d] = written[d]

LEMMA JobsStep ==
  ASSUME Jobs, NEW c \in Callers, OthersKept(c), JobOf(c)'
  PROVE  Jobs'
<1>1. ASSUME NEW d \in Callers, d # c
      PROVE  JobOf(d)'
  <2>1. JobOf(d)
    BY DEF Jobs
  <2> QED
    BY <1>1, <2>1, JobIsKept DEF OthersKept
<1> QED
  BY <1>1 DEF Jobs

\* The variables of the callers.
CallersTyped ==
  /\ job \in [Callers -> Kinds \cup {"idle", "failed", "done", "asking", "answered"}]
  /\ legs \in [Callers -> Seq(Skeletons)]
  /\ ids \in [Callers -> Seq(1..MaxOrderId + 1)] /\ written \in [Callers -> 0..3]

LEMMA BeginStep ==
  ASSUME TypeOK, Jobs, NEW c \in Callers, Submit(c) \/ Analyze(c) \/ SubmitAll(c) \/ SubmitOca(c)
  PROVE  TypeOK' /\ Jobs'
<1>1. PICK kind \in Kinds, orders \in Seq(Skeletons) :
        /\ Begin(c, kind, orders)
        /\ (kind = "submit" => Len(orders) = 0 \/ Len(orders) = 1)
        /\ (kind = "bracket" => Len(orders) = 3 /\ orders \in plan.bracket)
        /\ (kind = "oca" => Len(orders) = 2)
  BY BeginIsTyped
<1>2. CallersTyped
  BY DEF TypeOK, CallersTyped
<1>3. /\ job[c] = "idle" /\ job' = [job EXCEPT ![c] = kind] /\ legs' = [legs EXCEPT ![c] = orders]
      /\ ids' = ids /\ written' = written
  BY <1>1 DEF Begin
<1>4. CallersTyped'
  BY <1>2, <1>3 DEF CallersTyped
<1>5. TypeOK'
  BY <1>1, <1>4 DEF Begin, TypeOK, CallersTyped, chain, broker
<1>6. /\ job'[c] = kind /\ legs'[c] = orders /\ ids'[c] = ids[c] /\ written'[c] = written[c]
      /\ OthersKept(c)
  BY <1>2, <1>3 DEF CallersTyped, OthersKept
<1>7. JobOf(c)
  BY DEF Jobs
<1>8. Len(ids[c]) = 0 /\ written[c] = 0
  <2>1. Len(ids[c]) = 0 /\ written[c] <= Len(ids[c])
    BY <1>3, <1>7 DEF JobOf
  <2>2. written[c] \in 0..3
    BY <1>2 DEF CallersTyped
  <2> QED
    BY <2>1, <2>2
<1>9. JobOf(c)'
  <2>1. kind \in {"submit", "bracket", "oca"}
    BY DEF Kinds
  <2>2. Len(orders) \in Nat
    OBVIOUS
  <2>3. job[c]' = kind /\ legs[c]' = orders /\ Len(ids[c]') = 0 /\ written[c]' = 0
    BY <1>6, <1>8
  <2>4. /\ \A k \in 1..Len(ids[c]') : ids[c]'[k] \in OrderIds'
        /\ written[c]' <= Len(ids[c]') /\ written[c]' <= Len(legs[c]')
        /\ (Len(legs[c]') # 0 => written[c]' < Len(legs[c]'))
    BY <2>2, <2>3
  <2> QED
    BY <1>1, <2>1, <2>3, <2>4 DEF JobOf, Kinds
<1> QED
  BY <1>5, <1>6, <1>9, JobsStep

LEMMA TakeIdStep ==
  ASSUME TypeOK, Jobs, NEW c \in Callers, TakeId(c)
  PROVE  TypeOK' /\ Jobs'
<1>1. CallersTyped /\ nextId \in 1..MaxOrderId + 1 /\ MaxOrderId \in Nat
  BY OrdersAssumption DEF TypeOK, CallersTyped
<1>2. /\ job[c] \in Kinds /\ NeedsId(c) /\ nextId <= MaxOrderId
      /\ ids' = [ids EXCEPT ![c] = Append(@, nextId)] /\ nextId' = nextId + 1
      /\ job' = [job EXCEPT ![c] = IF legs[c] = <<>> THEN "failed" ELSE @]
      /\ legs' = legs /\ written' = written
  BY DEF TakeId, IsSubmitting
<1>3. /\ ids[c] \in Seq(1..MaxOrderId + 1) /\ legs[c] \in Seq(Skeletons)
      /\ written[c] \in 0..3 /\ Len(ids[c]) \in Nat /\ Len(legs[c]) \in Nat
  BY <1>1 DEF CallersTyped
<1>4. /\ Append(ids[c], nextId) \in Seq(1..MaxOrderId + 1)
      /\ Len(Append(ids[c], nextId)) = Len(ids[c]) + 1
      /\ \A k \in 1..Len(ids[c]) : Append(ids[c], nextId)[k] = ids[c][k]
      /\ Append(ids[c], nextId)[Len(ids[c]) + 1] = nextId
  BY <1>1, <1>3, AppendProperties
<1>5. CallersTyped'
  BY <1>1, <1>2, <1>4 DEF CallersTyped
<1>6. nextId' \in 1..MaxOrderId + 1
  BY <1>1, <1>2
<1>7. TypeOK'
  BY <1>5, <1>6 DEF TypeOK, CallersTyped, TakeId, chain, broker
<1>8. OthersKept(c)
  BY <1>1, <1>2 DEF CallersTyped, OthersKept
<1>9. JobOf(c) /\ (legs[c] = <<>> <=> Len(legs[c]) = 0)
  BY <1>3 DEF Jobs
<1>10. /\ job[c]' = IF Len(legs[c]) = 0 THEN "failed" ELSE job[c]
       /\ ids[c]' = Append(ids[c], nextId) /\ legs[c]' = legs[c] /\ written[c]' = written[c]
  BY <1>1, <1>2, <1>9 DEF CallersTyped
<1>11. Len(ids[c]') = Len(ids[c]) + 1
  BY <1>4, <1>10
<1>12. \A k \in 1..Len(ids[c]') : ids[c]'[k] \in OrderIds
  <2>1. \A k \in 1..Len(ids[c]) : ids[c][k] \in OrderIds
    BY <1>2, <1>9 DEF JobOf, Kinds
  <2>2. nextId \in OrderIds
    BY <1>1, <1>2 DEF OrderIds
  <2>3. \A k \in 1..Len(ids[c]) + 1 : k \in 1..Len(ids[c]) \/ k = Len(ids[c]) + 1
    BY <1>3
  <2> QED
    BY <1>4, <1>10, <1>11, <2>1, <2>2, <2>3
<1>13. JobOf(c)'
  <2>1. /\ written[c]' <= Len(ids[c]') /\ written[c]' <= Len(legs[c]')
        /\ (Len(legs[c]') = 3 => written[c]' = 0 \/ Len(ids[c]') >= 3)
    BY <1>3, <1>9, <1>10, <1>11 DEF JobOf
  <2>2. Len(legs[c]) = 0 => job[c]' = "failed"
    BY <1>10
  <2> QED
    BY <1>2, <1>9, <1>10, <1>12, <2>1, <2>2 DEF JobOf, Kinds, OrderIds
<1> QED
  BY <1>7, <1>8, <1>13, JobsStep

\* What the broker does with an order that it gets.
LEMMA ReceivesIsTyped ==
  ASSUME TypeOK, Jobs, NEW c \in Callers, CanWrite(c), Receives(NextOrder(c))
  PROVE  /\ held' \in [OrderIds -> [by : Callers \cup {None}, leg : 0..3, parent : 0..MaxOrderId]]
         /\ working' \subseteq OrderIds /\ topId' \in 0..MaxOrderId
<1> DEFINE o == NextOrder(c)
           H == [by : Callers \cup {None}, leg : 0..3, parent : 0..MaxOrderId]
<1>1. o.id \in OrderIds /\ o.by = c /\ o.leg \in 1..3 /\ o.parent \in 0..MaxOrderId
  BY NextOrderIsTyped
<1>2. /\ held \in [OrderIds -> H] /\ working \subseteq OrderIds /\ topId \in 0..MaxOrderId
      /\ MaxOrderId \in Nat
  BY OrdersAssumption DEF TypeOK
<1> DEFINE h == [by |-> o.by, leg |-> IF o.bracket THEN o.leg ELSE 0, parent |-> o.parent]
           family == {i \in OrderIds : held'[i].parent = o.parent /\ o.parent # 0}
<1>3. h \in H
  BY <1>1
<1> HIDE DEF o
<1>4. topId' = IF o.id > topId THEN o.id ELSE topId
  BY DEF Receives, o
<1>5. \/ held' = held /\ working' = working
      \/ /\ held' = [held EXCEPT ![o.id] = h]
         /\ working' = IF o.transmit THEN working \cup {o.id} \cup family \cup ({o.parent} \ {0})
                                     ELSE working
  BY DEF Receives, o
<1>6. topId' \in 0..MaxOrderId
  BY <1>1, <1>2, <1>4 DEF OrderIds
<1>7. held' \in [OrderIds -> H]
  <2> HIDE DEF h, H, family
  <2> QED
    BY <1>1, <1>2, <1>3, <1>5
<1>8. working' \subseteq OrderIds
  <2>1. {o.parent} \ {0} \subseteq OrderIds
    BY <1>1, <1>2 DEF OrderIds
  <2>2. family \subseteq OrderIds
    OBVIOUS
  <2> HIDE DEF h, H, family
  <2> QED
    BY <1>1, <1>2, <1>5, <2>1, <2>2
<1> QED
  BY <1>6, <1>7, <1>8

\* Write and WriteIsLost.
Writes(c) ==
  /\ CanWrite(c) /\ Wrote(c, NextOrder(c))
  /\ \/ Receives(NextOrder(c)) /\ lost' = lost
     \/ UNCHANGED broker /\ lost' = lost + 1 /\ lost < MaxLost

LEMMA WritesStep ==
  ASSUME TypeOK, Jobs, NEW c \in Callers, Writes(c)
  PROVE  TypeOK' /\ Jobs'
<1> DEFINE o == NextOrder(c)
<1>1. CallersTyped /\ lost \in 0..MaxLost /\ MaxLost \in Nat /\ CanWrite(c)
  BY OrdersAssumption DEF TypeOK, CallersTyped, Writes
<1>2. /\ job[c] \in Kinds /\ written[c] + 1 \in 1..3
      /\ written[c] + 1 <= Len(ids[c]) /\ written[c] + 1 <= Len(legs[c])
      /\ o.id \in OrderIds /\ o.leg = written[c] + 1 /\ (Len(legs[c]) = 3 => Len(ids[c]) >= 3)
  BY <1>1, NextOrderIsTyped
<1> HIDE DEF o
<1>3. /\ written' = [written EXCEPT ![c] = @ + 1]
      /\ job' = [job EXCEPT ![c] = IF o.leg = Len(legs[c]) THEN "done" ELSE @]
      /\ legs' = legs /\ ids' = ids
  BY DEF Writes, Wrote, o
<1>3a. /\ sent' = sent \cup {[id |-> o.id, by |-> c, leg |-> o.leg]}
       /\ UNCHANGED <<draft, calls, plan, nextId, overtaken>>
  BY DEF Writes, Wrote, chain, o
<1>4. CallersTyped'
  BY <1>1, <1>2, <1>3 DEF CallersTyped
<1>5. sent' \subseteq [id : OrderIds, by : Callers, leg : 1..3]
  BY <1>2, <1>3a DEF TypeOK
<1>6. lost' \in 0..MaxLost
  BY <1>1 DEF Writes
<1>7. /\ held' \in [OrderIds -> [by : Callers \cup {None}, leg : 0..3, parent : 0..MaxOrderId]]
      /\ working' \subseteq OrderIds /\ topId' \in 0..MaxOrderId
  <2>1. CASE Receives(NextOrder(c))
    BY <1>1, <2>1, ReceivesIsTyped
  <2>2. CASE UNCHANGED broker
    BY <2>2 DEF TypeOK, broker
  <2> QED
    BY <2>1, <2>2 DEF Writes
<1>8. TypeOK'
  BY <1>3a, <1>4, <1>5, <1>6, <1>7 DEF TypeOK, CallersTyped
<1>9. OthersKept(c)
  BY <1>1, <1>3 DEF CallersTyped, OthersKept
<1>10. /\ job[c]' = IF written[c] + 1 = Len(legs[c]) THEN "done" ELSE job[c]
       /\ written[c]' = written[c] + 1 /\ legs[c]' = legs[c] /\ ids[c]' = ids[c]
  BY <1>1, <1>2, <1>3 DEF CallersTyped
<1>11. JobOf(c) /\ Len(ids[c]) \in Nat /\ Len(legs[c]) \in Nat /\ written[c] \in 0..3
  BY <1>1 DEF Jobs, CallersTyped
<1>12. JobOf(c)'
  BY <1>2, <1>10, <1>11 DEF JobOf, Kinds, OrderIds
<1> QED
  BY <1>8, <1>9, <1>12, JobsStep

LEMMA WriteFailsStep ==
  ASSUME TypeOK, Jobs, NEW c \in Callers, WriteFails(c)
  PROVE  TypeOK' /\ Jobs'
<1>1. /\ CallersTyped /\ JobOf(c) /\ job[c] \in Kinds
      /\ job' = [job EXCEPT ![c] = "failed"] /\ UNCHANGED <<legs, ids, written>>
  BY DEF TypeOK, CallersTyped, Jobs, WriteFails, CanWrite, IsSubmitting
<1>2. CallersTyped'
  BY <1>1 DEF CallersTyped
<1>3. TypeOK'
  BY <1>2 DEF TypeOK, CallersTyped, WriteFails, chain, broker
<1>4. OthersKept(c) /\ JobOf(c)'
  BY <1>1 DEF CallersTyped, OthersKept, JobOf, Kinds, OrderIds
<1> QED
  BY <1>3, <1>4, JobsStep

LEMMA AskStep ==
  ASSUME TypeOK, Jobs, NEW c \in Callers, AskNextId(c)
  PROVE  TypeOK' /\ Jobs'
<1>1. /\ CallersTyped /\ JobOf(c) /\ job[c] = "idle"
      /\ job' = [job EXCEPT ![c] = "asking"] /\ UNCHANGED <<legs, ids, written>>
  BY DEF TypeOK, CallersTyped, Jobs, AskNextId
<1>2. CallersTyped'
  BY <1>1 DEF CallersTyped
<1>3. TypeOK'
  BY <1>2 DEF TypeOK, CallersTyped, AskNextId, chain, broker
<1>4. OthersKept(c) /\ JobOf(c)'
  BY <1>1 DEF CallersTyped, OthersKept, JobOf, Kinds, OrderIds
<1> QED
  BY <1>3, <1>4, JobsStep

LEMMA AnswerStep ==
  ASSUME TypeOK, Jobs, NEW c \in Callers, BrokerAnswers(c)
  PROVE  TypeOK' /\ Jobs'
<1>1. /\ CallersTyped /\ JobOf(c) /\ job[c] = "asking" /\ topId \in 0..MaxOrderId
      /\ job' = [job EXCEPT ![c] = "answered"] /\ ids' = [ids EXCEPT ![c] = <<topId + 1>>]
      /\ UNCHANGED <<legs, written>> /\ MaxOrderId \in Nat
  BY OrdersAssumption DEF TypeOK, CallersTyped, Jobs, BrokerAnswers
<1>2. <<topId + 1>> \in Seq(1..MaxOrderId + 1) /\ Len(<<topId + 1>>) = 1
  BY <1>1
<1>3. CallersTyped'
  BY <1>1, <1>2 DEF CallersTyped
<1>4. TypeOK'
  BY <1>3 DEF TypeOK, CallersTyped, BrokerAnswers, chain, broker
<1>5. OthersKept(c)
  BY <1>1 DEF CallersTyped, OthersKept
<1>6. /\ job[c]' = "answered" /\ ids[c]' = <<topId + 1>> /\ legs[c]' = legs[c]
      /\ written[c]' = written[c]
  BY <1>1 DEF CallersTyped
<1>7. Len(ids[c]) = 0 /\ Len(legs[c]) = 0 /\ written[c] = 0
  <2>1. Len(ids[c]) = 0 /\ Len(legs[c]) = 0 /\ written[c] <= Len(ids[c]) /\ written[c] \in 0..3
    BY <1>1 DEF JobOf, CallersTyped
  <2> QED
    BY <2>1
<1>8. JobOf(c)'
  BY <1>2, <1>6, <1>7 DEF JobOf, Kinds
<1> QED
  BY <1>4, <1>5, <1>8, JobsStep

LEMMA SetStep ==
  ASSUME TypeOK, Jobs, NEW c \in Callers, SetNextId(c)
  PROVE  TypeOK' /\ Jobs'
<1>1. /\ CallersTyped /\ JobOf(c) /\ job[c] = "answered" /\ nextId \in 1..MaxOrderId + 1
      /\ job' = [job EXCEPT ![c] = "done"] /\ ids' = [ids EXCEPT ![c] = <<>>]
      /\ nextId' = ids[c][1] /\ overtaken' = overtaken \cup (ids[c][1]..nextId - 1)
      /\ UNCHANGED <<legs, written>> /\ MaxOrderId \in Nat /\ overtaken \subseteq OrderIds
  BY OrdersAssumption DEF TypeOK, CallersTyped, Jobs, SetNextId
<1>2. ids[c][1] \in 1..MaxOrderId + 1
  <2>1. ids[c] \in Seq(1..MaxOrderId + 1) /\ Len(ids[c]) = 1
    BY <1>1 DEF CallersTyped, JobOf
  <2>2. 1 \in 1..Len(ids[c])
    BY <2>1
  <2> QED
    BY <2>1, <2>2, ElementOfSeq
<1>3. nextId' \in 1..MaxOrderId + 1 /\ overtaken' \subseteq OrderIds
  <2>1. \A v \in 1..MaxOrderId + 1 : v..nextId - 1 \subseteq 1..MaxOrderId
    BY <1>1
  <2> QED
    BY <1>1, <1>2, <2>1 DEF OrderIds
<1>4. CallersTyped'
  BY <1>1 DEF CallersTyped
<1>5. TypeOK'
  BY <1>3, <1>4 DEF TypeOK, CallersTyped, SetNextId, chain, broker
<1>6. OthersKept(c)
  BY <1>1 DEF CallersTyped, OthersKept
<1>7. /\ job[c]' = "done" /\ ids[c]' = <<>> /\ legs[c]' = legs[c] /\ written[c]' = written[c]
      /\ Len(ids[c]') = 0
  BY <1>1 DEF CallersTyped
<1>8. Len(legs[c]) = 0 /\ written[c] = 0
  <2>1. Len(legs[c]) = 0 /\ written[c] <= Len(legs[c]) /\ written[c] \in 0..3
    BY <1>1 DEF JobOf, CallersTyped
  <2> QED
    BY <2>1
<1>9. JobOf(c)'
  BY <1>7, <1>8 DEF JobOf, Kinds
<1> QED
  BY <1>5, <1>6, <1>9, JobsStep

\* What a step of the system is, for the invariants that follow.
LEMMA Steps ==
  ASSUME [Next]_vars
  PROVE  \/ SetSide \/ SetType \/ SetTime \/ SetFlag \/ FinishChain
         \/ \E c \in Callers :
              \/ Submit(c) \/ Analyze(c) \/ SubmitAll(c) \/ SubmitOca(c)
              \/ TakeId(c) \/ Writes(c) \/ WriteFails(c)
              \/ AskNextId(c) \/ BrokerAnswers(c) \/ SetNextId(c)
         \/ UNCHANGED vars
<1>1. ASSUME NEW c \in Callers, Write(c) \/ WriteIsLost(c)
      PROVE  Writes(c)
  BY <1>1 DEF Write, WriteIsLost, Writes
<1> QED
  BY <1>1 DEF Next, Step

LEMMA TypesStep ==
  ASSUME TypeOK, Jobs, [Next]_vars
  PROVE  TypeOK' /\ Jobs'
<1>1. CASE SetSide \/ SetType \/ SetTime \/ SetFlag \/ FinishChain
  <2>1. /\ draft' \in Builders(Numbers \cup {None}) /\ calls' \in -1..MaxCalls
        /\ plan' \in [order : SUBSET Skeletons, bracket : SUBSET [1..3 -> Skeletons]]
        /\ NotChain
    BY <1>1, ChainIsTyped
  <2>2. TypeOK'
    BY <2>1 DEF TypeOK, NotChain, broker
  <2>3. Jobs'
    BY <2>1 DEF Jobs, JobOf, NotChain
  <2> QED
    BY <2>2, <2>3
<1>2. CASE UNCHANGED vars
  BY <1>2 DEF vars, chain, broker, TypeOK, Jobs, JobOf
<1> QED
  BY <1>1, <1>2, Steps, BeginStep, TakeIdStep, WritesStep, WriteFailsStep, AskStep, AnswerStep,
     SetStep

\* Every variable keeps its type, in every run, of any number of callers.
THEOREM OrderTypesHold == Spec => []TypeOK
<1>1. Init => TypeOK /\ Jobs
  BY TypesInit
<1>2. TypeOK /\ Jobs /\ [Next]_vars => (TypeOK /\ Jobs)'
  BY TypesStep
<1> QED
  BY <1>1, <1>2, PTL DEF Spec

\* What build accepts can be traded, whatever the chain was.
THEOREM BuildsSoundly == Spec => []BuiltOrdersAreSound
<1>1. TypeOK => BuiltOrdersAreSound
  <2>1. TypeOK => IsBuilder(draft)
    BY OrdersAssumption DEF TypeOK, IsBuilder, Builders
  <2> QED
    BY <2>1, BuildIsSound DEF BuiltOrdersAreSound
<1> QED
  BY <1>1, OrderTypesHold, PTL

\* A bracket's children close what its entry opens, whatever the chain was.
THEOREM BracketsAreHedged == Spec => []BracketsHedge
<1>1. TypeOK => BracketsHedge
  <2>1. TypeOK => IsBuilder(draft)
    BY OrdersAssumption DEF TypeOK, IsBuilder, Builders
  <2> QED
    BY <2>1, BracketIsSound DEF BracketsHedge
<1> QED
  BY <1>1, OrderTypesHold, PTL

-------------------------------------------------------------------------------
(* Order ids. *)

\* What was taken is a number.
LEMMA TakenAreIds ==
  ASSUME TypeOK, NEW d \in Callers, NEW k \in Taken(d)
  PROVE  ids[d][k] \in Int
<1>1. k \in 1..Len(ids[d]) /\ ids[d] \in Seq(1..MaxOrderId + 1) /\ MaxOrderId \in Nat
  BY OrdersAssumption DEF Taken, TypeOK
<1>2. ids[d][k] \in 1..MaxOrderId + 1
  BY <1>1, ElementOfSeq
<1> QED
  BY <1>1, <1>2

\* Enough for the counter to be past every id still, and the ids apart.
LEMMA FreshIsKept ==
  ASSUME TypeOK, Counted, Apart, overtaken \subseteq overtaken',
         \A d \in Callers : \A k \in Taken(d)' : k \in Taken(d) /\ ids'[d][k] = ids[d][k],
         \A i \in Int : i < nextId => i < nextId' \/ i \in overtaken'
  PROVE  Counted' /\ Apart'
<1>1. Counted'
  <2>1. \A d \in Callers : \A k \in Taken(d) : ids[d][k] \in Int
    BY TakenAreIds
  <2> QED
    BY <2>1 DEF Counted
<1>2. Apart'
  BY DEF Apart
<1> QED
  BY <1>1, <1>2

\* Enough for what was sent to be what is counted as written.
LEMMA WrittenIsKept ==
  ASSUME TypeOK, Written, sent' = sent,
         \A d \in Callers : \A k \in 1..3 :
           k <= written[d] => k <= written'[d] /\ ids'[d][k] = ids[d][k]
  PROVE  Written'
<1>1. ASSUME NEW o \in sent
      PROVE  o.leg <= written'[o.by] /\ o.id = ids'[o.by][o.leg]
  <2>1. o.by \in Callers /\ o.leg \in 1..3
    BY DEF TypeOK
  <2> QED
    BY <2>1 DEF Written
<1> QED
  BY <1>1 DEF Written

\* A caller that has taken no id has written nothing.
LEMMA NothingTaken ==
  ASSUME TypeOK, Jobs, NEW c \in Callers, job[c] \in {"idle", "asking", "answered"}
  PROVE  written[c] = 0 /\ Len(legs[c]) = 0 /\ Taken(c) = {}
<1>1. JobOf(c) /\ written[c] \in 0..3
  BY DEF Jobs, TypeOK
<1>2. written[c] = 0 /\ Len(legs[c]) = 0
  <2>1. Len(legs[c]) = 0 /\ written[c] <= Len(legs[c])
    BY <1>1 DEF JobOf
  <2> QED
    BY <1>1, <2>1
<1>3. Taken(c) = {}
  <2>1. CASE job[c] = "answered"
    BY <2>1 DEF Taken
  <2>2. CASE job[c] \in {"idle", "asking"}
    <3>1. Len(ids[c]) = 0
      BY <1>1, <2>2 DEF JobOf
    <3> QED
      BY <2>2, <3>1 DEF Taken
  <2> QED
    BY <2>1, <2>2
<1> QED
  BY <1>2, <1>3

LEMMA FreshStep ==
  ASSUME TypeOK, Jobs, Counted, Apart, Written, [Next]_vars
  PROVE  Counted' /\ Apart' /\ Written'
<1>1. ASSUME UNCHANGED <<nextId, ids, written, sent, overtaken>>,
             \A d \in Callers : job'[d] = "answered" <=> job[d] = "answered"
      PROVE  Counted' /\ Apart' /\ Written'
  <2>1. \A d \in Callers : Taken(d)' = Taken(d)
    BY <1>1 DEF Taken
  <2> QED
    BY <1>1, <2>1 DEF Counted, Apart, Written
<1>2. CASE SetSide \/ SetType \/ SetTime \/ SetFlag \/ FinishChain
  BY <1>1, <1>2, ChainIsTyped DEF NotChain
<1>3. CASE UNCHANGED vars
  BY <1>1, <1>3 DEF vars
<1>4. ASSUME NEW c \in Callers, Submit(c) \/ Analyze(c) \/ SubmitAll(c) \/ SubmitOca(c)
      PROVE  Counted' /\ Apart' /\ Written'
  <2>1. PICK kind \in Kinds, orders \in Seq(Skeletons) : Begin(c, kind, orders)
    BY <1>4, BeginIsTyped
  <2> QED
    BY <1>1, <2>1 DEF Begin, Kinds, TypeOK
<1>5. ASSUME NEW c \in Callers, WriteFails(c) \/ AskNextId(c)
      PROVE  Counted' /\ Apart' /\ Written'
  BY <1>1, <1>5 DEF WriteFails, AskNextId, CanWrite, IsSubmitting, Kinds, TypeOK
<1>6. ASSUME NEW c \in Callers, Writes(c)
      PROVE  Counted' /\ Apart' /\ Written'
  <2> DEFINE o == NextOrder(c)
  <2>1. /\ written' = [written EXCEPT ![c] = @ + 1] /\ UNCHANGED <<nextId, ids, overtaken>>
        /\ job' = [job EXCEPT ![c] = IF o.leg = Len(legs[c]) THEN "done" ELSE @]
        /\ sent' = sent \cup {[id |-> o.id, by |-> c, leg |-> o.leg]}
    BY <1>6 DEF Writes, Wrote
  <2>2. /\ job[c] \in Kinds /\ o.leg = written[c] + 1 /\ o.id = ids[c][written[c] + 1]
        /\ written[c] + 1 \in 1..3
    BY <1>6, NextOrderIsTyped DEF Writes
  <2> HIDE DEF o
  <2>3. /\ job \in [Callers -> Kinds \cup {"idle", "failed", "done", "asking", "answered"}]
        /\ written \in [Callers -> 0..3] /\ sent \subseteq [id : OrderIds, by : Callers, leg : 1..3]
    BY DEF TypeOK
  <2>4. \A d \in Callers : Taken(d)' = Taken(d)
    BY <2>1, <2>2, <2>3 DEF Taken, Kinds
  <2>5. Counted' /\ Apart'
    BY <2>1, <2>4 DEF Counted, Apart
  <2>6. ASSUME NEW q \in sent'
        PROVE  q.leg <= written'[q.by] /\ q.id = ids'[q.by][q.leg]
    <3>1. CASE q \in sent
      <4>1. q.by \in Callers /\ q.leg \in 1..3 /\ q.leg <= written[q.by] /\ q.id = ids[q.by][q.leg]
        BY <2>3, <3>1 DEF Written
      <4> QED
        BY <2>1, <2>3, <4>1
    <3>2. CASE q = [id |-> o.id, by |-> c, leg |-> o.leg]
      BY <2>1, <2>2, <2>3, <3>2
    <3> QED
      BY <2>1, <3>1, <3>2
  <2> QED
    BY <2>5, <2>6 DEF Written
<1>7. ASSUME NEW c \in Callers, TakeId(c)
      PROVE  Counted' /\ Apart' /\ Written'
  <2>1. /\ job[c] \in Kinds /\ nextId' = nextId + 1
        /\ ids' = [ids EXCEPT ![c] = Append(@, nextId)]
        /\ job' = [job EXCEPT ![c] = IF legs[c] = <<>> THEN "failed" ELSE @]
        /\ UNCHANGED <<written, sent, overtaken>>
    BY <1>7 DEF TakeId, IsSubmitting
  <2>2. /\ job \in [Callers -> Kinds \cup {"idle", "failed", "done", "asking", "answered"}]
        /\ ids \in [Callers -> Seq(1..MaxOrderId + 1)] /\ nextId \in 1..MaxOrderId + 1
        /\ written \in [Callers -> 0..3] /\ MaxOrderId \in Nat
    BY OrdersAssumption DEF TypeOK
  <2>3. /\ Len(ids[c]) \in Nat /\ ids'[c] = Append(ids[c], nextId)
        /\ Len(ids'[c]) = Len(ids[c]) + 1
        /\ \A k \in 1..Len(ids[c]) : ids'[c][k] = ids[c][k]
        /\ ids'[c][Len(ids[c]) + 1] = nextId
    BY <2>1, <2>2, AppendProperties
  <2>4. \A d \in Callers \ {c} : Taken(d)' = Taken(d) /\ ids'[d] = ids[d]
    BY <2>1, <2>2 DEF Taken
  <2>5. /\ Taken(c) = 1..Len(ids[c]) /\ Taken(c)' = 1..Len(ids[c]) + 1
    BY <2>1, <2>2, <2>3 DEF Taken, Kinds
  <2>6. \A d \in Callers : \A k \in Taken(d)' :
          \/ d = c /\ ids'[d][k] = nextId /\ k = Len(ids[c]) + 1
          \/ k \in Taken(d) /\ ids'[d][k] = ids[d][k]
    BY <2>3, <2>4, <2>5
  <2>7. \A d \in Callers : \A k \in Taken(d) : ids[d][k] \in Int
    BY TakenAreIds
  <2>8. nextId' = nextId + 1 /\ overtaken' = overtaken /\ nextId \in Int
    BY <2>1, <2>2
  <2>9. Counted'
    <3>1. ASSUME NEW d \in Callers, NEW k \in Taken(d)'
          PROVE  ids'[d][k] < nextId' \/ ids'[d][k] \in overtaken'
      <4>1. CASE ids'[d][k] = nextId
        BY <2>8, <4>1
      <4>2. CASE k \in Taken(d) /\ ids'[d][k] = ids[d][k]
        <5>1. ids[d][k] \in Int /\ (ids[d][k] < nextId \/ ids[d][k] \in overtaken)
          BY <2>7, <4>2 DEF Counted
        <5> QED
          BY <2>8, <4>2, <5>1
      <4> QED
        BY <2>6, <4>1, <4>2
    <3> QED
      BY <3>1 DEF Counted
  <2>10. Apart'
    <3>1. ASSUME NEW d \in Callers, NEW e \in Callers, NEW k \in Taken(d)', NEW l \in Taken(e)',
                 ids'[d][k] = ids'[e][l]
          PROVE  (d = e /\ k = l) \/ ids'[d][k] \in overtaken'
      <4>1. \A f \in Callers : \A m \in Taken(f) :
              ids[f][m] = nextId => ids[f][m] \in overtaken
        BY <2>7, <2>8 DEF Counted
      <4>2. CASE k \in Taken(d) /\ ids'[d][k] = ids[d][k] /\ l \in Taken(e) /\ ids'[e][l] = ids[e][l]
        BY <2>8, <3>1, <4>2 DEF Apart
      <4>3. CASE k \in Taken(d) /\ ids'[d][k] = ids[d][k] /\ ids'[e][l] = nextId
        BY <2>8, <3>1, <4>1, <4>3
      <4>4. CASE ids'[d][k] = nextId /\ l \in Taken(e) /\ ids'[e][l] = ids[e][l]
        BY <2>8, <3>1, <4>1, <4>4
      <4> QED
        BY <2>6, <4>2, <4>3, <4>4
    <3> QED
      BY <3>1 DEF Apart
  <2>11. Written'
    <3>1. \A d \in Callers : \A k \in 1..3 : k <= written[d] => ids'[d][k] = ids[d][k]
      <4>1. written[c] <= Len(ids[c]) /\ written[c] \in 0..3
        BY <2>2 DEF Jobs, JobOf
      <4> QED
        BY <2>3, <2>4, <4>1
    <3> QED
      BY <2>1, <3>1, WrittenIsKept
  <2> QED
    BY <2>9, <2>10, <2>11
<1>8. ASSUME NEW c \in Callers, BrokerAnswers(c)
      PROVE  Counted' /\ Apart' /\ Written'
  <2>1. /\ job[c] = "asking" /\ job' = [job EXCEPT ![c] = "answered"]
        /\ ids' = [ids EXCEPT ![c] = <<topId + 1>>]
        /\ UNCHANGED <<nextId, written, sent, overtaken>>
    BY <1>8 DEF BrokerAnswers
  <2>2. /\ job \in [Callers -> Kinds \cup {"idle", "failed", "done", "asking", "answered"}]
        /\ ids \in [Callers -> Seq(1..MaxOrderId + 1)]
    BY DEF TypeOK
  <2>3. \A d \in Callers \ {c} : Taken(d)' = Taken(d) /\ ids'[d] = ids[d]
    BY <2>1, <2>2 DEF Taken
  <2>4. Taken(c)' = {} /\ written[c] = 0
    BY <2>1, <2>2, NothingTaken DEF Taken
  <2> QED
    BY <2>1, <2>3, <2>4, FreshIsKept, WrittenIsKept
<1>9. ASSUME NEW c \in Callers, SetNextId(c)
      PROVE  Counted' /\ Apart' /\ Written'
  <2>1. /\ job[c] = "answered" /\ job' = [job EXCEPT ![c] = "done"]
        /\ ids' = [ids EXCEPT ![c] = <<>>] /\ nextId' = ids[c][1]
        /\ overtaken' = overtaken \cup (ids[c][1]..nextId - 1)
        /\ UNCHANGED <<written, sent>>
    BY <1>9 DEF SetNextId
  <2>2. /\ job \in [Callers -> Kinds \cup {"idle", "failed", "done", "asking", "answered"}]
        /\ ids \in [Callers -> Seq(1..MaxOrderId + 1)] /\ nextId \in 1..MaxOrderId + 1
        /\ nextId' \in 1..MaxOrderId + 1 /\ MaxOrderId \in Nat
    BY <1>9, SetStep, OrdersAssumption DEF TypeOK
  <2>3. \A d \in Callers \ {c} : Taken(d)' = Taken(d) /\ ids'[d] = ids[d]
    BY <2>1, <2>2 DEF Taken
  <2>4. Taken(c)' = {} /\ written[c] = 0
    BY <2>1, <2>2, NothingTaken DEF Taken
  <2>5. \A i \in Int : i < nextId => i < nextId' \/ i \in overtaken'
    BY <2>1, <2>2
  <2> QED
    BY <2>1, <2>3, <2>4, <2>5, FreshIsKept, WrittenIsKept
<1> QED
  BY <1>2, <1>3, <1>4, <1>5, <1>6, <1>7, <1>8, <1>9, Steps

LEMMA FreshInit == Init => Counted /\ Apart /\ Written
  BY DEF Init, Counted, Apart, Written, Taken

\* Two orders go out under one id only when the counter was set back over it.
THEOREM IdsStayFresh == Spec => []IdsAreFresh
<1> DEFINE Inv == TypeOK /\ Jobs /\ Counted /\ Apart /\ Written
<1>1. Init => Inv
  BY TypesInit, FreshInit
<1>2. Inv /\ [Next]_vars => Inv'
  BY TypesStep, FreshStep
<1>3. Inv => IdsAreFresh
  <2> SUFFICES ASSUME Inv, NEW o \in sent, NEW p \in sent, o.id = p.id, o # p
               PROVE  o.id \in overtaken
    BY DEF IdsAreFresh
  <2>1. /\ o \in [id : OrderIds, by : Callers, leg : 1..3]
        /\ p \in [id : OrderIds, by : Callers, leg : 1..3]
    BY DEF TypeOK
  <2>2. o.by # p.by \/ o.leg # p.leg
    BY <2>1
  <2>3. ASSUME NEW q \in sent
        PROVE  q.by \in Callers /\ q.leg \in Taken(q.by) /\ q.id = ids[q.by][q.leg]
    <3>1. /\ q.by \in Callers /\ q.leg \in 1..3 /\ q.leg <= written[q.by]
          /\ q.id = ids[q.by][q.leg]
      BY DEF TypeOK, Written
    <3>2. /\ written[q.by] \in 0..3 /\ written[q.by] <= Len(ids[q.by]) /\ Len(ids[q.by]) \in Nat
      BY <3>1 DEF TypeOK, Jobs, JobOf
    <3>3. job[q.by] # "answered"
      BY <3>1, <3>2, NothingTaken
    <3> QED
      BY <3>1, <3>2, <3>3 DEF Taken
  <2> QED
    BY <2>2, <2>3 DEF Apart
<1> QED
  BY <1>1, <1>2, <1>3, PTL DEF Spec

-------------------------------------------------------------------------------
(* Brackets. *)

Protection == Brackets /\ Held /\ Worked /\ TakeProfits /\ EntryIsProtected

LEMMA ProtectionInit == Init => Protection
  BY DEF Init, Protection, Brackets, Held, Worked, TakeProfits, EntryIsProtected, NoOrder

\* A caller with three orders submits a bracket, or is through with one.
LEMMA OfThree ==
  ASSUME TypeOK, Jobs, NEW c \in Callers, Len(legs[c]) = 3
  PROVE  /\ job[c] \in {"bracket", "done", "failed"} /\ Taken(c) = 1..Len(ids[c])
         /\ Len(ids[c]) \in Nat /\ DOMAIN ids[c] = 1..Len(ids[c])
         /\ written[c] \in 0..3 /\ written[c] <= Len(ids[c])
         /\ (written[c] # 0 => Len(ids[c]) >= 3)
         /\ \A k \in 1..Len(ids[c]) : ids[c][k] \in OrderIds
<1>1. JobOf(c)
  BY DEF Jobs
<1>2. /\ job[c] \in Kinds \cup {"idle", "failed", "done", "asking", "answered"}
      /\ ids[c] \in Seq(1..MaxOrderId + 1) /\ written[c] \in 0..3
  BY DEF TypeOK
<1>3. job[c] \in {"bracket", "done", "failed"}
  BY <1>1, <1>2 DEF JobOf, Kinds
<1>4. \A k \in 1..Len(ids[c]) : ids[c][k] \in OrderIds
  BY <1>1, <1>3 DEF JobOf
<1>5. Len(ids[c]) \in Nat /\ DOMAIN ids[c] = 1..Len(ids[c])
  BY <1>2, LenProperties
<1> QED
  BY <1>1, <1>2, <1>3, <1>4, <1>5 DEF JobOf, Taken

\* A step that writes nothing.
LEMMA ProtectionIsKept ==
  ASSUME TypeOK, Jobs, TypeOK', Jobs', Protection,
         UNCHANGED <<held, working, written, lost>>, overtaken \subseteq overtaken',
         \A b \in plan'.bracket : IsBracket(b),
         \A d \in Callers :
           Len(legs[d]) = 3 =>
             /\ legs'[d] = legs[d] /\ Len(ids[d]) <= Len(ids'[d])
             /\ \A k \in 1..Len(ids[d]) : ids'[d][k] = ids[d][k]
             /\ job[d] = "done" => job'[d] = "done",
         \A d \in Callers :
           Len(legs'[d]) = 3 => Len(legs[d]) = 3 \/ (written[d] = 0 /\ IsBracket(legs'[d])),
         \A d \in Callers : \A k \in 1..3 : k <= written[d] => ids'[d][k] = ids[d][k]
  PROVE  Protection'
<1>1. Brackets'
  BY DEF Protection, Brackets
<1>2. ASSUME NEW d \in Callers, Len(legs[d]) = 3
      PROVE  Own(d)' => Own(d)
  <2>1. Len(ids[d]) \in Nat /\ DOMAIN ids[d] = 1..Len(ids[d])
    BY <1>2, OfThree
  <2>2. Len(legs'[d]) = 3
    BY <1>2
  <2>3. Len(ids'[d]) \in Nat /\ DOMAIN ids'[d] = 1..Len(ids'[d])
    <3>1. ids'[d] \in Seq(1..MaxOrderId + 1)
      BY DEF TypeOK
    <3> QED
      BY <3>1, LenProperties
  <2>4. \A k \in DOMAIN ids[d] : k \in DOMAIN ids'[d] /\ ids'[d][k] = ids[d][k]
    BY <1>2, <2>1, <2>3
  <2> QED
    BY <2>4 DEF Own
<1>3. Held'
  <2>1. ASSUME NEW i \in OrderIds, held[i].leg # 0
        PROVE  LET h == held[i]
               IN /\ h.by \in Callers /\ Len(legs'[h.by]) = 3
                  /\ h.leg <= written[h.by] /\ i = ids'[h.by][h.leg]
                  /\ h.parent = IF h.leg = 1 THEN 0 ELSE ids'[h.by][1]
    <3> DEFINE h == held[i]
    <3>1. /\ h.by \in Callers /\ Len(legs[h.by]) = 3
          /\ h.leg <= written[h.by] /\ i = ids[h.by][h.leg]
          /\ h.parent = IF h.leg = 1 THEN 0 ELSE ids[h.by][1]
      BY <2>1 DEF Protection, Held
    <3>2. h.leg \in 1..3 /\ written[h.by] \in 0..3 /\ 1 <= written[h.by]
      BY <2>1, <3>1 DEF TypeOK
    <3>3. ids'[h.by][h.leg] = ids[h.by][h.leg] /\ ids'[h.by][1] = ids[h.by][1]
      BY <3>1, <3>2
    <3> QED
      BY <3>1, <3>3
  <2>2. \A i \in OrderIds : held[i].leg = 0 => held[i].parent = 0
    BY DEF Protection, Held
  <2> QED
    BY <2>1, <2>2 DEF Held
<1>4. Worked'
  <2>1. ASSUME NEW i \in working
        PROVE  \E c \in Callers : \E k \in 1..3 : k <= written[c] /\ i = ids'[c][k]
    <3>1. PICK c \in Callers : \E k \in 1..3 : k <= written[c] /\ i = ids[c][k]
      BY DEF Protection, Worked
    <3> QED
      BY <3>1
  <2> QED
    BY <2>1 DEF Worked
<1>5. TakeProfits'
  <2> SUFFICES ASSUME lost = 0, NEW c \in Callers, Len(legs'[c]) = 3, written[c] >= 2, Own(c)',
                      held[ids'[c][1]] = [by |-> c, leg |-> 1, parent |-> 0]
               PROVE  held[ids'[c][2]] = [by |-> c, leg |-> 2, parent |-> ids'[c][1]]
    BY DEF TakeProfits
  <2>1. written[c] \in 0..3
    BY DEF TypeOK
  <2>2. Len(legs[c]) = 3
    BY <2>1
  <2>3. Own(c)
    BY <1>2, <2>2
  <2>4. ids'[c][1] = ids[c][1] /\ ids'[c][2] = ids[c][2]
    BY <2>1
  <2> QED
    BY <2>2, <2>3, <2>4 DEF Protection, TakeProfits
<1>6. EntryIsProtected'
  <2> SUFFICES ASSUME NEW i \in working, held[i].leg = 1, Own(held[i].by)'
               PROVE  /\ job'[held[i].by] = "done"
                      /\ \E j \in working : held[j] = [by |-> held[i].by, leg |-> 3, parent |-> i]
                      /\ lost = 0 =>
                           \E j \in working : held[j] = [by |-> held[i].by, leg |-> 2, parent |-> i]
    BY DEF EntryIsProtected, Own
  <2>1. i \in OrderIds
    BY DEF TypeOK
  <2>2. held[i].by \in Callers /\ Len(legs[held[i].by]) = 3
    BY <2>1 DEF Protection, Held
  <2>3. Own(held[i].by)
    BY <1>2, <2>2
  <2> QED
    BY <2>2, <2>3 DEF Protection, EntryIsProtected, Own
<1> QED
  BY <1>1, <1>3, <1>4, <1>5, <1>6 DEF Protection

\* An id that is its caller's own is not that of another order.
LEMMA OwnIsApart ==
  ASSUME TypeOK, Jobs, Apart, NEW c \in Callers, NEW d \in Callers,
         Len(legs[c]) = 3, Own(c), NEW k \in 1..Len(ids[c]), NEW l \in Taken(d),
         ids[c][k] = ids[d][l]
  PROVE  c = d /\ k = l
<1>1. Taken(c) = 1..Len(ids[c]) /\ DOMAIN ids[c] = 1..Len(ids[c])
  BY OfThree
<1>2. ids[c][k] \notin overtaken
  BY <1>1 DEF Own
<1> QED
  BY <1>1, <1>2 DEF Apart

\* A caller that has written has taken the ids of it.
LEMMA WrittenIsTaken ==
  ASSUME TypeOK, Jobs, NEW c \in Callers, NEW k \in 1..3, k <= written[c]
  PROVE  k \in Taken(c)
<1>1. JobOf(c) /\ written[c] \in 0..3 /\ ids[c] \in Seq(1..MaxOrderId + 1) /\ Len(ids[c]) \in Nat
  BY DEF Jobs, TypeOK
<1>2. job[c] # "answered"
  BY <1>1, NothingTaken
<1> QED
  BY <1>1, <1>2 DEF JobOf, Taken

LEMMA ProtectionOfWrites ==
  ASSUME TypeOK, Jobs, TypeOK', Jobs', Apart, Protection, NEW c \in Callers, Writes(c)
  PROVE  Protection'
<1> DEFINE o == NextOrder(c)
           n == written[c] + 1
           h == [by |-> c, leg |-> IF o.bracket THEN n ELSE 0, parent |-> o.parent]
<1>1. /\ job[c] \in Kinds /\ n \in 1..3 /\ n <= Len(ids[c]) /\ n <= Len(legs[c])
      /\ o.id = ids[c][n] /\ o.id \in OrderIds /\ o.by = c /\ o.leg = n
      /\ o.bracket \in BOOLEAN /\ (o.bracket <=> Len(legs[c]) = 3)
      /\ o.parent = IF o.bracket /\ written[c] > 0 THEN ids[c][1] ELSE 0
      /\ (o.bracket => Len(ids[c]) >= 3) /\ legs[c][n] \in Skeletons
      /\ o.what_if = legs[c][n].what_if
      /\ (o.transmit <=> legs[c][n].transmit \/ (o.bracket /\ written[c] = 2))
  BY NextOrderIsTyped DEF Writes
<1>2. /\ written' = [written EXCEPT ![c] = n] /\ ids' = ids /\ legs' = legs /\ overtaken' = overtaken
      /\ plan' = plan
      /\ job' = [job EXCEPT ![c] = IF n = Len(legs[c]) THEN "done" ELSE @]
  BY <1>1 DEF Writes, Wrote, chain
<1>3. /\ lost \in Nat /\ lost' \in {lost, lost + 1} /\ MaxOrderId \in Nat
      /\ written \in [Callers -> 0..3] /\ working \subseteq OrderIds
      /\ job \in [Callers -> Kinds \cup {"idle", "failed", "done", "asking", "answered"}]
      /\ held \in [OrderIds -> [by : Callers \cup {None}, leg : 0..3, parent : 0..MaxOrderId]]
  BY OrdersAssumption DEF TypeOK, Writes
<1> DEFINE refused == o.what_if \/ (o.parent # 0 /\ held[o.parent] = NoOrder)
           family == {i \in OrderIds : held'[i].parent = o.parent /\ o.parent # 0}
<1>4. \/ /\ held' = held /\ working' = working /\ (lost' = 0 => refused)
      \/ /\ held' = [held EXCEPT ![o.id] = h] /\ lost' = lost
         /\ working' = IF o.transmit THEN working \cup {o.id} \cup family \cup ({o.parent} \ {0})
                                     ELSE working
  <2>1. CASE Receives(NextOrder(c)) /\ lost' = lost
    BY <1>1, <2>1 DEF Receives
  <2>2. CASE UNCHANGED broker /\ lost' = lost + 1
    BY <1>3, <2>2 DEF broker
  <2> QED
    BY <2>1, <2>2 DEF Writes
<1> HIDE DEF o
<1>5. written'[c] = n /\ \A d \in Callers \ {c} : written'[d] = written[d]
  BY <1>2, <1>3
<1>6. \A d \in Callers : written'[d] \in 0..3 /\ written[d] \in 0..3 /\ written[d] <= written'[d]
  BY <1>1, <1>3, <1>5
<1>7. n \in Taken(c) /\ n \in 1..Len(ids[c])
  BY <1>1 DEF Taken, Kinds
<1>8. \A d \in Callers : (Len(legs'[d]) = 3 <=> Len(legs[d]) = 3) /\ (Own(d)' <=> Own(d))
  BY <1>2 DEF Own
<1>9. Brackets'
  BY <1>2 DEF Protection, Brackets
<1>10. \A i \in OrderIds : held'[i] = held[i] \/ (i = o.id /\ held'[i] = h)
  BY <1>1, <1>3, <1>4
<1>11. Held'
  <2>1. ASSUME NEW i \in OrderIds
        PROVE  IF held'[i].leg = 0 THEN held'[i].parent = 0
               ELSE /\ held'[i].by \in Callers /\ Len(legs[held'[i].by]) = 3
                    /\ held'[i].leg <= written'[held'[i].by] /\ i = ids[held'[i].by][held'[i].leg]
                    /\ held'[i].parent = IF held'[i].leg = 1 THEN 0 ELSE ids[held'[i].by][1]
    <3>1. CASE held'[i] = held[i]
      <4>1. CASE held[i].leg = 0
        BY <3>1, <4>1 DEF Protection, Held
      <4>2. CASE held[i].leg # 0
        <5>1. /\ held[i].by \in Callers /\ Len(legs[held[i].by]) = 3
              /\ held[i].leg <= written[held[i].by] /\ i = ids[held[i].by][held[i].leg]
              /\ held[i].parent = IF held[i].leg = 1 THEN 0 ELSE ids[held[i].by][1]
          BY <4>2 DEF Protection, Held
        <5>2. held[i].leg \in 0..3
          BY <1>3
        <5>3. held[i].leg <= written'[held[i].by]
          BY <1>6, <5>1, <5>2
        <5> QED
          BY <3>1, <4>2, <5>1, <5>3
      <4> QED
        BY <4>1, <4>2
    <3>2. CASE i = o.id /\ held'[i] = h
      <4>1. h.by = c /\ h.leg = (IF o.bracket THEN n ELSE 0) /\ h.parent = o.parent
        OBVIOUS
      <4>2. CASE o.bracket
        BY <1>1, <1>3, <1>5, <3>2, <4>1, <4>2
      <4>3. CASE ~ o.bracket
        BY <1>1, <3>2, <4>1, <4>3
      <4> QED
        BY <1>1, <4>2, <4>3
    <3> QED
      BY <1>10, <3>1, <3>2
  <2> QED
    BY <1>2, <2>1 DEF Held
<1>12. o.parent # 0 => o.bracket /\ written[c] > 0 /\ o.parent = ids[c][1]
  BY <1>1
<1>13. Worked'
  <2>1. ASSUME NEW i \in working'
        PROVE  \E d \in Callers : \E k \in 1..3 : k <= written'[d] /\ i = ids[d][k]
    <3>1. CASE i \in working
      <4>1. PICK d \in Callers, k \in 1..3 : k <= written[d] /\ i = ids[d][k]
        BY <3>1 DEF Protection, Worked
      <4>2. k <= written'[d]
        BY <1>6, <4>1
      <4> QED
        BY <4>1, <4>2
    <3>2. CASE i = o.id
      BY <1>1, <1>5, <3>2
    <3>3. CASE i = o.parent /\ i # 0
      <4>1. 1 \in 1..3 /\ 1 <= written'[c] /\ i = ids[c][1]
        BY <1>1, <1>5, <1>12, <3>3
      <4> QED
        BY <4>1
    <3>4. CASE i \in OrderIds /\ held'[i].parent # 0
      <4>1. /\ held'[i].leg # 0 /\ held'[i].by \in Callers /\ held'[i].leg <= written'[held'[i].by]
            /\ i = ids[held'[i].by][held'[i].leg]
        BY <1>2, <1>11, <3>4 DEF Held
      <4>2. held'[i].leg \in 1..3
        BY <3>4, <4>1 DEF TypeOK
      <4> QED
        BY <4>1, <4>2
    <3> QED
      BY <1>4, <3>1, <3>2, <3>3, <3>4
  <2> QED
    BY <1>2, <2>1 DEF Worked
<1>14. o.bracket => /\ (n = 1 => ~ o.transmit) /\ (n = 2 => ~ o.transmit)
                    /\ (n = 2 => ~ o.what_if) /\ (n = 3 => ~ o.what_if)
  <2>1. o.bracket => IsBracket(legs[c])
    BY <1>1 DEF Protection, Brackets
  <2>2. (n = 1 => written[c] # 2) /\ (n = 2 => written[c] # 2)
    BY <1>3
  <2> QED
    BY <1>1, <2>1, <2>2 DEF IsBracket
<1>15. ASSUME NEW d \in Callers, Len(legs[d]) = 3, Own(d), NEW k \in 1..Len(ids[d]), o.id = ids[d][k]
       PROVE  d = c /\ k = n
  <2>1. ids[d][k] = ids[c][n] /\ n \in Taken(c)
    BY <1>1, <1>7, <1>15
  <2> HIDE DEF n
  <2> QED
    BY <1>15, <2>1, OwnIsApart
<1>16. ASSUME NEW d \in Callers, Len(legs[d]) = 3, Own(d), written'[d] >= 2, lost' = 0,
              held'[ids[d][1]] = [by |-> d, leg |-> 1, parent |-> 0]
       PROVE  held'[ids[d][2]] = [by |-> d, leg |-> 2, parent |-> ids[d][1]]
  <2>1. lost = 0
    BY <1>3, <1>16
  <2>2. Len(ids[d]) >= 3 /\ Len(ids[d]) \in Nat /\ ids[d][1] \in OrderIds /\ ids[d][2] \in OrderIds
    <3>1. Len(ids[d]) \in Nat /\ \A k \in 1..Len(ids[d]) : ids[d][k] \in OrderIds
      BY <1>16, OfThree
    <3>2. Len(ids[d]) >= 3
      <4>1. CASE d = c
        BY <1>1, <1>16, <4>1
      <4>2. CASE d # c
        BY <1>5, <1>6, <1>16, <4>2, OfThree
      <4> QED
        BY <4>1, <4>2
    <3> QED
      BY <3>1, <3>2
  <2>3. CASE d # c \/ n = 3
    <3>1. written[d] >= 2
      BY <1>3, <1>5, <1>16, <2>3
    <3>2. o.id # ids[d][1] /\ o.id # ids[d][2]
      BY <1>15, <1>16, <2>2, <2>3
    <3>3. held'[ids[d][1]] = held[ids[d][1]] /\ held'[ids[d][2]] = held[ids[d][2]]
      BY <1>10, <2>2, <3>2
    <3> QED
      BY <1>16, <2>1, <3>1, <3>3 DEF Protection, TakeProfits
  <2>4. CASE d = c /\ n = 2
    <3>1. o.bracket /\ o.parent = ids[c][1] /\ o.id = ids[c][2] /\ ~ o.what_if
      <4>1. o.bracket /\ written[c] > 0
        BY <1>1, <1>3, <1>16, <2>4
      <4> QED
        BY <1>1, <1>14, <2>4, <4>1
    <3>2. o.id # ids[c][1]
      BY <1>15, <1>16, <2>2, <2>4
    <3>3. held[ids[c][1]] = [by |-> c, leg |-> 1, parent |-> 0]
      BY <1>10, <1>16, <2>2, <2>4, <3>2
    <3>4. held[o.parent] # NoOrder
      BY <3>1, <3>3 DEF NoOrder
    <3>5. held' = [held EXCEPT ![o.id] = h]
      BY <1>4, <1>16, <3>1, <3>4
    <3> QED
      BY <1>1, <1>3, <2>4, <3>1, <3>5
  <2>5. d # c \/ n = 2 \/ n = 3
    <3>1. CASE d = c
      BY <1>1, <1>5, <1>16, <3>1
    <3> QED
      BY <3>1
  <2> QED
    BY <2>3, <2>4, <2>5
<1>17. TakeProfits'
  BY <1>2, <1>8, <1>16 DEF TakeProfits
<1>18. ASSUME NEW i \in working', held'[i].leg = 1, Own(held'[i].by)
       PROVE  /\ job'[held'[i].by] = "done"
              /\ \E j \in working' : held'[j] = [by |-> held'[i].by, leg |-> 3, parent |-> i]
              /\ lost' = 0 =>
                   \E j \in working' : held'[j] = [by |-> held'[i].by, leg |-> 2, parent |-> i]
  <2> DEFINE d == held'[i].by
  <2>0. i \in OrderIds
    BY <1>18 DEF TypeOK
  <2>1. /\ d \in Callers /\ Len(legs[d]) = 3 /\ 1 <= written'[d] /\ i = ids[d][1]
        /\ held'[i].parent = 0
    BY <1>2, <1>11, <1>18, <2>0 DEF Held
  <2>2. Len(ids[d]) >= 3 /\ Len(ids[d]) \in Nat /\ \A k \in 1..Len(ids[d]) : ids[d][k] \in OrderIds
    <3>1. Len(ids[d]) \in Nat /\ \A k \in 1..Len(ids[d]) : ids[d][k] \in OrderIds
      BY <2>1, OfThree
    <3>2. Len(ids[d]) >= 3
      <4>1. CASE d = c
        BY <1>1, <2>1, <4>1
      <4>2. CASE d # c
        BY <1>5, <1>6, <2>1, <4>2, OfThree
      <4> QED
        BY <4>1, <4>2
    <3> QED
      BY <3>1, <3>2
  <2>3. working \subseteq working'
    BY <1>4
  <2>4. CASE i = o.id
    <3>1. d = c /\ n = 1
      BY <1>15, <1>18, <2>1, <2>2, <2>4
    <3>2. i \notin working
      <4>1. SUFFICES ASSUME i \in working PROVE FALSE
        OBVIOUS
      <4>2. PICK e \in Callers, k \in 1..3 : k <= written[e] /\ i = ids[e][k]
        BY <4>1 DEF Protection, Worked
      <4>3. k \in Taken(e)
        BY <4>2, WrittenIsTaken
      <4>4. e = d /\ k = 1
        BY <1>18, <2>1, <2>2, <4>2, <4>3, OwnIsApart
      <4> QED
        <5>1. 1 <= written[c] /\ written[c] + 1 = 1 /\ written[c] \in 0..3
          BY <1>3, <3>1, <4>2, <4>4
        <5> QED
          BY <5>1
    <3>3. o.transmit
      BY <1>4, <1>18, <3>2
    <3> QED
      BY <1>1, <1>14, <2>1, <3>1, <3>3
  <2>5. CASE i # o.id
    <3>1. held'[i] = held[i]
      BY <1>10, <2>0, <2>5
    <3>2. CASE i \in working
      <4>1. /\ job[d] = "done"
            /\ \E j \in working : held[j] = [by |-> d, leg |-> 3, parent |-> i]
            /\ lost = 0 => \E j \in working : held[j] = [by |-> d, leg |-> 2, parent |-> i]
        BY <1>18, <3>1, <3>2 DEF Protection, EntryIsProtected, Own
      <4>2. d # c
        BY <1>1, <4>1 DEF Kinds
      <4>3. ASSUME NEW j \in working, NEW l \in {2, 3}, held[j] = [by |-> d, leg |-> l, parent |-> i]
            PROVE  j \in working' /\ held'[j] = [by |-> d, leg |-> l, parent |-> i]
        <5>1. j \in OrderIds /\ held[j].leg = l /\ held[j].by = d
          BY <1>3, <4>3
        <5>2. j = ids[d][l]
          BY <5>1 DEF Protection, Held
        <5>3. j # o.id
          BY <1>15, <1>18, <2>1, <2>2, <4>2, <5>2
        <5> QED
          BY <1>10, <2>3, <4>3, <5>1, <5>3
      <4>4. job'[d] = "done"
        BY <1>2, <1>3, <2>1, <4>1, <4>2
      <4>5. lost' = 0 => lost = 0
        BY <1>3
      <4> QED
        BY <4>1, <4>3, <4>4, <4>5
    <3>3. CASE i \notin working
      <4>1. /\ o.transmit /\ held' = [held EXCEPT ![o.id] = h] /\ lost' = lost
            /\ working' = working \cup {o.id} \cup family \cup ({o.parent} \ {0})
        BY <1>4, <1>18, <3>3
      <4>2. i = o.parent /\ i # 0
        BY <1>18, <2>1, <2>5, <3>3, <4>1
      <4>3. o.bracket /\ written[c] > 0 /\ i = ids[c][1]
        BY <1>12, <4>2
      <4>4. 1 \in Taken(c)
        BY <1>3, <4>3, WrittenIsTaken
      <4>5. d = c
        BY <1>18, <2>1, <2>2, <4>3, <4>4, OwnIsApart
      <4>6. n = 3 /\ written[c] = 2
        BY <1>1, <1>3, <1>14, <4>1, <4>3
      <4>7. job'[d] = "done"
        BY <1>1, <1>2, <1>3, <4>3, <4>5, <4>6
      <4>8. o.id \in working' /\ held'[o.id] = [by |-> d, leg |-> 3, parent |-> i]
        BY <1>1, <1>3, <4>1, <4>2, <4>3, <4>5, <4>6
      <4>9. ASSUME lost' = 0
            PROVE  \E j \in working' : held'[j] = [by |-> d, leg |-> 2, parent |-> i]
        <5>1. held[i] = [by |-> c, leg |-> 1, parent |-> 0]
          <6>1. held[i].by = c /\ held[i].leg = 1 /\ held[i].parent = 0
            BY <1>18, <2>1, <3>1, <4>5
          <6> QED
            BY <1>3, <2>0, <6>1
        <5>2. held[ids[c][2]] = [by |-> c, leg |-> 2, parent |-> i]
          BY <1>18, <2>1, <4>1, <4>3, <4>5, <4>6, <4>9, <5>1 DEF Protection, TakeProfits
        <5>3. ids[c][2] \in OrderIds /\ ids[c][2] # o.id
          BY <1>15, <1>18, <2>1, <2>2, <4>5, <4>6
        <5>4. held'[ids[c][2]] = [by |-> d, leg |-> 2, parent |-> i]
          BY <1>10, <4>5, <5>2, <5>3
        <5>5. ids[c][2] \in working'
          BY <4>1, <4>2, <5>3, <5>4
        <5> QED
          BY <5>4, <5>5
      <4> QED
        BY <4>7, <4>8, <4>9
    <3> QED
      BY <3>2, <3>3
  <2> QED
    BY <2>4, <2>5
<1>19. EntryIsProtected'
  <2>1. \A d \in Callers : Own(d) <=> \A k \in DOMAIN ids'[d] : ids'[d][k] \notin overtaken'
    BY <1>2 DEF Own
  <2>2. ASSUME NEW i \in working', held'[i].leg = 1
        PROVE  held'[i].by \in Callers
    BY <1>11, <2>2 DEF Held, TypeOK
  <2> QED
    BY <1>18, <2>1, <2>2 DEF EntryIsProtected
<1> QED
  BY <1>9, <1>11, <1>13, <1>17, <1>19 DEF Protection

LEMMA ProtectionStep ==
  ASSUME TypeOK, Jobs, TypeOK', Jobs', Apart, Protection, [Next]_vars
  PROVE  Protection'
<1>0. \A b \in plan.bracket : IsBracket(b)
  BY DEF Protection, Brackets
<1>1. \A d \in Callers : \A k \in 1..3 :
        k <= written[d] => k \in 1..Len(ids[d]) /\ Len(ids[d]) \in Nat
  <2>1. ASSUME NEW d \in Callers
        PROVE  Len(ids[d]) \in Nat /\ written[d] \in 0..3 /\ written[d] <= Len(ids[d])
    BY DEF TypeOK, Jobs, JobOf
  <2> QED
    BY <2>1
<1>2. ASSUME UNCHANGED <<held, working, written, lost, ids, legs, overtaken>>,
             \A b \in plan'.bracket : IsBracket(b),
             \A d \in Callers : job[d] = "done" => job'[d] = "done"
      PROVE  Protection'
  <2>1. \A d \in Callers : Len(ids[d]) \in Nat
    BY DEF TypeOK
  <2>2. \A d \in Callers : Len(ids[d]) <= Len(ids'[d])
    BY <1>2, <2>1
  <2> QED
    BY <1>2, <2>2, ProtectionIsKept
<1>3. CASE SetSide \/ SetType \/ SetTime \/ SetFlag \/ FinishChain
  <2>1. NotChain /\ (plan' = plan \/ \A b \in plan'.bracket : IsBracket(b))
    BY <1>3, ChainIsTyped
  <2> QED
    BY <1>0, <1>2, <2>1 DEF NotChain, broker
<1>4. CASE UNCHANGED vars
  BY <1>0, <1>2, <1>4 DEF vars, chain, broker
<1>5. ASSUME NEW c \in Callers, WriteFails(c) \/ AskNextId(c)
      PROVE  Protection'
  <2>1. /\ UNCHANGED <<held, working, written, lost, ids, legs, overtaken, plan>>
        /\ job[c] # "done" /\ \E j : job' = [job EXCEPT ![c] = j]
    BY <1>5 DEF WriteFails, AskNextId, CanWrite, IsSubmitting, Kinds, chain, broker
  <2>2. \A d \in Callers : job[d] = "done" => job'[d] = "done"
    BY <2>1 DEF TypeOK
  <2> QED
    BY <1>0, <1>2, <2>1, <2>2
<1>6. ASSUME NEW c \in Callers, Len(legs[c]) # 3, written[c] = 0,
             UNCHANGED <<held, working, written, lost, plan>>, overtaken \subseteq overtaken',
             \A d \in Callers \ {c} : legs'[d] = legs[d] /\ ids'[d] = ids[d] /\ job'[d] = job[d],
             Len(legs'[c]) = 3 => IsBracket(legs'[c])
      PROVE  Protection'
  <2>1. \A d \in Callers \ {c} : Len(ids[d]) \in Nat /\ Len(ids[d]) <= Len(ids'[d])
    BY <1>6 DEF TypeOK
  <2>2. \A d \in Callers : \A k \in 1..3 : k <= written[d] => ids'[d][k] = ids[d][k]
    BY <1>6
  <2>3. \A d \in Callers :
          Len(legs[d]) = 3 =>
            /\ legs'[d] = legs[d] /\ Len(ids[d]) <= Len(ids'[d])
            /\ \A k \in 1..Len(ids[d]) : ids'[d][k] = ids[d][k]
            /\ job[d] = "done" => job'[d] = "done"
    BY <1>6, <2>1
  <2>4. \A d \in Callers :
          Len(legs'[d]) = 3 => Len(legs[d]) = 3 \/ (written[d] = 0 /\ IsBracket(legs'[d]))
    BY <1>6
  <2> QED
    BY <1>0, <1>6, <2>2, <2>3, <2>4, ProtectionIsKept
<1>7. ASSUME NEW c \in Callers, Submit(c) \/ Analyze(c) \/ SubmitAll(c) \/ SubmitOca(c)
      PROVE  Protection'
  <2>1. PICK kind \in Kinds, orders \in Seq(Skeletons) :
          /\ Begin(c, kind, orders)
          /\ (kind = "submit" => Len(orders) = 0 \/ Len(orders) = 1)
          /\ (kind = "bracket" => Len(orders) = 3 /\ orders \in plan.bracket)
          /\ (kind = "oca" => Len(orders) = 2)
    BY <1>7, BeginIsTyped
  <2>2. /\ job[c] = "idle" /\ job' = [job EXCEPT ![c] = kind]
        /\ legs' = [legs EXCEPT ![c] = orders]
        /\ UNCHANGED <<held, working, written, lost, ids, overtaken, plan>>
    BY <2>1 DEF Begin, chain, broker
  <2>3. Len(legs[c]) = 0 /\ written[c] = 0
    BY <2>2, NothingTaken
  <2>4. /\ legs'[c] = orders
        /\ \A d \in Callers \ {c} : legs'[d] = legs[d] /\ ids'[d] = ids[d] /\ job'[d] = job[d]
    BY <2>2 DEF TypeOK
  <2>5. Len(legs'[c]) = 3 => IsBracket(legs'[c])
    BY <1>0, <2>1, <2>4 DEF Kinds
  <2>6. /\ UNCHANGED <<held, working, written, lost, plan>> /\ overtaken \subseteq overtaken'
        /\ Len(legs[c]) # 3
    BY <2>2, <2>3
  <2> QED
    BY <1>6, <2>3, <2>4, <2>5, <2>6
<1>8. ASSUME NEW c \in Callers, TakeId(c)
      PROVE  Protection'
  <2>1. /\ job[c] \in Kinds /\ nextId' = nextId + 1
        /\ ids' = [ids EXCEPT ![c] = Append(@, nextId)]
        /\ job' = [job EXCEPT ![c] = IF legs[c] = <<>> THEN "failed" ELSE @]
        /\ UNCHANGED <<held, working, written, lost, legs, overtaken, plan>>
    BY <1>8 DEF TakeId, IsSubmitting, chain, broker
  <2>2. /\ job \in [Callers -> Kinds \cup {"idle", "failed", "done", "asking", "answered"}]
        /\ ids \in [Callers -> Seq(1..MaxOrderId + 1)] /\ nextId \in 1..MaxOrderId + 1
        /\ \A d \in Callers : Len(ids[d]) \in Nat
    BY DEF TypeOK
  <2>3. \A d \in Callers :
          /\ Len(ids[d]) <= Len(ids'[d])
          /\ \A k \in 1..Len(ids[d]) : ids'[d][k] = ids[d][k]
    <3>1. /\ Len(Append(ids[c], nextId)) = Len(ids[c]) + 1
          /\ \A k \in 1..Len(ids[c]) : Append(ids[c], nextId)[k] = ids[c][k]
      BY <2>2, AppendProperties
    <3>2. ids'[c] = Append(ids[c], nextId) /\ \A d \in Callers \ {c} : ids'[d] = ids[d]
      BY <2>1, <2>2
    <3> QED
      BY <2>2, <3>1, <3>2
  <2>4. \A d \in Callers : job[d] = "done" => job'[d] = "done"
    BY <2>1, <2>2 DEF Kinds
  <2>5. \A d \in Callers : \A k \in 1..3 : k <= written[d] => ids'[d][k] = ids[d][k]
    BY <1>1, <2>3
  <2> QED
    BY <1>0, <2>1, <2>3, <2>4, <2>5, ProtectionIsKept
<1>9. ASSUME NEW c \in Callers, BrokerAnswers(c)
      PROVE  Protection'
  <2>1. /\ job[c] = "asking" /\ job' = [job EXCEPT ![c] = "answered"]
        /\ ids' = [ids EXCEPT ![c] = <<topId + 1>>]
        /\ UNCHANGED <<held, working, written, lost, legs, overtaken, plan>>
    BY <1>9 DEF BrokerAnswers, chain, broker
  <2>2. Len(legs[c]) = 0 /\ written[c] = 0
    BY <2>1, NothingTaken
  <2>3. \A d \in Callers \ {c} : legs'[d] = legs[d] /\ ids'[d] = ids[d] /\ job'[d] = job[d]
    BY <2>1 DEF TypeOK
  <2> QED
    BY <1>6, <2>1, <2>2, <2>3
<1>10. ASSUME NEW c \in Callers, SetNextId(c)
       PROVE  Protection'
  <2>1. /\ job[c] = "answered" /\ job' = [job EXCEPT ![c] = "done"]
        /\ ids' = [ids EXCEPT ![c] = <<>>] /\ overtaken \subseteq overtaken'
        /\ UNCHANGED <<held, working, written, lost, legs, plan>>
    BY <1>10 DEF SetNextId, chain, broker
  <2>2. Len(legs[c]) = 0 /\ written[c] = 0
    BY <2>1, NothingTaken
  <2>3. \A d \in Callers \ {c} : legs'[d] = legs[d] /\ ids'[d] = ids[d] /\ job'[d] = job[d]
    BY <2>1 DEF TypeOK
  <2> QED
    BY <1>6, <2>1, <2>2, <2>3
<1> QED
  BY <1>3, <1>4, <1>5, <1>7, <1>8, <1>9, <1>10, Steps, ProtectionOfWrites

\* The broker works the entry of a bracket only with its stop loss, and, if nothing
\* was lost, its take profit; for any number of callers, orders and ids.
THEOREM EntriesAreProtected == Spec => []EntryIsProtected
<1> DEFINE Inv == TypeOK /\ Jobs /\ Counted /\ Apart /\ Written /\ Protection
<1>1. Init => Inv
  BY TypesInit, FreshInit, ProtectionInit
<1>2. Inv /\ [Next]_vars => Inv'
  BY TypesStep, FreshStep, ProtectionStep
<1>3. Inv => EntryIsProtected
  BY DEF Protection
<1> QED
  BY <1>1, <1>2, <1>3, PTL DEF Spec

===============================================================================
