-------------------------------- MODULE Orders --------------------------------
(* Orders from the builder to the broker (orders/builder/async_impl.rs and       *)
(* sync_impl.rs): callers take order ids from the one counter of their client    *)
(* (client/id_generator.rs), write one order after another, stop at the first     *)
(* that fails, and may meanwhile have the counter set by next_valid_order_id.     *)
(* One chain of builder calls is made, and then run by every caller: a chain      *)
(* touches nothing that is shared, so nothing is lost by making it first.         *)
EXTENDS OrderBuilder, Sequences, FiniteSets

CONSTANTS
  Callers,
  Numbers,       \* the f64 that the chain's calls are given
  BracketPrices, \* those that the bracket's are given
  MaxCalls,      \* bound: the calls of the chain after its first
  MaxOrderId,    \* bound on the ids that are handed out; they start at 1
  MaxLost        \* bound on the orders written that the broker never gets

ASSUME OrdersAssumption ==
  /\ Numbers \subseteq Int \cup {NaN} /\ BracketPrices \subseteq Int \cup {NaN}
  /\ MaxCalls \in Nat /\ MaxOrderId \in Nat /\ MaxLost \in Nat

VARIABLES
  draft,     \* the builder that the chain has made so far
  calls,     \* the calls of the chain, -1 once it is finished
  plan,      \* what its build, and the bracket's, give: each one or nothing
  nextId,    \* ClientIdManager::order_ids
  job,       \* of each caller: what it is doing
  legs,      \* the orders it submits
  ids,       \* the ids it has taken for them
  written,   \* how many it has written
  held,      \* the broker's orders by id, NoOrder where it has none
  working,   \* the ids of those it works
  topId,     \* the highest id it has received
  sent,      \* history: each order written: its id, its caller and its number
  overtaken, \* history: ids handed out before the counter was set back over them
  lost

chain == <<draft, calls, plan>>
broker == <<held, working, topId>>
vars == <<chain, nextId, job, legs, ids, written, broker, sent, overtaken, lost>>

OrderIds == 1..MaxOrderId
NoOrder == [by |-> None, leg |-> 0, parent |-> 0]
Kinds == {"submit", "bracket", "oca"}

\* What the submission and the broker look at in an order that is built.
Skeleton(o) == [transmit |-> o.transmit, what_if |-> o.what_if]
Skeletons == [transmit : BOOLEAN, what_if : BOOLEAN]

Init ==
  /\ draft = NewBuilder /\ calls = 0 /\ plan = [order |-> {}, bracket |-> {}]
  /\ nextId = 1
  /\ job = [c \in Callers |-> "idle"] /\ legs = [c \in Callers |-> <<>>]
  /\ ids = [c \in Callers |-> <<>>] /\ written = [c \in Callers |-> 0]
  /\ held = [i \in OrderIds |-> NoOrder] /\ working = {} /\ topId = 0
  /\ sent = {} /\ overtaken = {} /\ lost = 0

-------------------------------------------------------------------------------
(* The chain. *)

NotChain == UNCHANGED <<nextId, job, legs, ids, written, broker, sent, overtaken, lost>>

Fluently(builders) ==
  /\ calls \in 0..MaxCalls - 1 /\ draft' \in builders /\ calls' = calls + 1
  /\ UNCHANGED plan /\ NotChain

\* The side comes first, as all examples have it, or is forgotten.
SetSide ==
  /\ draft = NewBuilder /\ calls = 0 /\ draft' \in SideCalls(draft, Numbers)
  /\ UNCHANGED <<calls, plan>> /\ NotChain
SetType == Fluently(TypeCalls(draft, Numbers))
SetTime == Fluently(TimeCalls(draft))
SetFlag == Fluently(FlagCalls(draft))

Skeletal(order) == {Skeleton(o) : o \in order}
SkeletalBracket(bracket) == {[i \in 1..3 |-> Skeleton(b[i])] : b \in bracket}

\* The chain ends, with its build and a bracket's.
FinishChain ==
  /\ calls >= 0 /\ calls' = -1 /\ draft' = NewBuilder
  /\ \E e \in Entries(BracketPrices), t, s \in BracketPrices \cup {None} :
       plan' = [order |-> Skeletal(Build(draft)),
                bracket |-> SkeletalBracket(BuildBracket(draft, e, t, s))]
  /\ NotChain

-------------------------------------------------------------------------------
(* Submissions. *)

Begin(c, kind, orders) ==
  /\ calls = -1 /\ job[c] = "idle"
  /\ job' = [job EXCEPT ![c] = kind] /\ legs' = [legs EXCEPT ![c] = orders]
  /\ UNCHANGED <<chain, nextId, ids, written, broker, sent, overtaken, lost>>

\* submit(): the id is taken before the order is built; a refused one wastes it.
Submit(c) ==
  \/ \E o \in plan.order : Begin(c, "submit", <<o>>)
  \/ plan.order = {} /\ Begin(c, "submit", <<>>)

\* analyze(): the same with what_if; its wait for the answer is the router's part.
Analyze(c) == \E o \in plan.order : Begin(c, "submit", <<[o EXCEPT !.what_if = TRUE]>>)

\* submit_all(): built before an id is taken.
SubmitAll(c) == \E b \in plan.bracket : Begin(c, "bracket", b)

\* submit_oca_orders() of two orders that are built.
SubmitOca(c) == \E o \in plan.order : Begin(c, "oca", <<o, o>>)

IsSubmitting(c) == job[c] \in Kinds

\* A bracket takes its three ids first, the orders of a group each before its write.
NeedsId(c) ==
  CASE job[c] = "submit" -> ids[c] = <<>>
    [] job[c] = "bracket" -> Len(ids[c]) < 3
    [] OTHER -> Len(ids[c]) = written[c]

\* A slip: the counter is read, and not moved.
TakeIdUnmoved(c) ==
  /\ IsSubmitting(c) /\ NeedsId(c) /\ nextId <= MaxOrderId
  /\ ids' = [ids EXCEPT ![c] = Append(@, nextId)]
  /\ job' = [job EXCEPT ![c] = IF legs[c] = <<>> THEN "failed" ELSE @]
  /\ UNCHANGED <<chain, nextId, legs, written, broker, sent, overtaken, lost>>

\* next_order_id(): one fetch_add.
TakeId(c) ==
  /\ IsSubmitting(c) /\ NeedsId(c) /\ nextId <= MaxOrderId
  /\ ids' = [ids EXCEPT ![c] = Append(@, nextId)] /\ nextId' = nextId + 1
  /\ job' = [job EXCEPT ![c] = IF legs[c] = <<>> THEN "failed" ELSE @]
  /\ UNCHANGED <<chain, legs, written, broker, sent, overtaken, lost>>

\* A slip: the take profit transmits.
NextOrderEager(c) ==
  LET n == written[c] + 1
      inBracket == job[c] = "bracket"
  IN [id |-> ids[c][n], by |-> c, leg |-> n, bracket |-> inBracket,
      parent |-> IF inBracket /\ n > 1 THEN ids[c][1] ELSE 0,
      transmit |-> legs[c][n].transmit \/ (inBracket /\ n >= 2),
      what_if |-> legs[c][n].what_if]

\* The order that is written next, as the broker sees it: the children of a
\* bracket name its entry, and its last transmits.
NextOrder(c) ==
  LET n == written[c] + 1
      inBracket == job[c] = "bracket"
  IN [id |-> ids[c][n], by |-> c, leg |-> n, bracket |-> inBracket,
      parent |-> IF inBracket /\ n > 1 THEN ids[c][1] ELSE 0,
      transmit |-> legs[c][n].transmit \/ (inBracket /\ n = 3),
      what_if |-> legs[c][n].what_if]

CanWrite(c) == IsSubmitting(c) /\ ~ NeedsId(c)

Wrote(c, o) ==
  /\ written' = [written EXCEPT ![c] = @ + 1]
  /\ job' = [job EXCEPT ![c] = IF o.leg = Len(legs[c]) THEN "done" ELSE @]
  /\ sent' = sent \cup {[id |-> o.id, by |-> c, leg |-> o.leg]}
  /\ UNCHANGED <<chain, nextId, legs, ids, overtaken>>

\* The broker keeps an order in the place of one with the same id, refuses a child
\* whose parent it has not, works nothing for a question, and else what is
\* transmitted with those that are attached to it.
Receives(o) ==
  LET family == {i \in OrderIds : held'[i].parent = o.parent /\ o.parent # 0}
  IN /\ topId' = IF o.id > topId THEN o.id ELSE topId
     /\ IF o.what_if \/ (o.parent # 0 /\ held[o.parent] = NoOrder)
          THEN UNCHANGED <<held, working>>
          ELSE /\ held' = [held EXCEPT ![o.id] =
                             [by |-> o.by, leg |-> IF o.bracket THEN o.leg ELSE 0,
                              parent |-> o.parent]]
               /\ working' = IF o.transmit THEN working \cup {o.id} \cup family \cup
                                                ({o.parent} \ {0})
                                           ELSE working

Write(c) ==
  /\ CanWrite(c)
  /\ Wrote(c, NextOrder(c)) /\ Receives(NextOrder(c))
  /\ UNCHANGED lost

\* Written into a connection that is lost, and re-established before the next.
WriteIsLost(c) ==
  /\ CanWrite(c) /\ lost < MaxLost
  /\ Wrote(c, NextOrder(c))
  /\ lost' = lost + 1 /\ UNCHANGED broker

\* The write fails, or verify_order refuses the order: the rest is not written, and
\* the ids of what has been are not returned.
WriteFails(c) ==
  /\ CanWrite(c)
  /\ job' = [job EXCEPT ![c] = "failed"]
  /\ UNCHANGED <<chain, nextId, legs, ids, written, broker, sent, overtaken, lost>>

-------------------------------------------------------------------------------
(* next_valid_order_id. *)

AskNextId(c) ==
  /\ calls = -1 /\ job[c] = "idle" /\ job' = [job EXCEPT ![c] = "asking"]
  /\ UNCHANGED <<chain, nextId, legs, ids, written, broker, sent, overtaken, lost>>

\* The broker's answer is on its way.
BrokerAnswers(c) ==
  /\ job[c] = "asking" /\ job' = [job EXCEPT ![c] = "answered"]
  /\ ids' = [ids EXCEPT ![c] = <<topId + 1>>]
  /\ UNCHANGED <<chain, nextId, legs, written, broker, sent, overtaken, lost>>

\* A slip: the counter is set to the last id that was used.
SetNextIdToLast(c) ==
  /\ job[c] = "answered" /\ job' = [job EXCEPT ![c] = "done"]
  /\ nextId' = ids[c][1] - 1
  /\ overtaken' = overtaken \cup (ids[c][1]..nextId - 1)
  /\ ids' = [ids EXCEPT ![c] = <<>>]
  /\ UNCHANGED <<chain, legs, written, broker, sent, lost>>

\* set_next_order_id: the counter is what the answer says, though it may by now
\* have moved past that.
SetNextId(c) ==
  /\ job[c] = "answered" /\ job' = [job EXCEPT ![c] = "done"]
  /\ nextId' = ids[c][1]
  /\ overtaken' = overtaken \cup (ids[c][1]..nextId - 1)
  /\ ids' = [ids EXCEPT ![c] = <<>>]
  /\ UNCHANGED <<chain, legs, written, broker, sent, lost>>

Step(c) ==
  \/ Submit(c) \/ Analyze(c) \/ SubmitAll(c) \/ SubmitOca(c)
  \/ TakeId(c) \/ Write(c) \/ WriteIsLost(c) \/ WriteFails(c)
  \/ AskNextId(c) \/ BrokerAnswers(c) \/ SetNextId(c)

Next ==
  \/ SetSide \/ SetType \/ SetTime \/ SetFlag \/ FinishChain
  \/ \E c \in Callers : Step(c)

Spec == Init /\ [][Next]_vars
-------------------------------------------------------------------------------
(* Properties. *)

\* Every variable has its type.
TypeOK ==
  /\ draft \in Builders(Numbers \cup {None}) /\ calls \in -1..MaxCalls
  /\ plan \in [order : SUBSET Skeletons, bracket : SUBSET [1..3 -> Skeletons]]
  /\ nextId \in 1..MaxOrderId + 1
  /\ job \in [Callers -> Kinds \cup {"idle", "failed", "done", "asking", "answered"}]
  /\ legs \in [Callers -> Seq(Skeletons)]
  /\ ids \in [Callers -> Seq(1..MaxOrderId + 1)] /\ written \in [Callers -> 0..3]
  /\ held \in [OrderIds -> [by : Callers \cup {None}, leg : 0..3, parent : 0..MaxOrderId]]
  /\ working \subseteq OrderIds /\ topId \in 0..MaxOrderId
  /\ sent \subseteq [id : OrderIds, by : Callers, leg : 1..3]
  /\ overtaken \subseteq OrderIds /\ lost \in 0..MaxLost

Price(v) == v = None \/ Finite(v)

\* What build looks after is sound, whatever calls came before and in what order:
\* the quantity is a positive number, no limit or trailing price is NaN, and what the
\* order needs is there: the limit price of a wire type that is read with one, the
\* trigger of a stop or stop-limit order, the percentage or stop of a trailing one,
\* the volatility of a VOL order, the date of a GTD one.  Of the auxiliary price
\* of the other types it says nothing: build does not ask requires_aux_price.
SoundOrder(o) ==
  /\ Finite(o.total_quantity) /\ o.total_quantity > 0
  /\ Price(o.limit_price) /\ Price(o.trail_stop_price)
  /\ o.order_type \in {"LMT", "STP LMT", "LOC", "LIT", "REL + LMT"} => Finite(o.limit_price)
  /\ o.order_type \in {"STP", "STP LMT"} => Finite(o.aux_price)
  /\ o.order_type \in {"TRAIL", "TRAIL LIMIT"} => o.trailing_percent \/ Finite(o.trail_stop_price)
  /\ o.order_type = "VOL" => o.volatility
  /\ o.tif = "GTD" => o.good_till_date
BuiltOrdersAreSound == \A o \in Build(draft) : SoundOrder(o)

\* The children of a bracket close what its entry opens, with prices, on the
\* sides of a limit entry that make a profit and a loss, and only the last
\* transmits; sold long is not looked at, and good till a date they lack it.
SoundBracket(b) ==
  LET entry == b[1]
      profit == b[2]
      stop == b[3]
      price == entry.limit_price
  IN /\ SoundOrder(entry)
     /\ entry.tif # "GTD" => SoundOrder(profit) /\ SoundOrder(stop)
     /\ \A child \in {profit, stop} :
          /\ Reverse[child.action] = entry.action
          /\ child.total_quantity = entry.total_quantity /\ child.tif = entry.tif
     /\ ~ entry.transmit /\ ~ profit.transmit /\ stop.transmit
     /\ entry.order_type = "LMT" /\ entry.action # "SellLong" =>
          \/ stop.aux_price < price /\ price < profit.limit_price /\ entry.action = "Buy"
          \/ profit.limit_price < price /\ price < stop.aux_price
             /\ entry.action \in {"Sell", "SellShort"}
BracketsHedge ==
  \A e \in Entries(BracketPrices), t, s \in BracketPrices \cup {None} :
    \A b \in BuildBracket(draft, e, t, s) : SoundBracket(b)

\* Two orders go out under one id only if next_valid_order_id has set the counter
\* back over that id after it was handed out.
IdsAreFresh ==
  \A o, p \in sent : o.id = p.id /\ o # p => o.id \in overtaken

\* The broker works the entry of a bracket only with its stop loss, and when all
\* of the bracket was written: not after a write that failed, and after one that
\* was lost only if the take profit was in it.  That is, while the ids are its own.
EntryIsProtected ==
  \A i \in working :
    LET c == held[i].by
    IN held[i].leg = 1 /\ (\A k \in DOMAIN ids[c] : ids[c][k] \notin overtaken) =>
         /\ job[c] = "done"
         /\ \E j \in working : held[j] = [by |-> c, leg |-> 3, parent |-> i]
         /\ lost = 0 => \E j \in working : held[j] = [by |-> c, leg |-> 2, parent |-> i]
===============================================================================
