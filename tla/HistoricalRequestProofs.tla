----------------------- MODULE HistoricalRequestProofs -----------------------
(***************************************************************************)
(* That a historical answer is complete when it says so, and that a        *)
(* request the broker may serve stays open, for any number of requests,    *)
(* sessions and messages and any capacity of the channels.                 *)
(***************************************************************************)
EXTENDS HistoricalRequest, TLAPS

Ends == {"end", "badEnd", "code"}

\* What the channel can still tell of the session its request is on: while a
\* request is served, the session is up, and a channel that is not overtaken by
\* the reset has every message the broker sent.
ServedInv(r) ==
    /\ IsLive(r) => link
    /\ IsLive(r) /\ ~overtaken[r] => dispatcher = "reading"
    /\ IsLive(r) /\ ~overtaken[r] /\ entry[r] => Len(log[r]) = said[r]
    /\ overtaken[r] => ~entry[r] \/ dispatcher \in {"telling", "clearing"}
    /\ call[r] = "wrote" => ~IsLive(r)

\* Until the request is written nothing is said, read or ended.
UnsentInv(r) ==
    handle[r] \in {"none", "sending", "refused"} =>
        /\ broker[r] = "none" /\ said[r] = 0 /\ ~overtaken[r]
        /\ pos[r] = 0 /\ ended[r] = "none" /\ state[r] = "Open" /\ call[r] = "idle"
        /\ handle[r] # "refused" /\ entry[r] /\ dispatcher # "clearing" => log[r] = <<>>
        /\ handle[r] = "none" => ~entry[r] /\ log[r] = <<>>

\* What the items of the channel say of the request at the broker.
LogInv(r) ==
    /\ \A n \in 1..Len(log[r]) : log[r][n] \in Ends => broker[r] = "over" /\ said[r] = n
    /\ handle[r] # "sending" =>
        \A n \in 1..Len(log[r]) : log[r][n] = "reset" => ~IsLive(r) \/ overtaken[r]
    /\ handle[r] = "held" /\ ~entry[r] => ~IsLive(r) \/ overtaken[r]

\* What the handle made of the items it is past.
ReadInv(r) ==
    /\ notices[r] = {n \in 1..pos[r] : log[r][n] \in {"info", "code"}}
    /\ data[r] => \E n \in 1..pos[r] : log[r][n] = "data"
    /\ ended[r] = "ok" => pos[r] > 0 /\ log[r][pos[r]] = "end" /\ data[r]
    /\ ended[r] = "code" => pos[r] > 0 /\ log[r][pos[r]] = "code"
    /\ state[r] # "Open" => ~IsLive(r) \/ overtaken[r]

LinkInv == link => dispatcher \notin {"reconnecting", "stopped"}

RequestInv(r) == ServedInv(r) /\ UnsentInv(r) /\ LogInv(r) /\ ReadInv(r)

Inv == TypeOK /\ LinkInv /\ \A r \in Request : RequestInv(r)

-----------------------------------------------------------------------------
(* Types *)

LEMMA SentToTypes ==
    ASSUME TypeOK, NEW rs \in SUBSET Request, NEW item \in Item
    PROVE  /\ SentTo(rs, item) \in [Request -> Seq(Item)]
           /\ \A r \in Request : Len(SentTo(rs, item)[r]) >= Len(log[r])
BY DEF TypeOK, SentTo

LEMMA PositionsKept ==
    ASSUME TypeOK, pos' = pos, log' \in [Request -> Seq(Item)],
           \A r \in Request : Len(log'[r]) >= Len(log[r])
    PROVE  \A r \in Request : pos'[r] <= Len(log'[r])
<1> SUFFICES ASSUME NEW r \in Request PROVE pos'[r] <= Len(log'[r])
  OBVIOUS
<1>1. pos[r] <= Len(log[r]) /\ pos[r] \in Nat /\ log[r] \in Seq(Item) /\ log'[r] \in Seq(Item)
  BY DEF TypeOK
<1> QED  BY <1>1

LEMMA SaysTypes ==
    ASSUME TypeOK, NEW r \in Request, NEW item \in Item, Says(r, item)
    PROVE  /\ log' \in [Request -> Seq(Item)]
           /\ \A q \in Request : Len(log'[q]) >= Len(log[q])
           /\ said' \in [Request -> Nat]
<1>1. log' = SentTo({r}, item) \/ log' = log
  BY DEF Says
<1>2. \A q \in Request : Len(log[q]) >= Len(log[q])
  BY DEF TypeOK
<1>3. {r} \in SUBSET Request
  OBVIOUS
<1>4. log \in [Request -> Seq(Item)]
  BY DEF TypeOK
<1>5. log' \in [Request -> Seq(Item)] /\ \A q \in Request : Len(log'[q]) >= Len(log[q])
  BY <1>1, <1>2, <1>3, <1>4, SentToTypes
<1>6. said' \in [Request -> Nat]
  BY DEF Says, TypeOK
<1> QED  BY <1>5, <1>6

LEMMA SessionTypes ==
    ASSUME TypeOK, LinkLost \/ DispatcherStep \/ Shutdown
    PROVE  TypeOK'
<1> USE BoundAssumption DEF TypeOK, answer, channel, cancel, history
<1>1. CASE LinkLost
  <2>1. losses' \in 0..MaxLosses
    BY <1>1 DEF LinkLost
  <2>2. broker' \in [Request -> {"none", "live", "half", "over"}]
    BY <1>1 DEF LinkLost
  <2> QED  BY <1>1, <2>1, <2>2 DEF LinkLost
<1>2. CASE LossNoticed
  BY <1>2 DEF LossNoticed
<1>3. CASE Reconnect
  BY <1>3 DEF Reconnect
<1>4. CASE ResetTells
  <2>1. "reset" \in Item
    BY DEF Item
  <2>2. log' \in [Request -> Seq(Item)] /\ \A r \in Request : Len(log'[r]) >= Len(log[r])
    BY <1>4, <2>1, SentToTypes DEF ResetTells
  <2> QED  BY <1>4, <2>2 DEF ResetTells
<1>5. CASE ResetClears
  BY <1>5 DEF ResetClears
<1>6. CASE Shutdown
  BY <1>6 DEF Shutdown
<1> QED  BY <1>1, <1>2, <1>3, <1>4, <1>5, <1>6 DEF DispatcherStep

LEMMA RequestTypes ==
    ASSUME TypeOK, NEW r \in Request, Send(r) \/ SendStep(r) \/ BrokerStep(r)
    PROVE  TypeOK'
<1> USE BoundAssumption DEF TypeOK, answer, channel, cancel, history, session
<1>1. CASE Send(r)
  BY <1>1 DEF Send
<1>2. CASE SendWrites(r)
  BY <1>2 DEF SendWrites
<1>3. CASE SendFails(r)
  BY <1>3 DEF SendFails
<1>4. CASE BrokerStep(r)
  <2>1. PICK item \in Item : Says(r, item)
    BY <1>4 DEF BrokerStep, BrokerInforms, BrokerSendsBars, BrokerEnds, Item, Saying
  <2>2. broker' \in [Request -> {"none", "live", "half", "over"}]
    BY <1>4 DEF BrokerStep, BrokerInforms, BrokerSendsBars, BrokerEnds
  <2>3. /\ log' \in [Request -> Seq(Item)]
        /\ \A q \in Request : Len(log'[q]) >= Len(log[q])
        /\ said' \in [Request -> Nat]
    BY <2>1, SaysTypes
  <2>4. \A q \in Request : pos'[q] <= Len(log'[q])
    BY <2>1, <2>3, PositionsKept DEF Says
  <2> QED  BY <2>1, <2>2, <2>3, <2>4 DEF Says
<1> QED  BY <1>1, <1>2, <1>3, <1>4 DEF SendStep

LEMMA ReadTypes ==
    ASSUME TypeOK, NEW r \in Request, Reads(r)
    PROVE  TypeOK'
<1> USE DEF TypeOK, channel, cancel, history, session, EndsWith
<1>1. CASE ReadsOn(r)
  BY <1>1 DEF ReadsOn, HasItem
<1>2. CASE ReadsEnd(r)
  <2>1. ResultOf(r, log[r][pos[r] + 1]) \in Result
    BY DEF ResultOf, Result
  <2> QED  BY <1>2, <2>1 DEF ReadsEnd, HasItem
<1>3. CASE ReadsLagged(r)
  BY <1>3 DEF ReadsLagged, Result
<1>4. CASE ReadsClosed(r)
  BY <1>4 DEF ReadsClosed, Result
<1> QED  BY <1>1, <1>2, <1>3, <1>4 DEF Reads

LEMMA CancelTypes ==
    ASSUME TypeOK, NEW r \in Request,
           CallCancel(r) \/ CancelStep(r) \/ AbandonCancel(r) \/ Drop(r) \/ Cleanup(r)
    PROVE  TypeOK'
<1> USE BoundAssumption DEF TypeOK, answer, channel, cancel, history, session
<1>1. CASE CallCancel(r)
  BY <1>1 DEF CallCancel
<1>2. CASE WriteCancel(r)
  BY <1>2 DEF WriteCancel
<1>3. CASE WriteCancelFails(r)
  BY <1>3 DEF WriteCancelFails
<1>4. CASE FinishCancel(r)
  <2>1. "cancelled" \in Item /\ {r} \in SUBSET Request
    BY DEF Item
  <2>2. log' \in [Request -> Seq(Item)] /\ \A q \in Request : Len(log'[q]) >= Len(log[q])
    BY <1>4, <2>1, SentToTypes DEF FinishCancel
  <2>3. \A q \in Request : pos'[q] <= Len(log'[q])
    BY <1>4, <2>2, PositionsKept DEF FinishCancel
  <2>4. entry' \in [Request -> BOOLEAN]
    BY <1>4, Zenon DEF FinishCancel
  <2>5. state' \in [Request -> {"Open", "Ended", "Cancelled"}]
    BY <1>4 DEF FinishCancel
  <2>6. call' \in [Request -> {"idle", "asked", "wrote"}]
    BY <1>4 DEF FinishCancel
  <2> QED  BY <1>4, <2>2, <2>3, <2>4, <2>5, <2>6 DEF FinishCancel
<1>5. CASE AbandonCancel(r)
  BY <1>5 DEF AbandonCancel
<1>6. CASE Drop(r)
  BY <1>6 DEF Drop
<1>7. CASE Cleanup(r)
  BY <1>7 DEF Cleanup
<1> QED  BY <1>1, <1>2, <1>3, <1>4, <1>5, <1>6, <1>7 DEF CancelStep

LEMMA TypeStep ==
    ASSUME TypeOK, [Next]_vars
    PROVE  TypeOK'
<1>1. CASE UNCHANGED vars
  BY <1>1 DEF TypeOK, vars, answer, channel, cancel, history, session
<1> QED
  BY <1>1, SessionTypes, RequestTypes, ReadTypes, CancelTypes DEF Next

\* Every variable keeps its type, and no handle gets ahead of its channel.
THEOREM RequestTypesHold == Spec => []TypeOK
<1>1. Init => TypeOK
  BY BoundAssumption DEF Init, TypeOK, Result
<1> QED  BY <1>1, TypeStep, PTL DEF Spec

-----------------------------------------------------------------------------
(* What the broker serves *)

LEMMA LinkStep ==
    ASSUME LinkInv, [Next]_vars
    PROVE  LinkInv'
<1>1. CASE UNCHANGED vars
  BY <1>1 DEF LinkInv, vars, session
<1>2. CASE LinkLost \/ DispatcherStep \/ Shutdown
  BY <1>2 DEF LinkInv, LinkLost, DispatcherStep, LossNoticed, Reconnect, ResetTells, ResetClears,
              Shutdown
<1>3. ASSUME NEW r \in Request,
             Send(r) \/ SendStep(r) \/ BrokerStep(r) \/ Reads(r) \/ CallCancel(r) \/ CancelStep(r)
               \/ AbandonCancel(r) \/ Drop(r) \/ Cleanup(r)
      PROVE  LinkInv'
  BY <1>3 DEF LinkInv, session, Send, SendStep, SendWrites, SendFails, BrokerStep, BrokerInforms,
              BrokerSendsBars, BrokerEnds, Says, Reads, ReadsOn, ReadsEnd, ReadsLagged, ReadsClosed,
              EndsWith, CallCancel, CancelStep, WriteCancel, WriteCancelFails, FinishCancel,
              AbandonCancel, Drop, Cleanup
<1> QED  BY <1>1, <1>2, <1>3 DEF Next

LEMMA AppendFacts ==
    ASSUME NEW s \in Seq(Item), NEW x \in Item
    PROVE  /\ Len(Append(s, x)) = Len(s) + 1 /\ Len(s) \in Nat
           /\ Append(s, x)[Len(s) + 1] = x
           /\ \A n \in 1..Len(s) : Append(s, x)[n] = s[n]
OBVIOUS

\* A step of the broker, as seen by any request.
LEMMA SaysAt ==
    ASSUME TypeOK, NEW r \in Request, NEW item \in Item, Says(r, item), NEW q \in Request
    PROVE  /\ q # r => log'[q] = log[q] /\ said'[q] = said[q]
           /\ said'[r] = said[r] + 1
           /\ dispatcher = "reading" /\ entry[r] => log'[r] = Append(log[r], item)
           /\ ~(dispatcher = "reading" /\ entry[r]) => log'[r] = log[r]
BY DEF Says, SentTo, TypeOK

LEMMA BrokerSays ==
    ASSUME TypeOK, NEW r \in Request, BrokerStep(r), NEW q \in Request
    PROVE  /\ IsLive(r)
           /\ q # r => broker'[q] = broker[q]
           /\ \E item \in Item : Says(r, item) /\ (item \in Ends => broker'[r] = "over")
                                 /\ item # "reset"
           /\ broker'[r] \in {"live", "half", "over"}
<1>1. CASE BrokerInforms(r)
  BY <1>1 DEF BrokerInforms, TypeOK, Item, Saying, Ends, IsLive
<1>2. CASE BrokerSendsBars(r)
  BY <1>2 DEF BrokerSendsBars, TypeOK, Item, Saying, Ends, IsLive
<1>3. CASE BrokerEnds(r)
  BY <1>3 DEF BrokerEnds, TypeOK, Item, Saying, Ends, IsLive
<1> QED  BY <1>1, <1>2, <1>3 DEF BrokerStep

LEMMA ServedStep ==
    ASSUME Inv, [Next]_vars, NEW q \in Request
    PROVE  ServedInv(q)'
<1>0. TypeOK /\ LinkInv /\ ServedInv(q) /\ UnsentInv(q)
  BY DEF Inv, RequestInv
<1> USE <1>0
<1>1. CASE UNCHANGED vars
  BY <1>1 DEF ServedInv, IsLive, vars, channel, session, cancel, history
<1>2. CASE LinkLost \/ Shutdown
  BY <1>2 DEF ServedInv, IsLive, LinkLost, Shutdown, TypeOK, channel, cancel, history
<1>3. CASE LossNoticed \/ Reconnect \/ ResetClears
  BY <1>3 DEF ServedInv, IsLive, LossNoticed, Reconnect, ResetClears, TypeOK, channel, cancel,
              history, LinkInv
<1>4. CASE ResetTells
  BY <1>4 DEF ServedInv, IsLive, ResetTells, cancel, history
<1>5. ASSUME NEW r \in Request, Send(r) \/ SendStep(r)
      PROVE  ServedInv(q)'
  <2>1. CASE Send(r)
    BY <1>5, <2>1 DEF ServedInv, UnsentInv, IsLive, Send, TypeOK, session, cancel, history
  <2>2. CASE SendWrites(r)
    BY <1>5, <2>2 DEF ServedInv, UnsentInv, IsLive, SendWrites, TypeOK, session, cancel, channel,
                      LinkInv
  <2>3. CASE SendFails(r)
    BY <1>5, <2>3 DEF ServedInv, UnsentInv, IsLive, SendFails, TypeOK, session, cancel, history
  <2> QED  BY <1>5, <2>1, <2>2, <2>3 DEF SendStep
<1>6. ASSUME NEW r \in Request, BrokerStep(r)
      PROVE  ServedInv(q)'
  <2>1. PICK item \in Item : Says(r, item)
    BY <1>6, BrokerSays
  <2>2. UNCHANGED <<session, entry, cancel, history>>
    BY <2>1 DEF Says
  <2>3. CASE q = r
    <3>1. IsLive(q)
      BY <1>6, <2>3, BrokerSays
    <3>2. Len(Append(log[q], item)) = Len(log[q]) + 1
      BY AppendFacts DEF TypeOK
    <3>3. /\ said'[q] = said[q] + 1
          /\ dispatcher = "reading" /\ entry[q] => log'[q] = Append(log[q], item)
      BY <2>1, <2>3, SaysAt
    <3> QED  BY <2>2, <3>1, <3>2, <3>3 DEF ServedInv, IsLive, session, cancel, history
  <2>4. CASE q # r
    <3>1. log'[q] = log[q] /\ said'[q] = said[q] /\ broker'[q] = broker[q]
      BY <1>6, <2>1, <2>4, SaysAt, BrokerSays
    <3> QED  BY <2>2, <3>1 DEF ServedInv, IsLive, session, cancel, history
  <2> QED  BY <2>3, <2>4
<1>7. ASSUME NEW r \in Request, Reads(r)
      PROVE  ServedInv(q)'
  <2>1. UNCHANGED <<session, channel, cancel, broker, said, history>>
    BY <1>7 DEF Reads, ReadsOn, ReadsEnd, ReadsLagged, ReadsClosed, EndsWith
  <2> QED  BY <2>1 DEF ServedInv, IsLive, session, channel, cancel, history
<1>8. ASSUME NEW r \in Request,
             CallCancel(r) \/ CancelStep(r) \/ AbandonCancel(r) \/ Drop(r) \/ Cleanup(r)
      PROVE  ServedInv(q)'
  <2> USE DEF ServedInv, IsLive, TypeOK, session, channel, history
  <2>1. CASE CallCancel(r)
    BY <1>8, <2>1 DEF CallCancel
  <2>2. CASE WriteCancel(r)
    BY <1>8, <2>2 DEF WriteCancel
  <2>3. CASE WriteCancelFails(r)
    BY <1>8, <2>3 DEF WriteCancelFails
  <2>4. CASE FinishCancel(r)
    BY <1>8, <2>4 DEF FinishCancel, SentTo
  <2>5. CASE AbandonCancel(r)
    BY <1>8, <2>5 DEF AbandonCancel
  <2>6. CASE Drop(r)
    BY <1>8, <2>6 DEF Drop
  <2>7. CASE Cleanup(r)
    BY <1>8, <2>7 DEF Cleanup, cancel
  <2> QED  BY <1>8, <2>1, <2>2, <2>3, <2>4, <2>5, <2>6, <2>7 DEF CancelStep
<1> QED  BY <1>1, <1>2, <1>3, <1>4, <1>5, <1>6, <1>7, <1>8 DEF Next, DispatcherStep

LEMMA UnsentStep ==
    ASSUME Inv, [Next]_vars, NEW q \in Request
    PROVE  UnsentInv(q)'
<1>0. TypeOK /\ LinkInv /\ UnsentInv(q)
  BY DEF Inv, RequestInv
<1> USE <1>0
<1>1. CASE UNCHANGED vars
  BY <1>1 DEF UnsentInv, vars, answer, channel, session, cancel, history
<1>2. CASE LinkLost \/ Shutdown
  BY <1>2 DEF UnsentInv, IsLive, LinkLost, Shutdown, TypeOK, channel, cancel, history, answer
<1>3. CASE LossNoticed \/ Reconnect \/ ResetClears
  BY <1>3 DEF UnsentInv, LossNoticed, Reconnect, ResetClears, TypeOK, channel, cancel, history, answer
<1>4. CASE ResetTells
  BY <1>4 DEF UnsentInv, ResetTells, TypeOK, SentTo, cancel, history, answer
<1>5. ASSUME NEW r \in Request, Send(r) \/ SendStep(r)
      PROVE  UnsentInv(q)'
  <2> USE DEF UnsentInv, TypeOK, session, cancel, history, answer, channel
  <2>1. CASE Send(r)
    BY <1>5, <2>1 DEF Send
  <2>2. CASE SendWrites(r)
    BY <1>5, <2>2 DEF SendWrites
  <2>3. CASE SendFails(r)
    BY <1>5, <2>3 DEF SendFails
  <2> QED  BY <1>5, <2>1, <2>2, <2>3 DEF SendStep
<1>6. ASSUME NEW r \in Request, BrokerStep(r)
      PROVE  UnsentInv(q)'
  <2>1. PICK item \in Item : Says(r, item)
    BY <1>6, BrokerSays
  <2>2. UNCHANGED <<session, entry, answer, handle, state, cancel, history>>
    BY <2>1 DEF Says
  <2>3. CASE q = r
    BY <1>6, <2>2, <2>3, BrokerSays DEF UnsentInv, IsLive
  <2>4. CASE q # r
    <3>1. log'[q] = log[q] /\ said'[q] = said[q] /\ broker'[q] = broker[q]
      BY <1>6, <2>1, <2>4, SaysAt, BrokerSays
    <3> QED  BY <2>2, <3>1 DEF UnsentInv, session, answer, cancel, history
  <2> QED  BY <2>3, <2>4
<1>7. ASSUME NEW r \in Request, Reads(r)
      PROVE  UnsentInv(q)'
  <2>1. UNCHANGED <<session, channel, handle, cancel, broker, said, history>> /\ IsAnswering(r)
    BY <1>7 DEF Reads, ReadsOn, ReadsEnd, ReadsLagged, ReadsClosed, EndsWith
  <2>2. CASE q = r
    BY <2>1, <2>2 DEF UnsentInv, IsAnswering
  <2>3. CASE q # r
    <3>1. pos'[q] = pos[q] /\ ended'[q] = ended[q] /\ state'[q] = state[q]
      BY <1>7, <2>3 DEF Reads, ReadsOn, ReadsEnd, ReadsLagged, ReadsClosed, EndsWith, TypeOK
    <3> QED  BY <2>1, <3>1 DEF UnsentInv, session, channel, cancel, history
  <2> QED  BY <2>2, <2>3
<1>8. ASSUME NEW r \in Request,
             CallCancel(r) \/ CancelStep(r) \/ AbandonCancel(r) \/ Drop(r) \/ Cleanup(r)
      PROVE  UnsentInv(q)'
  <2> USE DEF UnsentInv, TypeOK, session, channel, history, answer
  <2>1. CASE CallCancel(r)
    BY <1>8, <2>1 DEF CallCancel
  <2>2. CASE WriteCancel(r)
    BY <1>8, <2>2 DEF WriteCancel, IsLive
  <2>3. CASE WriteCancelFails(r)
    BY <1>8, <2>3 DEF WriteCancelFails
  <2>4. CASE FinishCancel(r)
    BY <1>8, <2>4 DEF FinishCancel, SentTo
  <2>5. CASE AbandonCancel(r)
    BY <1>8, <2>5 DEF AbandonCancel
  <2>6. CASE Drop(r)
    BY <1>8, <2>6 DEF Drop
  <2>7. CASE Cleanup(r)
    BY <1>8, <2>7 DEF Cleanup, cancel
  <2> QED  BY <1>8, <2>1, <2>2, <2>3, <2>4, <2>5, <2>6, <2>7 DEF CancelStep
<1> QED  BY <1>1, <1>2, <1>3, <1>4, <1>5, <1>6, <1>7, <1>8 DEF Next, DispatcherStep

-----------------------------------------------------------------------------
(* What the channel says *)

\* A channel that is told something else than an end of the broker's, or is left
\* alone, says no more of the end than before.
LEMMA EndsKept ==
    ASSUME TypeOK, NEW q \in Request, NEW item \in Item \ Ends,
           \A n \in 1..Len(log[q]) : log[q][n] \in Ends => broker[q] = "over" /\ said[q] = n,
           log'[q] = log[q] \/ log'[q] = Append(log[q], item),
           broker[q] = "over" => broker'[q] = "over",
           broker[q] = "over" => said'[q] = said[q]
    PROVE  \A n \in 1..Len(log'[q]) : log'[q][n] \in Ends => broker'[q] = "over" /\ said'[q] = n
<1>1. CASE log'[q] = log[q]
  BY <1>1
<1>2. CASE log'[q] = Append(log[q], item)
  <2>1. log[q] \in Seq(Item)
    BY DEF TypeOK
  <2>2. Len(log'[q]) = Len(log[q]) + 1 /\ Len(log[q]) \in Nat
    BY <1>2, <2>1, AppendFacts
  <2>3. log'[q][Len(log[q]) + 1] = item
    BY <1>2, <2>1, AppendFacts
  <2>4. \A n \in 1..Len(log[q]) : log'[q][n] = log[q][n]
    BY <1>2, <2>1, AppendFacts
  <2> SUFFICES ASSUME NEW n \in 1..Len(log'[q]), log'[q][n] \in Ends
               PROVE  broker'[q] = "over" /\ said'[q] = n
    OBVIOUS
  <2>5. n \in 1..Len(log[q])
    BY <2>2, <2>3
  <2> QED  BY <2>4, <2>5
<1> QED  BY <1>1, <1>2

\* A channel that was told of no reset says no more of one than before.
LEMMA ResetsKept ==
    ASSUME TypeOK, NEW q \in Request, NEW item \in Item \ {"reset"},
           log'[q] = log[q] \/ log'[q] = Append(log[q], item),
           NEW n \in 1..Len(log'[q]), log'[q][n] = "reset"
    PROVE  n \in 1..Len(log[q]) /\ log[q][n] = "reset"
<1>1. CASE log'[q] = log[q]
  BY <1>1
<1>2. CASE log'[q] = Append(log[q], item)
  <2>1. log[q] \in Seq(Item)
    BY DEF TypeOK
  <2>2. Len(log'[q]) = Len(log[q]) + 1 /\ Len(log[q]) \in Nat
    BY <1>2, <2>1, AppendFacts
  <2>3. log'[q][Len(log[q]) + 1] = item
    BY <1>2, <2>1, AppendFacts
  <2>4. \A m \in 1..Len(log[q]) : log'[q][m] = log[q][m]
    BY <1>2, <2>1, AppendFacts
  <2>5. n \in 1..Len(log[q])
    BY <2>2, <2>3
  <2> QED  BY <2>4, <2>5
<1> QED  BY <1>1, <1>2

NoNews(q) ==
    /\ log'[q] = log[q] /\ broker'[q] = broker[q] /\ said'[q] = said[q]
    /\ handle'[q] = handle[q] /\ entry'[q] = entry[q] /\ overtaken'[q] = overtaken[q]

LEMMA LogKept ==
    ASSUME NEW q \in Request, LogInv(q), NoNews(q)
    PROVE  LogInv(q)'
BY DEF LogInv, NoNews, IsLive

LEMMA LogStep ==
    ASSUME Inv, [Next]_vars, NEW q \in Request
    PROVE  LogInv(q)'
<1>0. TypeOK /\ LinkInv /\ ServedInv(q) /\ UnsentInv(q) /\ LogInv(q)
  BY DEF Inv, RequestInv
<1> USE <1>0
<1>1. CASE UNCHANGED vars
  BY <1>1, LogKept DEF NoNews, vars, answer, channel, session, cancel, history
<1>2. CASE LinkLost
  BY <1>2 DEF LinkLost, LogInv, IsLive, TypeOK, channel, history
<1>3. CASE LossNoticed \/ Reconnect
  BY <1>3, LogKept DEF LossNoticed, Reconnect, NoNews, channel, history
<1>4. CASE ResetClears
  BY <1>4 DEF ResetClears, LogInv, ServedInv, IsLive, TypeOK, history
<1>5. CASE ResetTells
  <2>1. log'[q] = log[q] \/ log'[q] = Append(log[q], "reset")
    BY <1>5 DEF ResetTells, SentTo
  <2>2. UNCHANGED <<entry, handle, broker, said, overtaken>> /\ dispatcher = "telling"
    BY <1>5 DEF ResetTells, history
  <2>3. "reset" \in Item \ Ends
    BY DEF Item, Ends
  <2>4. \A n \in 1..Len(log'[q]) : log'[q][n] \in Ends => broker'[q] = "over" /\ said'[q] = n
    BY <2>1, <2>2, <2>3, EndsKept DEF LogInv
  <2>5. ~IsLive(q) \/ overtaken[q]
    BY <2>2 DEF ServedInv
  <2> QED  BY <2>2, <2>4, <2>5 DEF LogInv, IsLive
<1>6. CASE Shutdown
  BY <1>6 DEF Shutdown, LogInv, IsLive, TypeOK, history
<1>7. ASSUME NEW r \in Request, Send(r) \/ SendStep(r)
      PROVE  LogInv(q)'
  <2>1. CASE q # r
    BY <1>7, <2>1, LogKept DEF Send, SendStep, SendWrites, SendFails, NoNews, TypeOK, channel, history
  <2>2. CASE q = r /\ Send(r)
    BY <2>2 DEF Send, LogInv, UnsentInv, IsLive, TypeOK, history
  <2>3. CASE q = r /\ SendWrites(r)
    <3>1. UNCHANGED <<log, said, entry>> /\ handle[q] = "sending" /\ dispatcher # "stopped"
      BY <2>3 DEF SendWrites, channel
    <3>2. broker[q] = "none"
      BY <3>1 DEF UnsentInv
    <3>3. \A n \in 1..Len(log[q]) : log[q][n] \notin Ends
      BY <3>2 DEF LogInv
    <3>4. ~IsLive(q)' \/ overtaken'[q] \/ (entry[q] /\ log[q] = <<>>)
      BY <2>3, <3>1 DEF SendWrites, IsLive, TypeOK, UnsentInv, LinkInv
    <3>5. entry[q] /\ log[q] = <<>> => entry'[q] /\ \A n \in 1..Len(log'[q]) : log'[q][n] # "reset"
      BY <3>1
    <3> QED  BY <3>1, <3>3, <3>4, <3>5 DEF LogInv, IsLive
  <2>4. CASE q = r /\ SendFails(r)
    BY <2>4 DEF SendFails, LogInv, UnsentInv, IsLive, TypeOK, history
  <2> QED  BY <1>7, <2>1, <2>2, <2>3, <2>4 DEF SendStep
<1>8. ASSUME NEW r \in Request, BrokerStep(r)
      PROVE  LogInv(q)'
  <2>1. PICK item \in Item : Says(r, item) /\ (item \in Ends => broker'[r] = "over") /\ item # "reset"
    BY <1>8, BrokerSays
  <2>2. UNCHANGED <<session, entry, handle, history>>
    BY <2>1 DEF Says
  <2>3. CASE q # r
    BY <1>8, <2>1, <2>2, <2>3, SaysAt, BrokerSays, LogKept DEF NoNews, history
  <2>4. CASE q = r
    <3>1. IsLive(q)
      BY <1>8, <2>4, BrokerSays
    <3>2. log'[q] = log[q] \/ log'[q] = Append(log[q], item)
      BY <2>1, <2>4, SaysAt
    <3>3. \A n \in 1..Len(log[q]) : log[q][n] \notin Ends
      BY <3>1 DEF LogInv, IsLive
    <3>4. \A n \in 1..Len(log'[q]) : log'[q][n] \in Ends => broker'[q] = "over" /\ said'[q] = n
      <4>1. CASE item \notin Ends
        BY <3>1, <3>2, <4>1, EndsKept DEF LogInv, IsLive
      <4>2. CASE item \in Ends /\ log'[q] = log[q]
        BY <3>3, <4>2
      <4>3. CASE item \in Ends /\ log'[q] # log[q]
        <5>1. dispatcher = "reading" /\ entry[q] /\ log'[q] = Append(log[q], item)
          BY <2>1, <2>4, <4>3, SaysAt
        <5>2. Len(log[q]) = said[q]
          BY <3>1, <5>1 DEF ServedInv
        <5>3. /\ Len(log'[q]) = Len(log[q]) + 1 /\ Len(log[q]) \in Nat
              /\ \A n \in 1..Len(log[q]) : log'[q][n] = log[q][n]
          BY <5>1, AppendFacts DEF TypeOK
        <5>4. said'[q] = said[q] + 1 /\ broker'[q] = "over"
          BY <2>1, <2>4, <4>3, SaysAt
        <5> SUFFICES ASSUME NEW n \in 1..Len(log'[q]), log'[q][n] \in Ends
                     PROVE  said'[q] = n
          BY <5>4
        <5>5. n \notin 1..Len(log[q])
          BY <3>3, <5>3
        <5> QED  BY <5>2, <5>3, <5>4, <5>5
      <4> QED  BY <3>2, <4>1, <4>2, <4>3
    <3>5. handle'[q] # "sending" =>
            \A n \in 1..Len(log'[q]) : log'[q][n] = "reset" => ~IsLive(q)' \/ overtaken'[q]
      <4> SUFFICES ASSUME handle'[q] # "sending", NEW n \in 1..Len(log'[q]), log'[q][n] = "reset"
                   PROVE  overtaken'[q]
        OBVIOUS
      <4>1. n \in 1..Len(log[q]) /\ log[q][n] = "reset"
        BY <2>1, <3>2, ResetsKept
      <4> QED  BY <2>2, <3>1, <4>1 DEF LogInv, history
    <3> QED  BY <2>2, <3>1, <3>4, <3>5 DEF LogInv, history
  <2> QED  BY <2>3, <2>4
<1>9. ASSUME NEW r \in Request, Reads(r)
      PROVE  LogInv(q)'
  BY <1>9, LogKept DEF Reads, ReadsOn, ReadsEnd, ReadsLagged, ReadsClosed, EndsWith, NoNews, channel,
                       history
<1>10. ASSUME NEW r \in Request,
              CallCancel(r) \/ CancelStep(r) \/ AbandonCancel(r) \/ Drop(r) \/ Cleanup(r)
       PROVE  LogInv(q)'
  <2>1. CASE CallCancel(r) \/ WriteCancelFails(r) \/ AbandonCancel(r)
    BY <2>1, LogKept DEF CallCancel, WriteCancelFails, AbandonCancel, NoNews, channel, history
  <2>2. CASE WriteCancel(r)
    BY <2>2 DEF WriteCancel, LogInv, IsLive, TypeOK, channel, history
  <2>3. CASE FinishCancel(r)
    <3>1. log'[q] = log[q] \/ log'[q] = Append(log[q], "cancelled")
      BY <2>3 DEF FinishCancel, SentTo
    <3>2. UNCHANGED <<handle, broker, said, overtaken>>
      BY <2>3 DEF FinishCancel, history
    <3>3. "cancelled" \in Item \ Ends /\ "cancelled" \in Item \ {"reset"}
      BY DEF Item, Ends
    <3>4. \A n \in 1..Len(log'[q]) : log'[q][n] \in Ends => broker'[q] = "over" /\ said'[q] = n
      BY <3>1, <3>2, <3>3, EndsKept DEF LogInv
    <3>5. handle'[q] # "sending" =>
            \A n \in 1..Len(log'[q]) : log'[q][n] = "reset" => ~IsLive(q)' \/ overtaken'[q]
      <4> SUFFICES ASSUME handle'[q] # "sending", NEW n \in 1..Len(log'[q]), log'[q][n] = "reset"
                   PROVE  ~IsLive(q)' \/ overtaken'[q]
        OBVIOUS
      <4>1. n \in 1..Len(log[q]) /\ log[q][n] = "reset"
        BY <3>1, <3>3, ResetsKept
      <4> QED  BY <3>2, <4>1 DEF LogInv, IsLive
    <3>6. handle'[q] = "held" /\ ~entry'[q] => ~IsLive(q)' \/ overtaken'[q]
      BY <2>3, <3>2 DEF FinishCancel, LogInv, ServedInv, IsLive, TypeOK
    <3> QED  BY <3>4, <3>5, <3>6 DEF LogInv
  <2>4. CASE Drop(r)
    BY <2>4 DEF Drop, LogInv, IsLive, TypeOK, channel, history
  <2>5. CASE Cleanup(r)
    BY <2>5 DEF Cleanup, LogInv, IsLive, TypeOK, history
  <2> QED  BY <1>10, <2>1, <2>2, <2>3, <2>4, <2>5 DEF CancelStep
<1> QED  BY <1>1, <1>2, <1>3, <1>4, <1>5, <1>6, <1>7, <1>8, <1>9, <1>10 DEF Next, DispatcherStep

-----------------------------------------------------------------------------
(* What the handle made of it *)

\* What was sent on a channel stays as it was.
LEMMA LogGrows ==
    ASSUME TypeOK, [Next]_vars, NEW q \in Request
    PROVE  /\ Len(log[q]) <= Len(log'[q])
           /\ \A n \in 1..Len(log[q]) : log'[q][n] = log[q][n]
<1>1. log'[q] = log[q] \/ \E item \in Item : log'[q] = Append(log[q], item)
  <2>1. CASE UNCHANGED vars
    BY <2>1 DEF vars, channel
  <2>2. CASE ResetTells \/ \E r \in Request : FinishCancel(r)
    BY <2>2 DEF ResetTells, FinishCancel, SentTo, Item
  <2>3. ASSUME NEW r \in Request, BrokerStep(r)
        PROVE  log'[q] = log[q] \/ \E item \in Item : log'[q] = Append(log[q], item)
    BY <2>3, BrokerSays, SaysAt
  <2>4. CASE LinkLost \/ LossNoticed \/ Reconnect \/ ResetClears \/ Shutdown
    BY <2>4 DEF LinkLost, LossNoticed, Reconnect, ResetClears, Shutdown, channel
  <2>5. ASSUME NEW r \in Request,
               Send(r) \/ SendStep(r) \/ Reads(r) \/ CallCancel(r) \/ WriteCancel(r)
                 \/ WriteCancelFails(r) \/ AbandonCancel(r) \/ Drop(r) \/ Cleanup(r)
        PROVE  log'[q] = log[q]
    BY <2>5 DEF Send, SendStep, SendWrites, SendFails, Reads, ReadsOn, ReadsEnd, ReadsLagged,
                ReadsClosed, EndsWith, CallCancel, WriteCancel, WriteCancelFails, AbandonCancel,
                Drop, Cleanup, channel
  <2> QED  BY <2>1, <2>2, <2>3, <2>4, <2>5 DEF Next, DispatcherStep, CancelStep
<1>2. log[q] \in Seq(Item)
  BY DEF TypeOK
<1>3. ASSUME NEW item \in Item, log'[q] = Append(log[q], item)
      PROVE  Len(log[q]) <= Len(log'[q]) /\ \A n \in 1..Len(log[q]) : log'[q][n] = log[q][n]
  BY <1>2, <1>3, AppendFacts
<1> QED  BY <1>1, <1>2, <1>3

\* A handle that did not read, nor change its state, stands where it stood.
LEMMA HandleKept ==
    ASSUME TypeOK, [Next]_vars, NEW q \in Request, ReadInv(q),
           pos'[q] = pos[q], data'[q] = data[q], notices'[q] = notices[q], ended'[q] = ended[q],
           state'[q] # "Open" => ~IsLive(q)' \/ overtaken'[q]
    PROVE  ReadInv(q)'
<1>1. pos[q] \in Nat /\ pos[q] <= Len(log[q]) /\ Len(log[q]) \in Nat
  BY DEF TypeOK
<1>2. \A n \in 1..pos[q] : log'[q][n] = log[q][n]
  BY <1>1, LogGrows
<1>3. notices'[q] = {n \in 1..pos'[q] : log'[q][n] \in {"info", "code"}}
  BY <1>2 DEF ReadInv
<1>4. data'[q] => \E n \in 1..pos'[q] : log'[q][n] = "data"
  BY <1>2 DEF ReadInv
<1>5. pos[q] > 0 => pos[q] \in 1..pos[q]
  BY <1>1
<1>6. ended'[q] = "ok" => pos'[q] > 0 /\ log'[q][pos'[q]] = "end" /\ data'[q]
  BY <1>2, <1>5 DEF ReadInv
<1>7. ended'[q] = "code" => pos'[q] > 0 /\ log'[q][pos'[q]] = "code"
  BY <1>2, <1>5 DEF ReadInv
<1> QED  BY <1>3, <1>4, <1>6, <1>7 DEF ReadInv

\* A request that is not served, or that a reset overtook, stays so.
LEMMA NotServedKept ==
    ASSUME Inv, [Next]_vars, NEW q \in Request, handle[q] # "sending", ~IsLive(q) \/ overtaken[q]
    PROVE  ~IsLive(q)' \/ overtaken'[q]
<1>0. TypeOK
  BY DEF Inv
<1>1. CASE UNCHANGED vars
  BY <1>1 DEF vars, history, IsLive
<1>2. CASE LinkLost \/ DispatcherStep \/ Shutdown
  BY <1>0, <1>2 DEF LinkLost, DispatcherStep, LossNoticed, Reconnect, ResetTells, ResetClears,
                    Shutdown, history, IsLive, TypeOK
<1>3. ASSUME NEW r \in Request, SendWrites(r) \/ BrokerStep(r) \/ AbandonCancel(r) \/ WriteCancel(r)
      PROVE  ~IsLive(q)' \/ overtaken'[q]
  <2>1. CASE SendWrites(r)
    BY <1>0, <2>1 DEF SendWrites, IsLive, TypeOK
  <2>2. CASE BrokerStep(r)
    <3>1. IsLive(r) /\ (q # r => broker'[q] = broker[q])
      BY <1>0, <2>2, BrokerSays
    <3>2. overtaken' = overtaken
      BY <1>0, <2>2 DEF BrokerStep, BrokerInforms, BrokerSendsBars, BrokerEnds, Says, history
    <3> QED  BY <3>1, <3>2 DEF IsLive
  <2>3. CASE AbandonCancel(r) \/ WriteCancel(r)
    BY <1>0, <2>3 DEF AbandonCancel, WriteCancel, IsLive, TypeOK, history
  <2> QED  BY <1>3, <2>1, <2>2, <2>3
<1>4. ASSUME NEW r \in Request,
             Send(r) \/ SendFails(r) \/ Reads(r) \/ CallCancel(r) \/ WriteCancelFails(r)
               \/ FinishCancel(r) \/ Drop(r) \/ Cleanup(r)
      PROVE  ~IsLive(q)' \/ overtaken'[q]
  BY <1>4 DEF Send, SendFails, Reads, ReadsOn, ReadsEnd, ReadsLagged, ReadsClosed, EndsWith,
              CallCancel, WriteCancelFails, FinishCancel, Drop, Cleanup, history, IsLive
<1> QED  BY <1>1, <1>2, <1>3, <1>4 DEF Next, SendStep, CancelStep

LEMMA ReadStep ==
    ASSUME Inv, [Next]_vars, NEW q \in Request
    PROVE  ReadInv(q)'
<1>0. TypeOK /\ ServedInv(q) /\ UnsentInv(q) /\ LogInv(q) /\ ReadInv(q)
  BY DEF Inv, RequestInv
<1>a. state[q] # "Open" => handle[q] # "sending"
  BY <1>0 DEF UnsentInv
<1>b. state[q] # "Open" => ~IsLive(q)' \/ overtaken'[q]
  BY <1>0, <1>a, NotServedKept DEF ReadInv
<1> USE <1>0, <1>b
<1>1. CASE UNCHANGED vars
  BY <1>1, HandleKept DEF vars, answer
<1>2. CASE LinkLost \/ DispatcherStep \/ Shutdown
  BY <1>2, HandleKept DEF LinkLost, DispatcherStep, LossNoticed, Reconnect, ResetTells, ResetClears,
                          Shutdown, answer
<1>3. ASSUME NEW r \in Request,
             Send(r) \/ SendStep(r) \/ BrokerStep(r) \/ CallCancel(r) \/ WriteCancel(r)
               \/ WriteCancelFails(r) \/ AbandonCancel(r) \/ Drop(r) \/ Cleanup(r)
      PROVE  ReadInv(q)'
  <2>1. UNCHANGED <<answer, state>>
    BY <1>3 DEF Send, SendStep, SendWrites, SendFails, BrokerStep, BrokerInforms, BrokerSendsBars,
                BrokerEnds, Says, CallCancel, WriteCancel, WriteCancelFails, AbandonCancel, Drop,
                Cleanup
  <2> QED  BY <2>1, HandleKept DEF answer
<1>4. ASSUME NEW r \in Request, FinishCancel(r)
      PROVE  ReadInv(q)'
  <2>1. UNCHANGED <<answer, broker>> /\ (q # r => state'[q] = state[q]) /\ call[r] = "wrote"
    BY <1>4 DEF FinishCancel, TypeOK
  <2>2. q = r => ~IsLive(q)'
    BY <2>1 DEF ServedInv, IsLive
  <2> QED  BY <2>1, <2>2, HandleKept DEF answer
<1>5. ASSUME NEW r \in Request, Reads(r), q # r
      PROVE  ReadInv(q)'
  <2>1. /\ pos'[q] = pos[q] /\ data'[q] = data[q] /\ notices'[q] = notices[q]
        /\ ended'[q] = ended[q] /\ state'[q] = state[q]
    BY <1>5 DEF Reads, ReadsOn, ReadsEnd, ReadsLagged, ReadsClosed, EndsWith, TypeOK
  <2> QED  BY <2>1, HandleKept
<1>6. CASE ReadsOn(q)
  <2> DEFINE item == log[q][pos[q] + 1]
  <2>1. /\ GoesOn(q, item) /\ UNCHANGED <<log, ended, state, broker, overtaken>>
        /\ pos'[q] = pos[q] + 1
        /\ data'[q] = (data[q] \/ item = "data")
        /\ notices'[q] = IF item = "info" THEN notices[q] \union {pos[q] + 1} ELSE notices[q]
        /\ ended[q] = "none"
    BY <1>6 DEF ReadsOn, TypeOK, channel, history, IsAnswering
  <2>2. pos[q] \in Nat
    BY DEF TypeOK
  <2>3. item # "code"
    BY <2>1 DEF GoesOn
  <2>4. 1..(pos[q] + 1) = 1..pos[q] \union {pos[q] + 1}
    BY <2>2
  <2>5. notices'[q] = {n \in 1..pos'[q] : log'[q][n] \in {"info", "code"}}
    <3>1. {n \in 1..(pos[q] + 1) : log[q][n] \in {"info", "code"}}
            = {n \in 1..pos[q] : log[q][n] \in {"info", "code"}}
                \union {n \in {pos[q] + 1} : log[q][n] \in {"info", "code"}}
      BY <2>4
    <3> QED  BY <2>1, <2>3, <3>1 DEF ReadInv
  <2>6. data'[q] => \E n \in 1..pos'[q] : log'[q][n] = "data"
    BY <2>1, <2>4 DEF ReadInv
  <2> QED  BY <2>1, <2>5, <2>6 DEF ReadInv, IsLive
<1>7. CASE ReadsEnd(q)
  <2> DEFINE item == log[q][pos[q] + 1]
  <2>1. /\ ~GoesOn(q, item) /\ UNCHANGED <<log, data, broker, overtaken, said>>
        /\ pos'[q] = pos[q] + 1
        /\ notices'[q] = IF item = "code" THEN notices[q] \union {pos[q] + 1} ELSE notices[q]
        /\ ended'[q] = ResultOf(q, item)
        /\ state'[q] = IF ProvesOver(q, item) THEN "Ended" ELSE state[q]
        /\ handle[q] = "held"
    BY <1>7 DEF ReadsEnd, EndsWith, TypeOK, channel, history, IsAnswering
  <2>2. pos[q] \in Nat /\ pos[q] + 1 \in 1..Len(log[q])
    BY <1>7 DEF ReadsEnd, HasItem, TypeOK
  <2>3. item # "info"
    BY <2>1 DEF GoesOn
  <2>4. 1..(pos[q] + 1) = 1..pos[q] \union {pos[q] + 1}
    BY <2>2
  <2>5. notices'[q] = {n \in 1..pos'[q] : log'[q][n] \in {"info", "code"}}
    <3>1. {n \in 1..(pos[q] + 1) : log[q][n] \in {"info", "code"}}
            = {n \in 1..pos[q] : log[q][n] \in {"info", "code"}}
                \union {n \in {pos[q] + 1} : log[q][n] \in {"info", "code"}}
      BY <2>4
    <3> QED  BY <2>1, <2>3, <3>1 DEF ReadInv
  <2>6. data'[q] => \E n \in 1..pos'[q] : log'[q][n] = "data"
    BY <2>1, <2>4 DEF ReadInv
  <2>7. ended'[q] = "ok" => pos'[q] > 0 /\ log'[q][pos'[q]] = "end" /\ data'[q]
    BY <2>1, <2>2 DEF ResultOf
  <2>8. ended'[q] = "code" => pos'[q] > 0 /\ log'[q][pos'[q]] = "code"
    BY <2>1, <2>2 DEF ResultOf
  <2>9. ProvesOver(q, item) => ~IsLive(q) \/ overtaken[q]
    BY <2>1, <2>2 DEF ProvesOver, LogInv, IsLive, Ends
  <2>10. state'[q] # "Open" => ~IsLive(q)' \/ overtaken'[q]
    BY <2>1, <2>9 DEF ReadInv, IsLive
  <2> QED  BY <2>5, <2>6, <2>7, <2>8, <2>10 DEF ReadInv
<1>8. CASE ReadsLagged(q) \/ ReadsClosed(q)
  <2>1. /\ UNCHANGED <<log, data, pos, notices, broker, overtaken>>
        /\ ended'[q] \in {"lagged", "interrupted"}
        /\ state'[q] # "Open" => state[q] # "Open" \/ (handle[q] = "held" /\ ~entry[q])
    BY <1>8 DEF ReadsLagged, ReadsClosed, EndsWith, TypeOK, channel, history, IsAnswering
  <2>2. state'[q] # "Open" => ~IsLive(q)' \/ overtaken'[q]
    BY <2>1 DEF ReadInv, LogInv, IsLive
  <2> QED  BY <2>1, <2>2 DEF ReadInv
<1>9. ASSUME NEW r \in Request, Reads(r)
      PROVE  ReadInv(q)'
  BY <1>5, <1>6, <1>7, <1>8, <1>9 DEF Reads
<1> QED  BY <1>1, <1>2, <1>3, <1>4, <1>9 DEF Next, CancelStep

-----------------------------------------------------------------------------
(* Theorems *)

LEMMA InvHolds == Spec => []Inv
<1>1. Init => Inv
  <2> SUFFICES ASSUME Init PROVE Inv
    OBVIOUS
  <2>1. TypeOK
    BY BoundAssumption DEF Init, TypeOK, Result
  <2>2. ASSUME NEW r \in Request PROVE RequestInv(r)
    <3>1. ServedInv(r)
      BY DEF Init, ServedInv, IsLive
    <3>2. UnsentInv(r)
      BY DEF Init, UnsentInv
    <3>3. LogInv(r)
      BY DEF Init, LogInv, IsLive
    <3>4. ReadInv(r)
      BY DEF Init, ReadInv
    <3> QED  BY <3>1, <3>2, <3>3, <3>4 DEF RequestInv
  <2> QED  BY <2>1, <2>2 DEF Inv, Init, LinkInv
<1>2. Inv /\ [Next]_vars => Inv'
  <2> SUFFICES ASSUME Inv, [Next]_vars PROVE Inv'
    OBVIOUS
  <2>1. TypeOK' /\ LinkInv'
    BY TypeStep, LinkStep DEF Inv
  <2>2. ASSUME NEW r \in Request PROVE RequestInv(r)'
    BY ServedStep, UnsentStep, LogStep, ReadStep DEF RequestInv
  <2> QED  BY <2>1, <2>2 DEF Inv
<1> QED  BY <1>1, <1>2, PTL DEF Spec

\* An answer that ends by the broker's word holds all it said, with its codes.
THEOREM AnswersAreComplete == Spec => []CompleteMeansAll
<1>1. Inv => CompleteMeansAll
  <2> SUFFICES ASSUME Inv, NEW r \in Request, ended[r] \in {"ok", "code"}
               PROVE  /\ broker[r] = "over" /\ said[r] = pos[r]
                      /\ notices[r] = {n \in 1..pos[r] : log[r][n] \in {"info", "code"}}
                      /\ ended[r] = "ok" => \E n \in 1..pos[r] : log[r][n] = "data"
    BY DEF CompleteMeansAll
  <2>1. TypeOK /\ LogInv(r) /\ ReadInv(r)
    BY DEF Inv, RequestInv
  <2>2. pos[r] \in 1..Len(log[r]) /\ log[r][pos[r]] \in Ends
    BY <2>1 DEF ReadInv, TypeOK, Ends
  <2>3. broker[r] = "over" /\ said[r] = pos[r]
    BY <2>1, <2>2 DEF LogInv
  <2> QED  BY <2>1, <2>3 DEF ReadInv
<1> QED  BY <1>1, InvHolds, PTL

\* A request the broker may serve is open, unless a reset overtook it.
THEOREM ServedIsOpen == Spec => []OpenWhileServed
<1>1. Inv => OpenWhileServed
  BY DEF Inv, RequestInv, ReadInv, OpenWhileServed
<1> QED  BY <1>1, InvHolds, PTL
=============================================================================
