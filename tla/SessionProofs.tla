---------------------------- MODULE SessionProofs ----------------------------
(* What the handshake guarantees of a connected bus, what a call's retries are *)
(* owed to, and where the order ids come from, for any number of calls,        *)
(* losses, retries and reconnect attempts.  ConnectedMeansServed is about the  *)
(* flag; what carries it is what the broker may have said at each phase of the *)
(* handshake, so that a message read as account information can only come from *)
(* a broker that was sent start api.                                           *)
EXTENDS Session, SequenceTheorems, FiniteSetTheorems, FunctionTheorems, TLAPS

\* The phases of a bus whose handshake has succeeded.
Ready == ResetPhases \cup {"reading"}

\* What each phase knows of the broker.
Handshaken ==
  /\ phase = "version" => served = "nothing"
  /\ phase = "ack" => served # "api"
  /\ phase = "api" => served = "acked"
  /\ phase = "account" => served \in {"acked", "api"}
  /\ phase \in Ready \cup {"retrying"} => served = "api"
  /\ phase \in Ready \cup {"api", "account"} => "version" \in metadata
  /\ phase = "stopped" => link = "closed"
  /\ connected => phase \in Ready

\* What the broker has said, by what it was sent.
SaidOnlyAsServed ==
  /\ served \in {"nothing", "version"} => wire = <<>>
  /\ served = "acked" /\ phase # "ack" => wire = <<>>
  /\ served = "acked" /\ phase = "ack" => Len(wire) <= 1
  /\ greeting # {} => served = "api"
  /\ asked # {} => served = "api"

Inv == TypeOK /\ Handshaken /\ SaidOnlyAsServed

USE DEF Phases, HandshakePhases, ResetPhases, Ready, Known

LEMMA PlainTypes ==
  ASSUME NEW k \in {"ack", "old", "refused", "id", "accounts", "other"}
  PROVE  Plain(k) \in Messages
BY CallsAssumption DEF Plain, Messages

LEMMA WireGrows ==
  ASSUME wire \in Seq(Messages), NEW m \in Messages, wire' = Append(wire, m)
  PROVE  wire' \in Seq(Messages) /\ Len(wire') = Len(wire) + 1
OBVIOUS

LEMMA WireShrinks ==
  ASSUME wire \in Seq(Messages), NEW n \in 0..Len(wire), wire' = SubSeq(wire, 1, n)
  PROVE  /\ wire' \in Seq(Messages) /\ (Len(wire) <= 1 => Len(wire') <= 1)
         /\ wire = <<>> => wire' = <<>>
<1>1. n \in Int /\ n <= Len(wire) /\ n >= 0 /\ Len(wire) \in Nat
  OBVIOUS
<1>2. Len(SubSeq(wire, 1, n)) = n
  BY <1>1
<1>3. SubSeq(wire, 1, n) \in Seq(Messages)
  <2>1. \A i \in 1..n : wire[i] \in Messages
    BY <1>1
  <2> QED  BY <1>1, <2>1
<1>4. wire = <<>> => n = 0
  BY <1>1
<1>5. n = 0 => SubSeq(wire, 1, n) = <<>>
  BY <1>2, <1>3
<1> QED  BY <1>1, <1>2, <1>3, <1>4, <1>5

LEMMA LastRead ==
  ASSUME wire \in Seq(Messages), wire # <<>>, Len(wire) <= 1
  PROVE  Tail(wire) = <<>>
<1>1. Len(wire) \in Nat \ {0} /\ Tail(wire) \in Seq(Messages) /\ Len(Tail(wire)) = Len(wire) - 1
  BY EmptySeq, HeadTailProperties
<1>2. Len(Tail(wire)) = 0
  BY <1>1
<1> QED  BY <1>1, <1>2, EmptySeq

LEMMA LossesCount ==
  ASSUME losses \in 0..MaxLosses, losses < MaxLosses
  PROVE  losses + 1 \in 0..MaxLosses
BY LimitsAssumption

LEMMA ShelfGrows ==
  ASSUME shelf \in Seq(Items), NEW item \in Items
  PROVE  Append(shelf, item) \in Seq(Items)
OBVIOUS

LEMMA QueueTypes ==
  ASSUME CallTypes, NEW callers, NEW item \in Items
  PROVE  ToAll(callers, item) \in [Calls -> Seq(Items)]
BY DEF CallTypes, ToAll

LEMMA GoneTypes ==
  ASSUME CallTypes, NEW callers
  PROVE  SendersGo(callers) \in [Calls -> BOOLEAN]
BY Zenon DEF CallTypes, SendersGo

-------------------------------------------------------------------------------
(* Steps of the connection alone. *)

LEMMA HandshakeKeeps ==
  ASSUME Inv, HandshakeStep, UNCHANGED <<callVars, asked>>
  PROVE  Inv'
<1> USE LimitsAssumption DEF Inv, TypeOK, ConnectionTypes, Handshaken, SaidOnlyAsServed
<1>1. CallTypes'
  BY DEF CallTypes, callVars
<1>2. CASE SendVersion
  BY <1>1, <1>2 DEF SendVersion, Reaches
<1>3. CASE ReadAck
  <2>1. served = "acked" /\ Len(wire) <= 1
    BY <1>3 DEF ReadAck
  <2>2. wire' = <<>>
    <3>1. wire \in Seq(Messages) /\ wire # <<>> /\ wire' = Tail(wire)
      BY <1>3 DEF ReadAck
    <3> QED  BY <2>1, <3>1, LastRead
  <2> QED  BY <1>1, <1>3, <2>1, <2>2 DEF ReadAck
<1>4. CASE StartApi
  BY <1>1, <1>4 DEF StartApi, Reaches
<1>5. CASE ReadAccountInfo
  <2>1. served = "api"
    BY <1>5 DEF ReadAccountInfo
  <2>2. wire' \in Seq(Messages) /\ Merged \subseteq Known
    BY <1>5 DEF ReadAccountInfo, Merged, Found
  <2>3. CASE Established(Merged)
    BY <1>1, <1>5, <2>1, <2>2, <2>3 DEF ReadAccountInfo, Established
  <2>4. CASE /\ ~ (seen + 1 > MaxMessages)
             /\ info' = Merged /\ seen' = seen + 1 /\ UNCHANGED <<phase, metadata, orderIds, connected>>
    BY <1>1, <1>5, <2>1, <2>2, <2>4 DEF ReadAccountInfo
  <2> QED  BY <1>5, <2>3, <2>4 DEF ReadAccountInfo
<1> QED  BY <1>2, <1>3, <1>4, <1>5 DEF HandshakeStep

LEMMA BrokerKeeps ==
  ASSUME Inv, BrokerAcks \/ BrokerGreets \/ BrokerRefuses \/ LinkLost, UNCHANGED <<callVars, asked>>
  PROVE  Inv'
<1> USE LimitsAssumption DEF Inv, TypeOK, ConnectionTypes, Handshaken, SaidOnlyAsServed
<1>1. CallTypes'
  BY DEF CallTypes, callVars
<1>2. CASE BrokerAcks
  <2>1. PICK k \in {"ack", "old"} : wire' = Append(wire, Plain(k))
    BY <1>2 DEF BrokerAcks, Says
  <2>2. wire = <<>> /\ phase = "ack"
    BY <1>2 DEF BrokerAcks
  <2>3. wire' \in Seq(Messages) /\ Len(wire') = 1
    BY <2>1, <2>2, PlainTypes, WireGrows
  <2> QED  BY <1>1, <1>2, <2>2, <2>3 DEF BrokerAcks, dispatcher, callVars
<1>3. CASE BrokerGreets
  <2>1. PICK k \in greeting : wire' = Append(wire, Plain(k)) /\ greeting' = greeting \ {k}
    BY <1>3 DEF BrokerGreets, Says
  <2>2. wire' \in Seq(Messages)
    <3>1. Plain(k) \in Messages
      BY <2>1, PlainTypes
    <3> QED  BY <2>1, <3>1, WireGrows
  <2> QED  BY <1>1, <1>3, <2>1, <2>2 DEF BrokerGreets, dispatcher, callVars
<1>4. CASE BrokerRefuses
  <2>1. wire' \in Seq(Messages)
    BY <1>4, PlainTypes, WireGrows DEF BrokerRefuses, Says
  <2>2. losses' \in 0..MaxLosses
    BY <1>4, LossesCount DEF BrokerRefuses
  <2> QED  BY <1>1, <1>4, <2>1, <2>2 DEF BrokerRefuses, dispatcher, callVars
<1>5. CASE LinkLost
  <2>1. PICK n \in 0..Len(wire) : wire' = SubSeq(wire, 1, n)
    BY <1>5 DEF LinkLost
  <2>2. /\ wire' \in Seq(Messages) /\ (Len(wire) <= 1 => Len(wire') <= 1)
        /\ wire = <<>> => wire' = <<>>
    BY <2>1, WireShrinks
  <2>3. losses' \in 0..MaxLosses
    BY <1>5, LossesCount DEF LinkLost
  <2>4. SaidOnlyAsServed'
    BY <1>5, <2>2 DEF LinkLost, dispatcher
  <2> QED  BY <1>1, <1>5, <2>2, <2>3, <2>4 DEF LinkLost, dispatcher
<1> QED  BY <1>2, <1>3, <1>4, <1>5

LEMMA ReconnectKeeps ==
  ASSUME Inv,
         \/ (StartReconnect \/ AttemptFails) /\ UNCHANGED <<callVars, asked>>
         \/ NewConnection
  PROVE  Inv'
<1> USE LimitsAssumption DEF Inv, TypeOK, ConnectionTypes, Handshaken, SaidOnlyAsServed
<1>1. CallTypes'
  BY DEF CallTypes, callVars, NewConnection
<1>2. CASE StartReconnect /\ UNCHANGED <<callVars, asked>>
  BY <1>1, <1>2 DEF StartReconnect, LossNoticed, broker
<1>3. CASE AttemptFails /\ UNCHANGED <<callVars, asked>>
  BY <1>1, <1>3 DEF AttemptFails, broker
<1>4. CASE NewConnection
  <2>1. wire' \in Seq(Messages)
    BY <1>4 DEF NewConnection, Reconnect
  <2> QED  BY <1>1, <1>4, <2>1 DEF NewConnection, Reconnect
<1> QED  BY <1>2, <1>3, <1>4

LEMMA StopKeeps ==
  ASSUME Inv, StopsTheBus
  PROVE  Inv'
<1> USE LimitsAssumption DEF Inv, TypeOK
<1>1. Stops /\ Shutdown /\ asked' = {}
  BY DEF StopsTheBus, HandshakeFails, GivesUp, LastAttemptFails
<1>2. <<>> \in Seq(Messages)
  OBVIOUS
<1>3. ConnectionTypes'
  <2>1. 0 \in 0..MaxAttempts /\ 0 \in 0..MaxMessages
    OBVIOUS
  <2> QED  BY <1>1, <1>2, <2>1 DEF Stops, ConnectionTypes
<1>4. Handshaken' /\ SaidOnlyAsServed'
  BY <1>1 DEF Stops, Handshaken, SaidOnlyAsServed
<1>5. CallTypes'
  <2>1. queue' \in [Calls -> Seq(Items)] /\ shelf' \in Seq(Items)
    BY <1>1, QueueTypes DEF Shutdown, CallTypes, Items
  <2>2. gone' \in [Calls -> BOOLEAN] /\ entry' \in [Calls -> BOOLEAN]
    BY <1>1, GoneTypes, Zenon DEF Shutdown
  <2> QED  BY <1>1, <2>1, <2>2 DEF Shutdown, CallTypes
<1> QED  BY <1>3, <1>4, <1>5

-------------------------------------------------------------------------------
(* Steps of the bus and of the calls. *)

LEMMA DispatchKeeps ==
  ASSUME Inv, Dispatch
  PROVE  Inv'
<1> USE DEF Inv, TypeOK
<1>1. PICK callers : queue' = ToAll(callers, "answer")
  BY DEF Dispatch
<1>2. queue' \in [Calls -> Seq(Items)] /\ shelf' \in Seq(Items)
  BY <1>1, QueueTypes DEF Dispatch, CallTypes, Items
<1>3. CallTypes'
  BY <1>2 DEF Dispatch, CallTypes
<1>4. wire' \in Seq(Messages)
  BY DEF Dispatch, ConnectionTypes
<1>5. ConnectionTypes' /\ Handshaken' /\ SaidOnlyAsServed'
  BY <1>4 DEF Dispatch, ConnectionTypes, Handshaken, SaidOnlyAsServed, dispatcher
<1> QED  BY <1>3, <1>5

LEMMA ResetKeeps ==
  ASSUME Inv, ResetTells \/ ResetTellsShared \/ ResetClears
  PROVE  Inv'
<1> USE DEF Inv, TypeOK, NotConnection, broker
<1>1. ConnectionTypes' /\ Handshaken' /\ SaidOnlyAsServed'
  BY DEF ResetTells, ResetTellsShared, ResetClears, ConnectionTypes, Handshaken, SaidOnlyAsServed
<1>2. CASE ResetTells
  BY <1>1, <1>2, QueueTypes DEF ResetTells, CallTypes, Items
<1>3. CASE ResetTellsShared
  <2>1. shelf' \in Seq(Items)
    BY <1>3, ShelfGrows DEF ResetTellsShared, CallTypes, Items
  <2> QED  BY <1>1, <1>3, <2>1 DEF ResetTellsShared, CallTypes
<1>4. CASE ResetClears
  <2>1. gone' \in [Calls -> BOOLEAN] /\ entry' \in [Calls -> BOOLEAN]
    BY <1>4, GoneTypes, Zenon DEF ResetClears
  <2> QED  BY <1>1, <1>4, <2>1 DEF ResetClears, CallTypes
<1> QED  BY <1>2, <1>3, <1>4

LEMMA AnswerKeeps ==
  ASSUME Inv, BrokerAnswers
  PROVE  Inv'
<1> USE DEF Inv, TypeOK
<1>1. PICK m \in asked :
        /\ wire' = Append(wire, [m EXCEPT !.kind = IF @ = "shared" THEN "accounts" ELSE @])
        /\ asked' = asked \ {m}
  BY DEF BrokerAnswers
<1>2. [m EXCEPT !.kind = IF @ = "shared" THEN "accounts" ELSE @] \in Messages
  BY <1>1 DEF CallTypes, Messages, Kinds
<1>3. wire' \in Seq(Messages)
  BY <1>1, <1>2, WireGrows DEF ConnectionTypes
<1>4. served = "api"
  BY <1>1 DEF SaidOnlyAsServed
<1> QED  BY <1>1, <1>3, <1>4
         DEF BrokerAnswers, ConnectionTypes, CallTypes, Handshaken, SaidOnlyAsServed, callVars, dispatcher

\* What a call does leaves the connection alone.
LEMMA CallsLeaveConnection ==
  ASSUME Inv, UNCHANGED connection, asked # asked' => served = "api"
  PROVE  ConnectionTypes' /\ Handshaken' /\ SaidOnlyAsServed'
BY DEF Inv, TypeOK, ConnectionTypes, Handshaken, SaidOnlyAsServed, connection, dispatcher, broker

LEMMA RegisterTypes ==
  ASSUME CallTypes, NEW c \in Calls, NEW k \in Kinds \cup {"unmade"}, Registers(c, k)
  PROVE  /\ state' \in [Calls -> {"idle", "registered", "waiting", "done"}]
         /\ entry' \in [Calls -> BOOLEAN] /\ gone' \in [Calls -> BOOLEAN]
         /\ queue' \in [Calls -> Seq(Items)]
<1>1. entry' \in [Calls -> BOOLEAN] /\ gone' \in [Calls -> BOOLEAN]
  BY Zenon DEF CallTypes, Registers
<1>2. queue' \in [Calls -> Seq(Items)]
  BY DEF CallTypes, Registers
<1> QED  BY <1>1, <1>2 DEF CallTypes, Registers

LEMMA EndTypes ==
  ASSUME CallTypes, NEW c \in Calls, NEW r \in Results, Ended(c, r)
  PROVE  /\ state' \in [Calls -> {"idle", "registered", "waiting", "done"}]
         /\ entry' \in [Calls -> BOOLEAN] /\ gone' \in [Calls -> BOOLEAN]
         /\ queue' \in [Calls -> Seq(Items)]
         /\ try' \in [Calls -> 0..MaxRetries] /\ result' \in [Calls -> Results]
<1>1. entry' \in [Calls -> BOOLEAN] /\ gone' \in [Calls -> BOOLEAN]
  BY Zenon DEF CallTypes, Ended
<1>2. queue' \in [Calls -> Seq(Items)] /\ try' \in [Calls -> 0..MaxRetries]
  BY CallsAssumption DEF CallTypes, Ended
<1> QED  BY <1>1, <1>2 DEF CallTypes, Ended

LEMMA GetTypes ==
  ASSUME CallTypes, NEW c \in Calls, state[c] = "waiting", NEW item \in Items, Gets(c, item),
         UNCHANGED <<kind, asked>>, shelf' \in Seq(Items)
  PROVE  CallTypes'
<1>1. CASE item = "Reset" /\ Retries(c)
  <2>1. Registers(c, kind[c]) /\ UNCHANGED result
    BY <1>1 DEF Gets
  <2>2. try' \in [Calls -> 0..MaxRetries]
    <3>1. try' = [try EXCEPT ![c] = @ + 1] /\ try \in [Calls -> 0..MaxRetries] /\ try[c] < MaxRetries
      BY <1>1 DEF Gets, Retries, CallTypes
    <3>2. try[c] + 1 \in 0..MaxRetries
      BY <3>1, CallsAssumption
    <3> QED  BY <3>1, <3>2
  <2>3. state' = [state EXCEPT ![c] = "registered"]
    BY <2>1 DEF Registers
  <2> QED  BY <2>1, <2>2, <2>3, RegisterTypes DEF CallTypes
<1>2. CASE ~ (item = "Reset" /\ Retries(c))
  <2>1. PICK r \in Results : Ended(c, r)
    BY <1>2 DEF Gets, Items, Results
  <2>2. state' = [state EXCEPT ![c] = "done"]
    BY <2>1 DEF Ended
  <2> QED  BY <2>1, <2>2, EndTypes DEF CallTypes
<1> QED  BY <1>1, <1>2

LEMMA CallKeeps ==
  ASSUME Inv, NEW c \in Calls, Call(c) \/ CallStep(c)
  PROVE  Inv'
<1> USE DEF Inv, TypeOK
<1>1. CASE Call(c)
  <2>1. PICK k \in Kinds : kind' = [kind EXCEPT ![c] = k] /\ Registers(c, k)
    BY <1>1 DEF Call
  <2>2. state' = [state EXCEPT ![c] = "registered"]
    BY <2>1 DEF Registers
  <2>3. CallTypes'
    <3>1. kind' \in [Calls -> Kinds \cup {"unmade"}] /\ kind'[c] # "unmade"
      BY <2>1 DEF CallTypes, Kinds
    <3>2. \A d \in Calls : kind'[d] = "unmade" => state'[d] = "idle"
      BY <2>1, <2>2, <3>1 DEF CallTypes
    <3> QED  BY <1>1, <2>1, <3>1, <3>2, RegisterTypes DEF Call, CallTypes
  <2> QED  BY <1>1, <2>3, CallsLeaveConnection DEF Call
<1>2. CASE Write(c)
  <2>1. kind[c] \in Kinds
    BY <1>2 DEF Write, CallTypes, Kinds
  <2>2. CallTypes'
    BY <1>2, <2>1 DEF Write, CallTypes
  <2>3. asked # asked' => served = "api"
    BY <1>2 DEF Write
  <2> QED  BY <1>2, <2>2, <2>3, CallsLeaveConnection DEF Write
<1>3. CASE WriteFails(c)
  <2>1. entry' \in [Calls -> BOOLEAN] /\ gone' \in [Calls -> BOOLEAN]
    BY <1>3, Zenon DEF WriteFails, CallTypes
  <2>2. queue' \in [Calls -> Seq(Items)] /\ try' \in [Calls -> 0..MaxRetries]
    BY <1>3, CallsAssumption DEF WriteFails, CallTypes
  <2>3. CallTypes'
    BY <1>3, <2>1, <2>2 DEF WriteFails, CallTypes, Results
  <2> QED  BY <1>3, <2>3, CallsLeaveConnection DEF WriteFails
<1>4. CASE Receive(c)
  <2>1. Head(queue[c]) \in Items
    BY <1>4 DEF Receive, CallTypes
  <2>2. CallTypes'
    BY <1>4, <2>1, GetTypes DEF Receive, CallTypes
  <2> QED  BY <1>4, <2>2, CallsLeaveConnection DEF Receive
<1>5. CASE ReceiveShared(c)
  <2>1. Head(shelf) \in Items /\ Tail(shelf) \in Seq(Items)
    BY <1>5 DEF ReceiveShared, CallTypes
  <2>2. CallTypes'
    BY <1>5, <2>1, GetTypes DEF ReceiveShared
  <2> QED  BY <1>5, <2>2, CallsLeaveConnection DEF ReceiveShared
<1>6. CASE ReceiveNone(c)
  <2>1. Ended(c, "none") /\ "none" \in Results
    BY <1>6 DEF ReceiveNone, Results
  <2>2. state' = [state EXCEPT ![c] = "done"]
    BY <2>1 DEF Ended
  <2>3. CallTypes'
    BY <1>6, <2>1, <2>2, EndTypes DEF ReceiveNone, CallTypes
  <2> QED  BY <1>6, <2>3, CallsLeaveConnection DEF ReceiveNone
<1> QED  BY <1>1, <1>2, <1>3, <1>4, <1>5, <1>6 DEF CallStep

-------------------------------------------------------------------------------
LEMMA InvHolds == Spec => []Inv
<1>1. Init => Inv
  <2> SUFFICES ASSUME Init
               PROVE  Inv
    OBVIOUS
  <2>1. ConnectionTypes /\ Handshaken /\ SaidOnlyAsServed
    <3>1. <<>> \in Seq(Messages)
      OBVIOUS
    <3>2. 0 \in 0..MaxAttempts /\ 0 \in 0..MaxMessages /\ 0 \in 0..MaxLosses
      BY LimitsAssumption
    <3> QED  BY <3>1, <3>2 DEF Init, ConnectionInit, ConnectionTypes, Handshaken, SaidOnlyAsServed
  <2>2. entry \in [Calls -> BOOLEAN] /\ gone \in [Calls -> BOOLEAN]
    BY Zenon DEF Init
  <2>3. queue \in [Calls -> Seq(Items)] /\ shelf \in Seq(Items)
    BY DEF Init
  <2>4. try \in [Calls -> 0..MaxRetries] /\ result \in [Calls -> Results]
    BY CallsAssumption DEF Init, Results
  <2>5. CallTypes
    BY <2>2, <2>3, <2>4 DEF Init, CallTypes
  <2> QED  BY <2>1, <2>5 DEF Inv, TypeOK
<1>2. Inv /\ [Next]_vars => Inv'
  <2> SUFFICES ASSUME Inv, [Next]_vars
               PROVE  Inv'
    OBVIOUS
  <2>1. CASE UNCHANGED vars
    BY <2>1 DEF vars, callVars, connection, dispatcher, broker, Inv, TypeOK, ConnectionTypes, CallTypes,
                Handshaken, SaidOnlyAsServed
  <2>2. CASE DispatcherStep
    BY <2>2, HandshakeKeeps, ReconnectKeeps, StopKeeps, DispatchKeeps, ResetKeeps DEF DispatcherStep
  <2>3. CASE BrokerStep
    BY <2>3, BrokerKeeps, AnswerKeeps DEF BrokerStep
  <2>4. CASE (BrokerRefuses \/ LinkLost) /\ UNCHANGED <<callVars, asked>>
    BY <2>4, BrokerKeeps
  <2>5. CASE \E c \in Calls : Call(c) \/ CallStep(c)
    BY <2>5, CallKeeps
  <2> QED  BY <2>1, <2>2, <2>3, <2>4, <2>5 DEF Next
<1> QED  BY <1>1, <1>2, PTL DEF Spec

\* Every variable keeps its type: no more attempts, messages and retries are
\* counted than the client allows, and whatever is queued for a call is an answer,
\* a reset or the shutdown.
THEOREM SessionTypesHold == Spec => []TypeOK
<1>1. Inv => TypeOK
  BY DEF Inv
<1> QED  BY <1>1, InvHolds, PTL

\* A bus that says it is connected has sent the whole handshake to the broker at
\* the other end of its present connection and knows its version, whatever was
\* lost, retried or refused before.
THEOREM ConnectedIsServed == Spec => []ConnectedMeansServed
<1>1. Inv => ConnectedMeansServed
  BY DEF Inv, Handshaken, ConnectedMeansServed
<1> QED  BY <1>1, InvHolds, PTL

-------------------------------------------------------------------------------
(* Resets are losses.  A call meets a reset by taking one out of its queue, or *)
(* out of the shared one; there it was put by a reset of the bus, and that is  *)
(* owed to a loss of its own.  So a call's retries, the resets still in the    *)
(* queue and the one the bus is about to put there are together no more than   *)
(* the losses.                                                                 *)

ResetsAt(s) == {i \in DOMAIN s : s[i] = "Reset"}
ResetsIn(s) == Cardinality(ResetsAt(s))

\* The resets the bus has still to put into queues that are told in one of the
\* phases: for the reconnect it is in, and for a loss it has not noticed.
Resetting(phases) == phase \in phases \/ (phase \in HandshakePhases /\ Built)
Unnoticed == link = "lost" /\ phase # "retrying"

Due(phases) ==
  IF Resetting(phases) THEN IF Unnoticed THEN 2 ELSE 1 ELSE IF Unnoticed THEN 1 ELSE 0

OwnPhases == {"retrying", "tell"}
SharedPhases == {"retrying", "tell", "tell shared"}

LossInv ==
  /\ ResetsIn(shelf) + Due(SharedPhases) <= losses
  /\ \A c \in Calls :
       /\ entry[c] => kind[c] = "own"
       /\ state[c] = "idle" => try[c] = 0
       /\ kind[c] = "own" => try[c] + ResetsIn(queue[c]) + Due(OwnPhases) <= losses
       /\ kind[c] = "shared" => /\ try[c] + ResetsIn(shelf) + Due(SharedPhases) <= losses
                                /\ ResetsIn(queue[c]) = 0
       /\ result[c] = "reset" => losses > MaxRetries

LEMMA ResetsCount ==
  ASSUME NEW s \in Seq(Items)
  PROVE  IsFiniteSet(ResetsAt(s)) /\ ResetsIn(s) \in Nat
<1>1. ResetsAt(s) \subseteq 1..Len(s) /\ Len(s) \in Nat
  BY DEF ResetsAt
<1>2. IsFiniteSet(1..Len(s))
  BY <1>1, FS_Interval
<1>3. IsFiniteSet(ResetsAt(s))
  BY <1>1, <1>2, FS_Subset
<1> QED  BY <1>3, FS_CardinalityType DEF ResetsIn

LEMMA NoResetsInNone == ResetsIn(<<>>) = 0
<1>1. ResetsAt(<<>>) = {}
  BY DEF ResetsAt
<1> QED  BY <1>1, FS_EmptySet DEF ResetsIn

LEMMA ResetsAppended ==
  ASSUME NEW s \in Seq(Items), NEW item \in Items
  PROVE  ResetsIn(Append(s, item)) = ResetsIn(s) + (IF item = "Reset" THEN 1 ELSE 0)
<1> DEFINE t == Append(s, item)
           n == Len(s) + 1
<1>1. Len(s) \in Nat /\ DOMAIN s = 1..Len(s) /\ DOMAIN t = 1..n
      /\ t[n] = item /\ \A i \in 1..Len(s) : t[i] = s[i]
  OBVIOUS
<1>2. CASE item = "Reset"
  <2>1. ResetsAt(t) = ResetsAt(s) \cup {n} /\ n \notin ResetsAt(s)
    BY <1>1, <1>2 DEF ResetsAt
  <2> QED  BY <1>2, <2>1, ResetsCount, FS_AddElement DEF ResetsIn
<1>3. CASE item # "Reset"
  <2>1. ResetsAt(t) = ResetsAt(s)
    BY <1>1, <1>3 DEF ResetsAt
  <2> QED  BY <1>3, <2>1, ResetsCount DEF ResetsIn
<1> QED  BY <1>2, <1>3

LEMMA ResetsTaken ==
  ASSUME NEW s \in Seq(Items), s # <<>>
  PROVE  /\ Tail(s) \in Seq(Items)
         /\ ResetsIn(s) = ResetsIn(Tail(s)) + (IF Head(s) = "Reset" THEN 1 ELSE 0)
<1> DEFINE t == Tail(s)
           S == {i \in ResetsAt(s) : i # 1}
           f == [i \in ResetsAt(t) |-> i + 1]
<1>1. /\ Len(s) \in Nat \ {0} /\ DOMAIN s = 1..Len(s)
      /\ t \in Seq(Items) /\ Len(t) = Len(s) - 1 /\ DOMAIN t = 1..Len(t)
      /\ Head(s) = s[1] /\ \A i \in 1..Len(t) : t[i] = s[i + 1]
  BY EmptySeq, HeadTailProperties, LenProperties
<1>2. f \in Bijection(ResetsAt(t), S)
  <2>1. f \in [ResetsAt(t) -> S]
    BY <1>1 DEF ResetsAt
  <2>2. \A i, j \in ResetsAt(t) : f[i] = f[j] => i = j
    BY <1>1 DEF ResetsAt
  <2>3. ASSUME NEW j \in S
        PROVE  \E i \in ResetsAt(t) : f[i] = j
    <3>1. j - 1 \in ResetsAt(t) /\ f[j - 1] = j
      BY <1>1 DEF ResetsAt
    <3> QED  BY <3>1
  <2> QED  BY <2>1, <2>2, <2>3, Fun_IsBij
<1>3. IsFiniteSet(ResetsAt(t)) /\ ResetsIn(t) \in Nat /\ Cardinality(S) = ResetsIn(t) /\ IsFiniteSet(S)
  BY <1>1, <1>2, ResetsCount, FS_Bijection, Fun_ExistsBij DEF ResetsIn
<1>4. CASE Head(s) = "Reset"
  <2>1. ResetsAt(s) = S \cup {1} /\ 1 \notin S
    BY <1>1, <1>4 DEF ResetsAt
  <2> QED  BY <1>1, <1>3, <1>4, <2>1, FS_AddElement DEF ResetsIn
<1>5. CASE Head(s) # "Reset"
  <2>1. ResetsAt(s) = S
    BY <1>1, <1>5 DEF ResetsAt
  <2>2. ResetsIn(s) = Cardinality(S)
    BY <2>1 DEF ResetsIn
  <2> HIDE DEF S
  <2> QED  BY <1>1, <1>3, <1>5, <2>2
<1> QED  BY <1>1, <1>4, <1>5

LEMMA ResetsToAll ==
  ASSUME CallTypes, NEW callers, NEW item \in Items, NEW c \in Calls
  PROVE  ResetsIn(ToAll(callers, item)[c]) =
           ResetsIn(queue[c]) + (IF item = "Reset" /\ c \in callers /\ Outstanding(c) THEN 1 ELSE 0)
<1>1. queue[c] \in Seq(Items) /\ ResetsIn(queue[c]) \in Nat
  BY ResetsCount DEF CallTypes
<1>2. ToAll(callers, item)[c] =
        IF c \in callers /\ Outstanding(c) THEN Append(queue[c], item) ELSE queue[c]
  BY DEF ToAll
<1> QED  BY <1>1, <1>2, ResetsAppended

\* What the numbers of LossInv are.
LEMMA LossNumbers ==
  ASSUME TypeOK
  PROVE  /\ losses \in Nat /\ MaxRetries \in Nat /\ ResetsIn(shelf) \in Nat
         /\ \A c \in Calls : try[c] \in 0..MaxRetries /\ ResetsIn(queue[c]) \in Nat
         /\ Due(OwnPhases) \in Nat /\ Due(SharedPhases) \in Nat /\ Due(OwnPhases) <= Due(SharedPhases)
<1>1. losses \in Nat /\ MaxRetries \in Nat
  <2>1. losses \in 0..MaxLosses
    BY DEF TypeOK, ConnectionTypes
  <2> QED  BY <2>1, LimitsAssumption, CallsAssumption
<1>2. ResetsIn(shelf) \in Nat /\ \A c \in Calls : try[c] \in 0..MaxRetries /\ ResetsIn(queue[c]) \in Nat
  BY ResetsCount DEF TypeOK, CallTypes
<1>3. Resetting(OwnPhases) => Resetting(SharedPhases)
  BY DEF Resetting, OwnPhases, SharedPhases
<1> QED  BY <1>1, <1>2, <1>3 DEF Due

\* What is due does not grow but for a loss.
NothingMoreDue ==
  /\ losses' \in Nat /\ losses <= losses'
  /\ losses + Due(OwnPhases)' <= losses' + Due(OwnPhases)
  /\ losses + Due(SharedPhases)' <= losses' + Due(SharedPhases)
  /\ Due(OwnPhases)' \in Nat /\ Due(SharedPhases)' \in Nat

\* Neither is due more than before, or only what is lost is.
LEMMA DueNoMore ==
  ASSUME losses \in Nat,
         Resetting(OwnPhases)' => Resetting(OwnPhases),
         Resetting(SharedPhases)' => Resetting(SharedPhases),
         \/ losses' = losses /\ (Unnoticed' => Unnoticed)
         \/ losses' = losses + 1
  PROVE  NothingMoreDue
BY DEF NothingMoreDue, Due

LEMMA DueMoves ==
  ASSUME Inv,
         \/ HandshakeStep \/ StartReconnect \/ AttemptFails \/ Reconnect \/ Stops
         \/ BrokerAcks \/ BrokerGreets \/ BrokerRefuses \/ LinkLost
         \/ ResetClears \/ UNCHANGED <<dispatcher, link, losses>>
  PROVE  NothingMoreDue
<1>1. losses \in Nat
  BY LossNumbers DEF Inv
<1>2. CASE HandshakeStep
  <2>1. losses' = losses /\ link' = link
    BY <1>2 DEF HandshakeStep, SendVersion, ReadAck, StartApi, ReadAccountInfo
  <2>2. /\ Resetting(OwnPhases)' => Resetting(OwnPhases)
        /\ Resetting(SharedPhases)' => Resetting(SharedPhases)
        /\ Unnoticed' => Unnoticed
    BY <1>2, <2>1 DEF HandshakeStep, SendVersion, ReadAck, StartApi, ReadAccountInfo, Established, Resetting,
                      Unnoticed, OwnPhases, SharedPhases, Built
  <2> QED  BY <1>1, <2>1, <2>2, DueNoMore
<1>3. CASE StartReconnect
  <2>1. /\ ~ Resetting(OwnPhases) /\ ~ Resetting(SharedPhases) /\ Unnoticed /\ ~ Unnoticed'
        /\ losses' = losses
    BY <1>3 DEF StartReconnect, LossNoticed, broker, Resetting, Unnoticed, OwnPhases, SharedPhases
  <2> QED  BY <1>1, <2>1 DEF NothingMoreDue, Due
<1>4. CASE Reconnect
  <2>1. /\ Resetting(OwnPhases) /\ Resetting(SharedPhases) /\ ~ Unnoticed'
        /\ losses' = losses
    BY <1>4 DEF Reconnect, Resetting, Unnoticed, OwnPhases, SharedPhases
  <2> QED  BY <1>1, <2>1, DueNoMore
<1>5. CASE Stops
  <2>1. /\ ~ Resetting(OwnPhases)' /\ ~ Resetting(SharedPhases)' /\ ~ Unnoticed'
        /\ losses' = losses
    BY <1>5 DEF Stops, Resetting, Unnoticed, OwnPhases, SharedPhases
  <2> QED  BY <1>1, <2>1, DueNoMore
<1>6. CASE AttemptFails \/ BrokerAcks \/ BrokerGreets \/ UNCHANGED <<dispatcher, link, losses>>
  <2>1. UNCHANGED <<phase, orderIds, link, losses>>
    BY <1>6 DEF AttemptFails, BrokerAcks, BrokerGreets, dispatcher, broker
  <2> QED  BY <1>1, <2>1, DueNoMore DEF Resetting, Unnoticed, Built
<1>7. CASE BrokerRefuses \/ LinkLost
  <2>1. UNCHANGED <<phase, orderIds>> /\ losses' = losses + 1
    BY <1>7 DEF BrokerRefuses, LinkLost, dispatcher
  <2> QED  BY <1>1, <2>1, DueNoMore DEF Resetting, Built
<1>8. CASE ResetClears
  <2>1. /\ ~ Resetting(OwnPhases)' /\ ~ Resetting(SharedPhases)' /\ (Unnoticed' => Unnoticed)
        /\ losses' = losses
    BY <1>8 DEF ResetClears, NotConnection, broker, Resetting, Unnoticed, OwnPhases, SharedPhases
  <2> QED  BY <1>1, <2>1, DueNoMore
<1> QED  BY <1>2, <1>3, <1>4, <1>5, <1>6, <1>7, <1>8

\* A step that puts no reset anywhere, and takes no call further.
LEMMA NoResetKeeps ==
  ASSUME TypeOK, LossInv, NothingMoreDue, UNCHANGED <<kind, state, try, result>>,
         ResetsIn(shelf)' = ResetsIn(shelf),
         \A c \in Calls : ResetsIn(queue[c])' = ResetsIn(queue[c]),
         \A c \in Calls : entry'[c] => entry[c]
  PROVE  LossInv'
<1> USE LossNumbers DEF LossInv, NothingMoreDue
<1>1. ResetsIn(shelf)' + Due(SharedPhases)' <= losses'
  OBVIOUS
<1>2. ASSUME NEW c \in Calls
      PROVE  /\ entry'[c] => kind'[c] = "own"
             /\ state'[c] = "idle" => try'[c] = 0
             /\ kind'[c] = "own" => try'[c] + ResetsIn(queue[c])' + Due(OwnPhases)' <= losses'
             /\ kind'[c] = "shared" => /\ try'[c] + ResetsIn(shelf)' + Due(SharedPhases)' <= losses'
                                       /\ ResetsIn(queue[c])' = 0
             /\ result'[c] = "reset" => losses' > MaxRetries
  <2>1. entry'[c] => entry[c]
    OBVIOUS
  <2>2. try[c] \in Nat /\ ResetsIn(queue[c])' = ResetsIn(queue[c])
    OBVIOUS
  <2> QED  BY <2>1, <2>2
<1> QED  BY <1>1, <1>2

LEMMA ConnectionLossInv ==
  ASSUME Inv, LossInv,
         \/ /\ HandshakeStep \/ StartReconnect \/ AttemptFails \/ Reconnect
               \/ BrokerAcks \/ BrokerGreets \/ BrokerRefuses \/ LinkLost
               \/ UNCHANGED connection
            /\ UNCHANGED callVars
         \/ StopsTheBus \/ Dispatch \/ ResetClears \/ BrokerAnswers
  PROVE  LossInv'
<1> USE DEF Inv, TypeOK
<1>1. CASE UNCHANGED callVars
  <2>1. NothingMoreDue
    BY <1>1, DueMoves DEF StopsTheBus, HandshakeFails, GivesUp, LastAttemptFails, connection, broker,
                          Dispatch, BrokerAnswers
  <2>2. UNCHANGED <<kind, state, try, result, shelf, queue, entry>>
    BY <1>1 DEF callVars
  <2> QED  BY <2>1, <2>2, NoResetKeeps
<1>2. CASE StopsTheBus
  <2>1. Stops /\ Shutdown
    BY <1>2 DEF StopsTheBus, HandshakeFails, GivesUp, LastAttemptFails
  <2>2. NothingMoreDue
    BY <2>1, DueMoves
  <2>3. ResetsIn(shelf)' = ResetsIn(shelf)
    <3>1. ResetsIn(Append(shelf, "Shutdown")) = ResetsIn(shelf) + 0
      BY ResetsAppended DEF CallTypes, Items
    <3> QED  BY <2>1, <3>1, LossNumbers DEF Shutdown
  <2>4. ASSUME NEW c \in Calls
        PROVE  ResetsIn(queue[c])' = ResetsIn(queue[c])
    <3>1. ResetsIn(ToAll(Entries, "Shutdown")[c]) = ResetsIn(queue[c]) + 0
      BY ResetsToAll DEF Items
    <3> QED  BY <2>1, <3>1, LossNumbers DEF Shutdown
  <2>5. \A c \in Calls : ~ entry'[c]
    BY <2>1 DEF Shutdown
  <2> QED  BY <2>1, <2>2, <2>3, <2>4, <2>5, NoResetKeeps DEF Shutdown
<1>3. CASE Dispatch
  <2>1. NothingMoreDue
    BY <1>3, DueMoves DEF Dispatch
  <2>2. PICK callers : queue' = ToAll(callers, "answer")
    BY <1>3 DEF Dispatch
  <2>3. ResetsIn(shelf)' = ResetsIn(shelf)
    <3>1. ResetsIn(Append(shelf, "answer")) = ResetsIn(shelf) + 0
      BY ResetsAppended DEF CallTypes, Items
    <3> QED  BY <1>3, <3>1, LossNumbers DEF Dispatch
  <2>4. ASSUME NEW c \in Calls
        PROVE  ResetsIn(queue[c])' = ResetsIn(queue[c])
    <3>1. ResetsIn(ToAll(callers, "answer")[c]) = ResetsIn(queue[c]) + 0
      BY ResetsToAll DEF Items
    <3> QED  BY <2>2, <3>1, LossNumbers
  <2> QED  BY <1>3, <2>1, <2>3, <2>4, NoResetKeeps DEF Dispatch
<1>4. CASE ResetClears
  <2>1. NothingMoreDue
    BY <1>4, DueMoves
  <2>2. \A c \in Calls : ~ entry'[c]
    BY <1>4 DEF ResetClears
  <2> QED  BY <1>4, <2>1, <2>2, NoResetKeeps DEF ResetClears
<1>5. CASE BrokerAnswers
  BY <1>1, <1>5 DEF BrokerAnswers
<1> QED  BY <1>1, <1>2, <1>3, <1>4, <1>5

LEMMA TellLossInv ==
  ASSUME Inv, LossInv, ResetTells \/ ResetTellsShared
  PROVE  LossInv'
<1>0. /\ losses \in Nat /\ ResetsIn(shelf) \in Nat /\ CallTypes
      /\ Due(OwnPhases) \in Nat /\ Due(SharedPhases) \in Nat
      /\ \A c \in Calls : try[c] \in Nat /\ ResetsIn(queue[c]) \in Nat /\ entry[c] \in BOOLEAN
  BY LossNumbers DEF Inv, TypeOK, CallTypes
<1> USE <1>0 DEF LossInv
<1>1. UNCHANGED <<kind, state, try, result, entry, link, losses, orderIds>>
  BY DEF ResetTells, ResetTellsShared, NotConnection, broker
<1>2. CASE ResetTells
  <2>1. /\ Due(OwnPhases)' + 1 = Due(OwnPhases) /\ Due(SharedPhases)' <= Due(SharedPhases)
        /\ Due(OwnPhases)' \in Nat /\ Due(SharedPhases)' \in Nat
    <3>1. /\ Resetting(OwnPhases) /\ ~ Resetting(OwnPhases)' /\ Resetting(SharedPhases)
          /\ Unnoticed' <=> Unnoticed
      BY <1>1, <1>2 DEF ResetTells, Resetting, Unnoticed, OwnPhases, SharedPhases
    <3> QED  BY <3>1 DEF Due
  <2>2. UNCHANGED shelf
    BY <1>2 DEF ResetTells
  <2>3. ASSUME NEW c \in Calls
        PROVE  ResetsIn(queue[c])' = ResetsIn(queue[c]) + (IF entry[c] /\ Outstanding(c) THEN 1 ELSE 0)
    BY <1>2, ResetsToAll DEF ResetTells, Entries, Items
  <2>4. ASSUME NEW c \in Calls
        PROVE  /\ kind'[c] = "own" => try'[c] + ResetsIn(queue[c])' + Due(OwnPhases)' <= losses'
               /\ kind'[c] = "shared" => /\ try'[c] + ResetsIn(shelf)' + Due(SharedPhases)' <= losses'
                                         /\ ResetsIn(queue[c])' = 0
    <3>1. try[c] \in Nat /\ ResetsIn(queue[c]) \in Nat /\ entry[c] \in BOOLEAN
      OBVIOUS
    <3> QED  BY <1>1, <2>1, <2>2, <2>3, <3>1
  <2> QED  BY <1>1, <2>1, <2>2, <2>4
<1>3. CASE ResetTellsShared
  <2>1. /\ Due(SharedPhases)' + 1 = Due(SharedPhases) /\ Due(OwnPhases)' <= Due(OwnPhases)
        /\ Due(OwnPhases)' \in Nat /\ Due(SharedPhases)' \in Nat
    <3>1. /\ Resetting(SharedPhases) /\ ~ Resetting(SharedPhases)' /\ ~ Resetting(OwnPhases)'
          /\ Unnoticed' <=> Unnoticed
      BY <1>1, <1>3 DEF ResetTellsShared, Resetting, Unnoticed, OwnPhases, SharedPhases
    <3> QED  BY <3>1 DEF Due
  <2>2. ResetsIn(shelf)' = ResetsIn(shelf) + 1 /\ UNCHANGED queue
    BY <1>3, ResetsAppended DEF ResetTellsShared, CallTypes, Items
  <2>3. ASSUME NEW c \in Calls
        PROVE  /\ kind'[c] = "own" => try'[c] + ResetsIn(queue[c])' + Due(OwnPhases)' <= losses'
               /\ kind'[c] = "shared" => /\ try'[c] + ResetsIn(shelf)' + Due(SharedPhases)' <= losses'
                                         /\ ResetsIn(queue[c])' = 0
    <3>1. try[c] \in Nat /\ ResetsIn(queue[c]) \in Nat
      OBVIOUS
    <3> QED  BY <1>1, <2>1, <2>2, <3>1
  <2> QED  BY <1>1, <2>1, <2>2, <2>3
<1> QED  BY <1>2, <1>3

\* What LossInv says of a call, once more, when only that call takes a step.
LossOf(c) ==
  /\ entry[c] => kind[c] = "own"
  /\ state[c] = "idle" => try[c] = 0
  /\ kind[c] = "own" => try[c] + ResetsIn(queue[c]) + Due(OwnPhases) <= losses
  /\ kind[c] = "shared" => /\ try[c] + ResetsIn(shelf) + Due(SharedPhases) <= losses
                           /\ ResetsIn(queue[c]) = 0
  /\ result[c] = "reset" => losses > MaxRetries

Alone(c) ==
  \A d \in Calls \ {c} : /\ UNCHANGED <<kind[d], state[d], try[d], result[d], queue[d]>>
                         /\ entry'[d] <=> entry[d]

LEMMA OneCallKeeps ==
  ASSUME TypeOK, LossInv, NEW c \in Calls, Alone(c), UNCHANGED connection,
         ResetsIn(shelf)' \in Nat, ResetsIn(shelf)' <= ResetsIn(shelf), LossOf(c)'
  PROVE  LossInv'
<1>1. UNCHANGED <<losses, Due(OwnPhases), Due(SharedPhases)>>
  BY DEF connection, dispatcher, broker, Due, Resetting, Unnoticed, Built
<1>2. ResetsIn(shelf)' + Due(SharedPhases)' <= losses'
  BY <1>1, LossNumbers DEF LossInv
<1>3. ASSUME NEW d \in Calls, d # c
      PROVE  LossOf(d)'
  <2>1. /\ UNCHANGED <<kind[d], state[d], try[d], result[d], queue[d]>>
        /\ entry'[d] <=> entry[d]
    BY <1>3 DEF Alone
  <2>2. LossOf(d)
    BY DEF LossInv, LossOf
  <2>3. UNCHANGED ResetsIn(queue[d])
    BY <2>1 DEF ResetsIn, ResetsAt
  <2>4. try[d] \in Nat /\ ResetsIn(shelf) \in Nat /\ losses \in Nat /\ Due(SharedPhases) \in Nat
    BY LossNumbers
  <2> QED  BY <1>1, <2>1, <2>2, <2>3, <2>4 DEF LossOf
<1>4. \A d \in Calls : LossOf(d)'
  BY <1>3
<1> QED  BY <1>2, <1>4 DEF LossInv, LossOf

\* A call whose queue is emptied, after it took a reset from its own queue or
\* from the shelf, or none.
LEMMA TakenKeeps ==
  ASSUME Inv, LossInv, NEW c \in Calls, state[c] = "waiting", NEW item \in Items, Gets(c, item),
         UNCHANGED <<connection, kind>>, ResetsIn(shelf)' \in Nat,
         \/ /\ ResetsIn(shelf)' = ResetsIn(shelf)
            /\ item = "Reset" => ResetsIn(queue[c]) > 0
         \/ /\ kind[c] = "shared"
            /\ ResetsIn(shelf) = ResetsIn(shelf)' + (IF item = "Reset" THEN 1 ELSE 0)
  PROVE  LossInv'
<1>1. /\ losses \in Nat /\ MaxRetries \in Nat /\ ResetsIn(shelf) \in Nat /\ ResetsIn(queue[c]) \in Nat
      /\ try[c] \in 0..MaxRetries /\ Due(OwnPhases) \in Nat /\ Due(SharedPhases) \in Nat
      /\ Due(OwnPhases) <= Due(SharedPhases)
  BY LossNumbers DEF Inv
<1>2. UNCHANGED <<losses, Due(OwnPhases), Due(SharedPhases)>>
  BY DEF connection, dispatcher, broker, Due, Resetting, Unnoticed, Built
<1>3. LossOf(c) /\ ResetsIn(shelf) + Due(SharedPhases) <= losses
  BY DEF LossInv, LossOf
<1>4. kind[c] \in Kinds /\ CallTypes
  BY DEF Inv, TypeOK, CallTypes
<1>5. queue'[c] = <<>> /\ ResetsIn(queue[c])' = 0
  <2>1. queue'[c] = <<>>
    BY <1>4 DEF Gets, Registers, Ended, CallTypes
  <2> QED  BY <2>1, NoResetsInNone DEF ResetsIn, ResetsAt
<1>6. state'[c] # "idle" /\ kind'[c] = kind[c] /\ (entry'[c] => kind[c] = "own")
  BY <1>4 DEF Gets, Registers, Ended, CallTypes
<1>7. Alone(c)
  BY <1>4 DEF Gets, Registers, Ended, CallTypes, Alone
<1>8. \/ /\ try'[c] = try[c] + 1 /\ item = "Reset" /\ result'[c] = result[c]
      \/ /\ try'[c] = 0 /\ (result'[c] = "reset" => item = "Reset" /\ try[c] >= MaxRetries)
  <2>1. CASE item = "Reset" /\ Retries(c)
    BY <1>4, <2>1 DEF Gets, Registers, CallTypes
  <2>2. CASE ~ (item = "Reset" /\ Retries(c))
    <3>1. try'[c] = 0
          /\ result'[c] = CASE item = "answer" -> "answer" [] item = "Reset" -> "reset" [] OTHER -> "error"
      BY <1>4, <2>2 DEF Gets, Ended, CallTypes
    <3>2. item = "Reset" => try[c] >= MaxRetries
      BY <1>1, <2>2 DEF Retries
    <3>3. CASE item = "Reset"
      BY <3>1, <3>2, <3>3
    <3>4. CASE item # "Reset"
      BY <3>1, <3>4 DEF Items
    <3> QED  BY <3>3, <3>4
  <2> QED  BY <2>1, <2>2
<1>9. LossOf(c)'
  <2>1. UNCHANGED <<losses, kind[c]>> /\ try'[c] \in Nat
    BY <1>1, <1>2, <1>6, <1>8
  <2>2. CASE kind[c] = "own"
    <3>1. /\ try[c] + ResetsIn(queue[c]) + Due(OwnPhases) <= losses
          /\ (item = "Reset" => ResetsIn(queue[c]) > 0) /\ (result[c] = "reset" => losses > MaxRetries)
      BY <1>3, <2>2 DEF LossOf
    <3>2. /\ try'[c] + Due(OwnPhases) <= losses
          /\ (result'[c] = "reset" => losses > MaxRetries)
      BY <1>1, <1>8, <3>1
    <3> QED  BY <1>1, <1>2, <1>5, <1>6, <2>1, <2>2, <3>2 DEF LossOf
  <2>3. CASE kind[c] = "shared"
    <3>1. /\ try[c] + ResetsIn(shelf) + Due(SharedPhases) <= losses /\ ResetsIn(queue[c]) = 0
          /\ (result[c] = "reset" => losses > MaxRetries)
      BY <1>3, <2>3 DEF LossOf
    <3>2. /\ ResetsIn(shelf)' \in Nat
          /\ \/ ResetsIn(shelf) = ResetsIn(shelf)' /\ item # "Reset"
             \/ ResetsIn(shelf) = ResetsIn(shelf)' + 1 /\ item = "Reset"
      BY <1>1, <3>1
    <3>3. /\ try'[c] + ResetsIn(shelf)' + Due(SharedPhases) <= losses
          /\ (result'[c] = "reset" => losses > MaxRetries)
      BY <1>1, <1>8, <3>1, <3>2
    <3> QED  BY <1>1, <1>2, <1>5, <1>6, <2>1, <2>3, <3>3 DEF LossOf
  <2> QED  BY <1>4, <2>2, <2>3 DEF Kinds
<1>10. ResetsIn(shelf)' <= ResetsIn(shelf)
  BY <1>1
<1> QED  BY <1>7, <1>9, <1>10, OneCallKeeps DEF Inv

LEMMA CallLossInv ==
  ASSUME Inv, LossInv, NEW c \in Calls, Call(c) \/ CallStep(c)
  PROVE  LossInv'
<1>1. TypeOK /\ CallTypes /\ LossOf(c) /\ ResetsIn(shelf) + Due(SharedPhases) <= losses
  BY DEF Inv, TypeOK, LossInv, LossOf
<1>2. /\ losses \in Nat /\ MaxRetries \in Nat /\ ResetsIn(shelf) \in Nat /\ ResetsIn(queue[c]) \in Nat
      /\ try[c] \in 0..MaxRetries /\ Due(OwnPhases) \in Nat /\ Due(SharedPhases) \in Nat
      /\ Due(OwnPhases) <= Due(SharedPhases)
  BY <1>1, LossNumbers
<1>3. ASSUME UNCHANGED <<connection, shelf>>, Alone(c), LossOf(c)'
      PROVE  LossInv'
  <2>1. ResetsIn(shelf)' = ResetsIn(shelf)
    BY <1>3 DEF ResetsIn, ResetsAt
  <2> QED  BY <1>1, <1>2, <1>3, <2>1, OneCallKeeps
<1>4. UNCHANGED connection => UNCHANGED <<losses, Due(OwnPhases), Due(SharedPhases)>>
  BY DEF connection, dispatcher, broker, Due, Resetting, Unnoticed, Built
<1>5. queue'[c] = <<>> => ResetsIn(queue[c])' = 0
  BY NoResetsInNone DEF ResetsIn, ResetsAt
<1>6. UNCHANGED shelf => ResetsIn(shelf)' = ResetsIn(shelf)
  BY DEF ResetsIn, ResetsAt
<1>7. CASE Call(c)
  <2>1. UNCHANGED <<connection, shelf>> /\ Alone(c)
    BY <1>1, <1>7 DEF Call, Registers, CallTypes, Alone
  <2>2. /\ kind'[c] \in Kinds /\ (entry'[c] => kind'[c] = "own") /\ state'[c] # "idle"
        /\ queue'[c] = <<>> /\ UNCHANGED <<try[c], result[c]>> /\ try[c] = 0
    BY <1>1, <1>7 DEF Call, Registers, CallTypes, LossOf
  <2>3. LossOf(c)'
    BY <1>1, <1>2, <1>4, <1>5, <1>6, <2>1, <2>2 DEF LossOf
  <2> QED  BY <1>3, <2>1, <2>3
<1>8. CASE Write(c)
  <2>1. UNCHANGED <<connection, shelf>> /\ Alone(c) /\ state'[c] # "idle"
        /\ UNCHANGED <<entry, kind, try, queue, result>>
    BY <1>1, <1>8 DEF Write, CallTypes, Alone
  <2>2. ResetsIn(queue[c])' = ResetsIn(queue[c])
    BY <2>1 DEF ResetsIn, ResetsAt
  <2>3. LossOf(c)'
    BY <1>1, <1>2, <1>4, <1>6, <2>1, <2>2 DEF LossOf
  <2> QED  BY <1>3, <2>1, <2>3
<1>9. CASE WriteFails(c) \/ ReceiveNone(c)
  <2>1. UNCHANGED <<connection, shelf>> /\ Alone(c)
    BY <1>1, <1>9 DEF WriteFails, ReceiveNone, Ended, CallTypes, Alone
  <2>2. /\ kind'[c] = kind[c] /\ (entry'[c] => entry[c]) /\ state'[c] # "idle"
        /\ queue'[c] = <<>> /\ try'[c] = 0 /\ result'[c] # "reset"
    BY <1>1, <1>9 DEF WriteFails, ReceiveNone, Ended, CallTypes
  <2>3. LossOf(c)'
    BY <1>1, <1>2, <1>4, <1>5, <1>6, <2>1, <2>2 DEF LossOf
  <2> QED  BY <1>3, <2>1, <2>3
<1>10. CASE Receive(c)
  <2>1. queue[c] \in Seq(Items) /\ queue[c] # <<>>
    BY <1>1, <1>10 DEF Receive, CallTypes
  <2>2. Head(queue[c]) \in Items /\ ResetsIn(Tail(queue[c])) \in Nat
    BY <2>1, HeadTailProperties, ResetsCount
  <2>3. Head(queue[c]) = "Reset" => ResetsIn(queue[c]) > 0
    BY <2>1, <2>2, ResetsTaken
  <2> QED  BY <1>2, <1>6, <1>10, <2>2, <2>3, TakenKeeps DEF Receive
<1>11. CASE ReceiveShared(c)
  <2>1. shelf \in Seq(Items) /\ shelf # <<>> /\ shelf' = Tail(shelf)
    BY <1>1, <1>11 DEF ReceiveShared, CallTypes
  <2>2. Head(shelf) \in Items /\ ResetsIn(Tail(shelf)) \in Nat
    BY <2>1, HeadTailProperties, ResetsCount
  <2>3. ResetsIn(shelf)' = ResetsIn(Tail(shelf))
    BY <2>1 DEF ResetsIn, ResetsAt
  <2>4. ResetsIn(shelf) = ResetsIn(shelf)' + (IF Head(shelf) = "Reset" THEN 1 ELSE 0)
    BY <2>1, <2>3, ResetsTaken
  <2> QED  BY <1>2, <1>11, <2>2, <2>3, <2>4, TakenKeeps DEF ReceiveShared
<1> QED  BY <1>7, <1>8, <1>9, <1>10, <1>11 DEF CallStep

LEMMA LossInvHolds == Spec => [](Inv /\ LossInv)
<1>1. Init => LossInv
  <2> SUFFICES ASSUME Init PROVE LossInv
    OBVIOUS
  <2>1. Due(OwnPhases) = 0 /\ Due(SharedPhases) = 0 /\ losses = 0
    BY DEF Init, ConnectionInit, Due, Resetting, Unnoticed, OwnPhases, SharedPhases, Built
  <2>2. ResetsIn(shelf) = 0 /\ \A c \in Calls : ResetsIn(queue[c]) = 0
    BY NoResetsInNone DEF Init
  <2> QED  BY <2>1, <2>2 DEF Init, LossInv
<1>2. Inv /\ LossInv /\ [Next]_vars => LossInv'
  <2> SUFFICES ASSUME Inv, LossInv, [Next]_vars PROVE LossInv'
    OBVIOUS
  <2>1. CASE UNCHANGED vars
    BY <2>1, ConnectionLossInv DEF vars
  <2>2. CASE DispatcherStep
    BY <2>2, ConnectionLossInv, TellLossInv DEF DispatcherStep, NewConnection
  <2>3. CASE BrokerStep
    BY <2>3, ConnectionLossInv DEF BrokerStep
  <2>4. CASE (BrokerRefuses \/ LinkLost) /\ UNCHANGED <<callVars, asked>>
    BY <2>4, ConnectionLossInv
  <2>5. CASE \E c \in Calls : Call(c) \/ CallStep(c)
    BY <2>5, CallLossInv
  <2> QED  BY <2>1, <2>2, <2>3, <2>4, <2>5 DEF Next
<1> QED  BY <1>1, <1>2, InvHolds, PTL DEF Spec

\* A call is not sent again, nor given up for a reset, more often than the
\* connection was lost: no loss is counted against it twice, whichever queue it
\* reads and whoever reads the same one.
THEOREM ResetsAreOfLosses == Spec => []ResetsAreLosses
<1>1. Inv /\ LossInv => ResetsAreLosses
  <2> SUFFICES ASSUME Inv, LossInv, NEW c \in Calls
               PROVE  try[c] <= losses /\ (result[c] = "reset" => losses > MaxRetries)
    BY DEF ResetsAreLosses
  <2>1. /\ losses \in Nat /\ ResetsIn(shelf) \in Nat /\ ResetsIn(queue[c]) \in Nat /\ try[c] \in Nat
        /\ Due(OwnPhases) \in Nat /\ Due(SharedPhases) \in Nat
    BY LossNumbers DEF Inv
  <2>2. \/ kind[c] \in Kinds
        \/ try[c] = 0
    BY DEF Inv, TypeOK, CallTypes, LossInv
  <2> QED  BY <2>1, <2>2 DEF LossInv, Kinds
<1> QED  BY <1>1, LossInvHolds, PTL

-------------------------------------------------------------------------------
(* The order ids.  Until the client is made, the id that the broker owes a     *)
(* handshake it has been told of is read already, said or still to be said.    *)

IdSaid == \E i \in DOMAIN wire : wire[i].kind = "id"

IdPending ==
  ~ Built /\ link = "up" /\ served = "api" /\ phase = "account" => "id" \in info \cup greeting \/ IdSaid

LEMMA SaidStays ==
  ASSUME wire \in Seq(Messages), NEW m, wire' = Append(wire, m), IdSaid
  PROVE  IdSaid'
<1>1. PICK i \in DOMAIN wire : wire[i].kind = "id"
  BY DEF IdSaid
<1>2. i \in DOMAIN wire' /\ wire'[i] = wire[i]
  <2>1. DOMAIN wire = 1..Len(wire) /\ DOMAIN wire' = 1..(Len(wire) + 1) /\ Len(wire) \in Nat
    OBVIOUS
  <2> QED  BY <2>1
<1> QED  BY <1>1, <1>2 DEF IdSaid

LEMMA SaidIsThere ==
  ASSUME wire \in Seq(Messages), wire' = Append(wire, Plain("id"))
  PROVE  IdSaid'
<1>1. DOMAIN wire' = 1..(Len(wire) + 1) /\ Len(wire) \in Nat /\ wire'[Len(wire) + 1] = Plain("id")
  OBVIOUS
<1>2. Len(wire) + 1 \in DOMAIN wire' /\ wire'[Len(wire) + 1].kind = "id"
  BY <1>1 DEF Plain
<1> QED  BY <1>2 DEF IdSaid

\* A read takes the id, or leaves it said.
LEMMA SaidUntilRead ==
  ASSUME wire \in Seq(Messages), wire # <<>>, wire' = Tail(wire), IdSaid
  PROVE  "id" \in Found \/ IdSaid'
<1>1. PICK i \in DOMAIN wire : wire[i].kind = "id"
  BY DEF IdSaid
<1>2. /\ Len(wire) \in Nat \ {0} /\ DOMAIN wire = 1..Len(wire)
      /\ Len(wire') = Len(wire) - 1 /\ DOMAIN wire' = 1..Len(wire')
      /\ Head(wire) = wire[1] /\ \A k \in 1..Len(wire') : wire'[k] = wire[k + 1]
  BY EmptySeq, HeadTailProperties, LenProperties
<1>3. CASE i = 1
  BY <1>1, <1>2, <1>3 DEF Found
<1>4. CASE i # 1
  <2>1. i - 1 \in DOMAIN wire' /\ wire'[i - 1] = wire[i]
    BY <1>2, <1>4
  <2> QED  BY <1>1, <2>1 DEF IdSaid
<1> QED  BY <1>3, <1>4

LEMMA IdPendingHolds == Spec => [](Inv /\ IdPending)
<1>1. Init => IdPending
  BY DEF Init, ConnectionInit, IdPending
<1>2. Inv /\ IdPending /\ [Next]_vars => IdPending'
  <2> SUFFICES ASSUME Inv, IdPending, [Next]_vars,
                      ~ Built', link' = "up", served' = "api", phase' = "account"
               PROVE  "id" \in info' \cup greeting' \/ IdSaid'
    BY DEF IdPending
  <2>1. wire \in Seq(Messages) /\ phase \in Phases /\ greeting \subseteq {"id", "accounts", "other"}
    BY DEF Inv, TypeOK, ConnectionTypes
  <2>2. ASSUME UNCHANGED <<phase, info, orderIds, link, served>>,
               "id" \in greeting => "id" \in greeting' \/ IdSaid',
               IdSaid => IdSaid'
        PROVE  "id" \in info' \cup greeting' \/ IdSaid'
    BY <2>2 DEF IdPending, Built
  <2>3. CASE UNCHANGED <<connection, callVars>> \/ UNCHANGED connection \/ AttemptFails
    BY <2>2, <2>3 DEF connection, dispatcher, broker, AttemptFails, IdSaid
  <2>4. CASE BrokerAcks \/ BrokerAnswers
    <3>1. PICK m : wire' = Append(wire, m)
      BY <2>4 DEF BrokerAcks, BrokerAnswers, Says
    <3>2. UNCHANGED <<phase, info, orderIds, link, greeting>>
      BY <2>4 DEF BrokerAcks, BrokerAnswers, dispatcher
    <3>3. served' = served \/ served' = "acked"
      BY <2>4 DEF BrokerAcks, BrokerAnswers
    <3> QED  BY <2>1, <2>2, <3>1, <3>2, <3>3, SaidStays
  <2>5. CASE BrokerGreets
    <3>1. PICK k \in greeting : wire' = Append(wire, Plain(k)) /\ greeting' = greeting \ {k}
      BY <2>5 DEF BrokerGreets, Says
    <3>2. UNCHANGED <<phase, info, orderIds, link, served>>
      BY <2>5 DEF BrokerGreets, dispatcher
    <3>3. "id" \in greeting => "id" \in greeting' \/ IdSaid'
      <4>1. k = "id" => IdSaid'
        BY <2>1, <3>1, SaidIsThere
      <4> QED  BY <3>1, <4>1
    <3> QED  BY <2>1, <2>2, <3>1, <3>2, <3>3, SaidStays
  <2>6. CASE BrokerRefuses \/ LinkLost \/ StopsTheBus
    BY <2>6 DEF BrokerRefuses, LinkLost, StopsTheBus, HandshakeFails, GivesUp, LastAttemptFails, Stops
  <2>7. CASE HandshakeStep
    <3>1. CASE StartApi
      BY <3>1 DEF StartApi, Reaches
    <3>2. CASE ReadAccountInfo
      <4>1. UNCHANGED <<phase, orderIds, link, served, greeting>> /\ info' = info \cup Found
            /\ phase = "account" /\ wire # <<>> /\ wire' = Tail(wire)
        BY <3>2 DEF ReadAccountInfo, Established, Merged, Built
      <4>2. IdSaid => "id" \in Found \/ IdSaid'
        BY <2>1, <4>1, SaidUntilRead
      <4>3. "id" \in info \cup greeting \/ IdSaid
        BY <4>1 DEF IdPending, Built
      <4> QED  BY <4>1, <4>2, <4>3
    <3>3. CASE SendVersion \/ ReadAck
      BY <3>3 DEF SendVersion, ReadAck
    <3> QED  BY <2>7, <3>1, <3>2, <3>3 DEF HandshakeStep
  <2>8. CASE StartReconnect \/ Reconnect \/ ResetTells \/ ResetTellsShared \/ ResetClears
    BY <2>8 DEF StartReconnect, Reconnect, ResetTells, ResetTellsShared, ResetClears
  <2>9. CASE Dispatch
    BY <2>9 DEF Dispatch, dispatcher
  <2>10. ASSUME NEW c \in Calls, Call(c) \/ CallStep(c)
         PROVE  UNCHANGED connection
    BY <2>10 DEF Call, CallStep, Write, WriteFails, Receive, ReceiveShared, ReceiveNone
  <2> QED  BY <2>3, <2>4, <2>5, <2>6, <2>7, <2>8, <2>9, <2>10
           DEF Next, vars, DispatcherStep, BrokerStep, NewConnection
<1> QED  BY <1>1, <1>2, InvHolds, PTL DEF Spec

\* A client's order ids count from what the broker said, unless it had not said so
\* within the messages the handshake will read: whatever calls' answers and other
\* messages came between, and however many connections were refused before.
THEOREM OrderIdsAreFromTheBroker == Spec => OrderIdsAreTheBrokers
<1>1. Inv /\ IdPending /\ [Next]_vars =>
        (~ Built /\ Built' /\ link = "up" =>
           \/ orderIds' = "broker"
           \/ "id" \in greeting \/ \E i \in DOMAIN wire' : wire'[i].kind = "id")
  <2> SUFFICES ASSUME Inv, IdPending, [Next]_vars, ~ Built, Built', link = "up", orderIds' # "broker"
               PROVE  "id" \in greeting \/ IdSaid'
    BY DEF IdSaid
  <2>1. ReadAccountInfo
    <3>1. \A c \in Calls : Call(c) \/ CallStep(c) => UNCHANGED orderIds
      BY DEF Call, CallStep, Write, WriteFails, Receive, ReceiveShared, ReceiveNone, connection, dispatcher
    <3>2. orderIds' # orderIds
      BY DEF Built
    <3>3. HandshakeStep
      BY <3>1, <3>2 DEF Next, vars, connection, DispatcherStep, BrokerStep, StartReconnect, AttemptFails,
           NewConnection, Reconnect, StopsTheBus, HandshakeFails, GivesUp, LastAttemptFails, Stops,
           Dispatch, ResetTells, ResetTellsShared, ResetClears, NotConnection, BrokerAcks, BrokerGreets,
           BrokerAnswers, BrokerRefuses, LinkLost, dispatcher
    <3> QED  BY <3>2, <3>3 DEF HandshakeStep, SendVersion, ReadAck, StartApi
  <2>2. phase = "account" /\ wire # <<>> /\ wire' = Tail(wire) /\ wire \in Seq(Messages)
        /\ "id" \notin info \cup Found
    BY <2>1 DEF ReadAccountInfo, Established, Merged, Built, Inv, TypeOK, ConnectionTypes
  <2>3. served = "api"
    BY <2>2 DEF Inv, Handshaken, SaidOnlyAsServed
  <2>4. "id" \in greeting \/ IdSaid
    BY <2>2, <2>3 DEF IdPending
  <2> QED  BY <2>2, <2>4, SaidUntilRead
<1> QED  BY <1>1, IdPendingHolds, PTL DEF Spec, OrderIdsAreTheBrokers
===============================================================================
