------------------------------ MODULE Connection ------------------------------
(* The connection of either client and the broker at its other end: connect,   *)
(* handshake, loss, reconnect (connection/async.rs, connection/sync.rs and     *)
(* connection/common.rs).  The dispatcher that finds the connection lost also  *)
(* reconnects it; while it does, it reads nothing else.                        *)
(*                                                                             *)
(* A message on the wire has a kind, and the call and attempt it answers.      *)
(* What the handshake tells apart: "ack" and "old", the two outcomes of the    *)
(* version exchange; "refused", the refusal of the client id (326); "id" and   *)
(* "accounts", NextValidId and ManagedAccounts; anything else is unsolicited,  *)
(* for the startup callback or the notices.                                    *)
EXTENDS Integers, Sequences, FiniteSets

CONSTANTS
  Nobody,        \* who a message that answers no call is for
  MaxAttempts,   \* MAX_RECONNECT_ATTEMPTS
  MaxMessages,   \* MAX_ATTEMPTS of receive_account_info
  MaxLosses      \* bound: the connection is lost this many times

ASSUME LimitsAssumption ==
  /\ MaxAttempts \in Nat \ {0} /\ MaxMessages \in Nat \ {0} /\ MaxLosses \in Nat

VARIABLES
  transport,     \* "async" or "sync"
  phase,         \* where the dispatcher, or the connecting caller, stands
  attempt,       \* reconnect attempts made
  info, seen,    \* receive_account_info: what has come, and how many messages
  metadata,      \* connection_metadata: what is known of the present connection
  orderIds,      \* what the client's order ids count from: none yet, 0, or the broker's
  connected,     \* the bus's flag
  link,          \* "up", "lost" but not yet noticed, or "closed" by this end
  wire,          \* from the broker, not yet read
  served,        \* what the broker has been sent: nothing, the version, start api
  greeting,      \* what the broker has still to say to a client that started
  losses

dispatcher == <<phase, attempt, info, seen, metadata, orderIds, connected>>
broker == <<link, wire, served, greeting, losses>>
connection == <<transport, dispatcher, broker>>

HandshakePhases == {"version", "ack", "api", "account"}
ResetPhases == {"tell", "tell shared", "clear"}
Phases == HandshakePhases \cup ResetPhases \cup {"reading", "retrying", "stopped"}
Known == {"version", "id", "accounts"}

Plain(kind) == [kind |-> kind, to |-> Nobody, try |-> 0]

\* The client exists once the first handshake has succeeded.
Built == orderIds # "none"

ConnectionInit ==
  /\ transport \in {"async", "sync"}
  /\ phase = "version" /\ attempt = 0
  /\ info = {} /\ seen = 0 /\ metadata = {} /\ orderIds = "none" /\ connected = FALSE
  /\ link = "up" /\ wire = <<>> /\ served = "nothing" /\ greeting = {} /\ losses = 0

-------------------------------------------------------------------------------
(* The broker, as the code meets it. *)

Says(kind) == wire' = Append(wire, Plain(kind))

\* It answers the version prefix with its own version, which may be too old.
BrokerAcks ==
  /\ link = "up" /\ served = "version"
  /\ \E kind \in {"ack", "old"} : Says(kind)
  /\ served' = "acked"
  /\ UNCHANGED <<transport, dispatcher, link, greeting, losses>>

\* It greets a client that has started with the two messages the handshake waits
\* for, in any order and with others in between.
BrokerGreets ==
  /\ link = "up" /\ served = "api"
  /\ \E kind \in greeting : Says(kind) /\ greeting' = greeting \ {kind}
  /\ UNCHANGED <<transport, dispatcher, link, served, losses>>

\* It refuses the client id, and closes.
BrokerRefuses ==
  /\ link = "up" /\ served = "api" /\ greeting = {"id", "accounts", "other"} /\ losses < MaxLosses
  /\ Says("refused")
  /\ link' = "lost" /\ losses' = losses + 1
  /\ UNCHANGED <<transport, dispatcher, served, greeting>>

\* The connection is lost, with some of what the broker had sent.
LinkLost ==
  /\ link = "up" /\ losses < MaxLosses
  /\ link' = "lost" /\ losses' = losses + 1
  /\ \E n \in 0..Len(wire) : wire' = SubSeq(wire, 1, n)
  /\ UNCHANGED <<transport, dispatcher, served, greeting>>

-------------------------------------------------------------------------------
(* The handshake: establish_connection. *)

\* A write into a lost connection may go through and be lost, or fail.
Reaches(next) == IF link = "up" THEN served' = next ELSE UNCHANGED served

SendVersion ==
  /\ phase = "version"
  /\ phase' = "ack"
  /\ Reaches("version")
  /\ UNCHANGED <<transport, attempt, info, seen, metadata, orderIds, connected,
                 link, wire, greeting, losses>>

ReadAck ==
  /\ phase = "ack" /\ wire # <<>> /\ Head(wire).kind = "ack"
  /\ phase' = "api" /\ metadata' = metadata \cup {"version"}
  /\ wire' = Tail(wire)
  /\ UNCHANGED <<transport, attempt, info, seen, orderIds, connected, link, served, greeting, losses>>

StartApi ==
  /\ phase = "api"
  /\ phase' = "account"
  /\ Reaches("api")
  /\ greeting' = IF link = "up" THEN {"id", "accounts", "other"} ELSE greeting
  /\ UNCHANGED <<transport, attempt, info, seen, metadata, orderIds, connected, link, wire, losses>>

\* The handshake has succeeded: the first time the client is made, with its order
\* ids from the metadata; later the bus is marked connected and then reset.
Established(got) ==
  /\ info' = {} /\ seen' = 0
  /\ metadata' = metadata \cup got
  /\ orderIds' = IF Built THEN orderIds ELSE IF "id" \in got THEN "broker" ELSE "zero"
  /\ phase' = IF Built THEN "tell" ELSE "reading"
  /\ connected' = TRUE

\* What parse_account_info finds in a message.
Found == {Head(wire).kind} \cap {"id", "accounts"}

\* A slip: each message's finds replace those before it.
MergedOver == Found

Merged == info \cup Found

\* receive_account_info: one message.  The answer to a call made while the
\* handshake ran is taken for the broker's greeting, or is unsolicited.
ReadAccountInfo ==
  /\ phase = "account" /\ wire # <<>> /\ Head(wire).kind # "refused"
  /\ IF Merged = {"id", "accounts"} \/ seen + 1 > MaxMessages
       THEN Established(Merged)
       ELSE info' = Merged /\ seen' = seen + 1 /\ UNCHANGED <<phase, metadata, orderIds, connected>>
  /\ wire' = Tail(wire)
  /\ UNCHANGED <<transport, attempt, link, served, greeting, losses>>

\* Why a handshake may fail: a version too old, the client id refused, the
\* connection lost, or - synchronous - a read that takes a second.
Fails ==
  /\ phase \in HandshakePhases
  /\ \/ phase \in {"version", "api"} /\ link = "lost"
     \/ phase \in {"ack", "account"}
        /\ \/ wire = <<>> /\ (link = "lost" \/ transport = "sync")
           \/ wire # <<>> /\ Head(wire).kind \in {"old", "refused"}

\* The end: the first connect returns the error, later the bus shuts down.
Stops ==
  /\ phase' = "stopped" /\ connected' = FALSE
  /\ info' = {} /\ seen' = 0 /\ attempt' = 0
  /\ link' = "closed" /\ wire' = <<>> /\ greeting' = {}
  /\ UNCHANGED <<transport, metadata, orderIds, served, losses>>

HandshakeFails == Fails /\ Stops

HandshakeStep == SendVersion \/ ReadAck \/ StartApi \/ ReadAccountInfo

-------------------------------------------------------------------------------
(* Loss and reconnect, by the dispatcher. *)

LossNoticed == phase = "reading" /\ wire = <<>> /\ link = "lost"

\* With auto_reconnect off the bus shuts down instead: the caller reconnects.
\* Which it is, is left open; only the asynchronous client has the choice.
GivesUp == LossNoticed /\ transport = "async" /\ Stops

\* A slip: the bus stays marked connected while it reconnects.
StartReconnectConnected ==
  /\ LossNoticed
  /\ phase' = "retrying"
  /\ UNCHANGED <<transport, attempt, info, seen, metadata, orderIds, connected, broker>>

StartReconnect ==
  /\ LossNoticed
  /\ phase' = "retrying" /\ connected' = FALSE
  /\ UNCHANGED <<transport, attempt, info, seen, metadata, orderIds, broker>>

\* reconnect: the metadata is that of the new connection, so far none.
Reconnect ==
  /\ phase = "retrying"
  /\ phase' = "version" /\ attempt' = 0 /\ metadata' = {}
  /\ link' = "up" /\ wire' = <<>> /\ served' = "nothing" /\ greeting' = {}
  /\ UNCHANGED <<transport, info, seen, orderIds, connected, losses>>

AttemptFails ==
  /\ phase = "retrying" /\ attempt + 1 < MaxAttempts
  /\ attempt' = attempt + 1
  /\ UNCHANGED <<transport, phase, info, seen, metadata, orderIds, connected, broker>>

LastAttemptFails ==
  /\ phase = "retrying" /\ attempt + 1 >= MaxAttempts
  /\ Stops
===============================================================================
