---------------------------- MODULE AsyncSocket ----------------------------
(***************************************************************************)
(* The socket of an asynchronous connection (src/src/transport/async_io.rs *)
(* and the reconnect of src/src/connection/async.rs): writes that wait for *)
(* the writer's lock and for a gate's permission, a reconnect that puts a  *)
(* new socket in place half by half, and a close that takes neither lock.  *)
(*                                                                         *)
(* The close promises that from then on nothing is sent and no socket is   *)
(* left open, though it races both the writes and the reconnect.  A step   *)
(* here is one access of shared state (a lock, an atomic, the socket):     *)
(* the runtime is multi-threaded.  What is written, and why a gate says    *)
(* what it says, are left out; write_all, the path without a gate, is      *)
(* write_frame with a gate that admits everything and a deadline that      *)
(* never passes.  The handshake is the one write of establish_connection.  *)
(***************************************************************************)
EXTENDS Naturals, FiniteSets

CONSTANTS
  Write,        \* the session's writes
  Handshake,    \* the handshake's write
  Socket,       \* sockets `open` may return
  First,        \* the one of the initial connect
  Closer,       \* calls of shutdown()
  MaxAttempts,  \* MAX_RECONNECT_ATTEMPTS
  None          \* nobody holds the lock

ASSUME WriterAssumption == Handshake \notin Write /\ None \notin Write \cup {Handshake}
ASSUME SocketAssumption == First \in Socket
ASSUME AttemptsAssumption == MaxAttempts \in Nat \ {0}

VARIABLES
  closed,       \* AsyncTcpSocket::closed
  opened,       \* the sockets opened so far
  shut,         \* those a close has shut down
  lost,         \* those the peer or the network has ended
  writerOf,     \* the socket behind `writer`
  closerOf,     \* the socket behind `closer`
  lock,         \* who holds the writer's lock
  pc,           \* where each write is, see Step
  waits,        \* whether its deadline lets it wait (At) or not (NoWait)
  meta,         \* OutgoingMeta::handshake, as told to the gate
  woken,        \* the writes whose `closing` notification has come
  closing,      \* program counter of each shutdown()
  connection,   \* program counter of the dispatcher: connected or in reconnect
  attempts,     \* reconnection attempts made
  handshaking,  \* AsyncConnection::handshaking
  sentLate      \* history: writes that put bytes on a live socket after a
                \* shutdown() had returned

sockets   == <<closed, opened, shut, lost>>
halves    == <<writerOf, closerOf>>
writes    == <<pc, waits, meta>>
reconnect == <<connection, attempts, handshaking>>
vars == <<sockets, halves, lock, writes, woken, closing, reconnect, sentLate>>

Writer == Write \cup {Handshake}

\* "begun": the gate's call exists; "armed": the close will wake it;
\* "locking": closed was read as false, the lock is awaited; "locked": it is
\* held; "asking": closed was false under the lock; "admitted": the gate said
\* Write; "sending": bytes are on their way; "slot": told Later, lock released.
Armed  == {"armed", "locking", "locked", "asking", "slot"}
Passed == {"asking", "admitted", "sending"}
Step   == Armed \cup Passed \cup {"idle", "begun", "ended"}

ReconnectStep ==
  {"connected", "trying", "opening", "writerSet", "closerSet",
   "handshake", "stopped"}

TypeOK ==
  /\ closed \in BOOLEAN
  /\ opened \in SUBSET Socket /\ shut \in SUBSET Socket /\ lost \in SUBSET Socket
  /\ writerOf \in opened /\ closerOf \in opened
  /\ lock \in Writer \cup {None}
  /\ pc \in [Writer -> Step]
  /\ waits \in [Writer -> BOOLEAN]
  /\ meta \in [Writer -> BOOLEAN]
  /\ woken \in SUBSET Writer
  /\ closing \in [Closer -> {"idle", "marked", "shut", "done"}]
  /\ connection \in ReconnectStep
  /\ attempts \in 0..MaxAttempts
  /\ handshaking \in BOOLEAN
  /\ sentLate \in SUBSET Writer

Init ==
  /\ closed = FALSE
  /\ opened = {First} /\ shut = {} /\ lost = {}
  /\ writerOf = First /\ closerOf = First
  /\ lock = None
  /\ pc = [w \in Writer |-> "idle"]
  /\ waits = [w \in Writer |-> TRUE]
  /\ meta = [w \in Writer |-> FALSE]
  /\ woken = {}
  /\ closing = [c \in Closer |-> "idle"]
  /\ connection = "connected"
  /\ attempts = 0
  /\ handshaking = FALSE
  /\ sentLate = {}

\* The socket carries bytes.
Live(s) == s \notin shut \cup lost

-----------------------------------------------------------------------------
(* A write: write_frame.                                                   *)

\* w moves on; held locks and the rest stay.
Goes(w, to) == pc' = [pc EXCEPT ![w] = to]

\* w leaves the loop or the lock: dropping the guard frees the lock.
Unlock(w) == lock' = IF lock = w THEN None ELSE lock

\* describe, then WriteGate::begin and the deadline, asked once.  A session
\* write is told to be the handshake's if one is running.
Begin(w) ==
  /\ pc[w] = "idle"
  /\ w = Handshake => connection = "handshake"
  /\ Goes(w, "begun")
  /\ meta' = [meta EXCEPT ![w] = w = Handshake \/ handshaking]
  /\ \E wait \in BOOLEAN : waits' = [waits EXCEPT ![w] = wait]
  /\ UNCHANGED <<sockets, halves, lock, woken, closing, reconnect, sentLate>>

\* Notified::enable, before closed is read.
Arm(w) ==
  /\ pc[w] = "begun"
  /\ Goes(w, "armed")
  /\ woken' = woken \ {w}
  /\ UNCHANGED <<sockets, halves, lock, waits, meta, closing, reconnect, sentLate>>

CheckOpen(w) ==
  /\ pc[w] = "armed"
  /\ Goes(w, IF closed THEN "ended" ELSE "locking")
  /\ UNCHANGED <<sockets, halves, lock, waits, meta, woken, closing, reconnect, sentLate>>

TakeLock(w) ==
  /\ pc[w] = "locking"
  /\ lock = None
  /\ lock' = w
  /\ Goes(w, "locked")
  /\ UNCHANGED <<sockets, halves, waits, meta, woken, closing, reconnect, sentLate>>

\* Deadline::NoWait and the lock is taken: Refusal::Busy.
FindBusy(w) ==
  /\ pc[w] = "locking"
  /\ lock # None
  /\ ~waits[w]
  /\ Goes(w, "ended")
  /\ UNCHANGED <<sockets, halves, lock, waits, meta, woken, closing, reconnect, sentLate>>

\* Mutant of Recheck: the lock is taken to mean the socket is still open.
TrustLock(w) ==
  /\ pc[w] = "locked"
  /\ Goes(w, "asking")
  /\ UNCHANGED <<sockets, halves, lock, waits, meta, woken, closing, reconnect, sentLate>>

\* The close may have begun while this waited for the lock.
Recheck(w) ==
  /\ pc[w] = "locked"
  /\ IF closed THEN Goes(w, "ended") /\ Unlock(w)
               ELSE Goes(w, "asking") /\ UNCHANGED lock
  /\ UNCHANGED <<sockets, halves, waits, meta, woken, closing, reconnect, sentLate>>

AdmitWrite(w) ==
  /\ pc[w] = "asking"
  /\ Goes(w, "admitted")
  /\ UNCHANGED <<sockets, halves, lock, waits, meta, woken, closing, reconnect, sentLate>>

\* Refuse, or Later to a write that may not wait.
AdmitRefuse(w) ==
  /\ pc[w] = "asking"
  /\ Goes(w, "ended")
  /\ Unlock(w)
  /\ UNCHANGED <<sockets, halves, waits, meta, woken, closing, reconnect, sentLate>>

\* Later: the lock is let go before the wait.
AdmitLater(w) ==
  /\ pc[w] = "asking"
  /\ waits[w]
  /\ Goes(w, "slot")
  /\ Unlock(w)
  /\ UNCHANGED <<sockets, halves, waits, meta, woken, closing, reconnect, sentLate>>

\* retry_at, or the gate's own wakeup: ask again from the top.
SlotComes(w) ==
  /\ pc[w] = "slot"
  /\ Goes(w, "begun")
  /\ UNCHANGED <<sockets, halves, lock, waits, meta, woken, closing, reconnect, sentLate>>

\* The close's notification: from the top, too.
SlotWoken(w) ==
  /\ pc[w] = "slot"
  /\ w \in woken
  /\ Goes(w, "begun")
  /\ UNCHANGED <<sockets, halves, lock, waits, meta, woken, closing, reconnect, sentLate>>

\* Past its deadline at one of the loop's checks, or its future dropped at
\* one of its awaits.
GivesUp(w) ==
  /\ \/ waits[w] /\ pc[w] \in {"locking", "locked", "slot"}
     \/ w \in Write /\ pc[w] = "sending"
  /\ Goes(w, "ended")
  /\ Unlock(w)
  /\ UNCHANGED <<sockets, halves, waits, meta, woken, closing, reconnect, sentLate>>

\* writer.write_all hands its first bytes to whatever socket is there now.
Send(w) ==
  /\ pc[w] = "admitted"
  /\ Goes(w, "sending")
  /\ sentLate' = IF Live(writerOf) /\ \E c \in Closer : closing[c] = "done"
                 THEN sentLate \cup {w} ELSE sentLate
  /\ UNCHANGED <<sockets, halves, lock, waits, meta, woken, closing, reconnect>>

\* Written and flushed.
Sent(w) ==
  /\ pc[w] = "sending"
  /\ Live(writerOf)
  /\ Goes(w, "ended")
  /\ Unlock(w)
  /\ UNCHANGED <<sockets, halves, waits, meta, woken, closing, reconnect, sentLate>>

\* A write to a dead socket fails, a blocked one included.
SendFails(w) ==
  /\ pc[w] = "sending"
  /\ ~Live(writerOf)
  /\ Goes(w, "ended")
  /\ Unlock(w)
  /\ UNCHANGED <<sockets, halves, waits, meta, woken, closing, reconnect, sentLate>>

-----------------------------------------------------------------------------
(* The close: AsyncTcpSocket::shutdown.                                    *)

Mark(c) ==
  /\ closing[c] = "idle"
  /\ closing' = [closing EXCEPT ![c] = "marked"]
  /\ closed' = TRUE
  /\ UNCHANGED <<opened, shut, lost, halves, lock, writes, woken, reconnect, sentLate>>

\* Mutant of CloseSocket: the socket is shut only if no write is in the way, as by
\* a writer's try_lock.
CloseSocketIfFree(c) ==
  /\ closing[c] = "marked"
  /\ closing' = [closing EXCEPT ![c] = "shut"]
  /\ shut' = IF lock = None THEN shut \cup {closerOf} ELSE shut
  /\ UNCHANGED <<closed, opened, lost, halves, lock, writes, woken, reconnect, sentLate>>

CloseSocket(c) ==
  /\ closing[c] = "marked"
  /\ closing' = [closing EXCEPT ![c] = "shut"]
  /\ shut' = shut \cup {closerOf}
  /\ UNCHANGED <<closed, opened, lost, halves, lock, writes, woken, reconnect, sentLate>>

\* Mutant of NotifyWriters: only writes already asleep are woken, as without
\* Notified::enable.
NotifySleepers(c) ==
  /\ closing[c] = "shut"
  /\ closing' = [closing EXCEPT ![c] = "done"]
  /\ woken' = woken \cup {w \in Writer : pc[w] = "slot"}
  /\ UNCHANGED <<sockets, halves, lock, writes, reconnect, sentLate>>

\* Every write armed by now is woken, if it comes to wait for a slot.
NotifyWriters(c) ==
  /\ closing[c] = "shut"
  /\ closing' = [closing EXCEPT ![c] = "done"]
  /\ woken' = woken \cup {w \in Writer : pc[w] \in Armed}
  /\ UNCHANGED <<sockets, halves, lock, writes, reconnect, sentLate>>

-----------------------------------------------------------------------------
(* The dispatcher: AsyncConnection::reconnect and establish_connection.    *)

\* The read fails, and no shutdown was asked for.
LoseConnection ==
  /\ connection = "connected"
  /\ ~closed
  /\ lost' = lost \cup {writerOf}
  /\ connection' = "trying"
  /\ attempts' = 0
  /\ UNCHANGED <<closed, opened, shut, halves, lock, writes, woken, closing, handshaking, sentLate>>

\* Mutant of AttemptFails: one attempt too many.
AttemptFailsLate ==
  /\ attempts' = attempts + 1
  /\ connection' = IF attempts = MaxAttempts THEN "stopped" ELSE "trying"

\* An attempt that failed, at whatever stage: sleep and try again, or report
\* ConnectionFailed after the last one.  Error::Closed is a failure like any.
AttemptFails ==
  /\ attempts' = attempts + 1
  /\ connection' = IF attempts + 1 = MaxAttempts THEN "stopped" ELSE "trying"

\* The next attempt, after its backoff: refused once closed.
TryReconnect ==
  /\ connection = "trying"
  /\ IF closed THEN AttemptFails
               ELSE connection' = "opening" /\ UNCHANGED attempts
  /\ UNCHANGED <<sockets, halves, lock, writes, woken, closing, handshaking, sentLate>>

OpenFails ==
  /\ connection = "opening"
  /\ AttemptFails
  /\ UNCHANGED <<sockets, halves, lock, writes, woken, closing, handshaking, sentLate>>

\* open() succeeds; the new socket goes behind the writer's lock ...
InstallWriter(s) ==
  /\ connection = "opening"
  /\ s \notin opened
  /\ lock = None
  /\ opened' = opened \cup {s}
  /\ writerOf' = s
  /\ connection' = "writerSet"
  /\ UNCHANGED <<closed, shut, lost, closerOf, lock, writes, woken, closing, attempts, handshaking, sentLate>>

\* ... then behind the closer's.
InstallCloser ==
  /\ connection = "writerSet"
  /\ closerOf' = writerOf
  /\ connection' = "closerSet"
  /\ UNCHANGED <<sockets, writerOf, lock, writes, woken, closing, attempts, handshaking, sentLate>>

\* A close that ran meanwhile shut the old socket: shut the new one too.
CloseAfterAll ==
  /\ connection = "closerSet"
  /\ closed
  /\ shut' = shut \cup {closerOf}
  /\ AttemptFails
  /\ UNCHANGED <<closed, opened, lost, halves, lock, writes, woken, closing, handshaking, sentLate>>

\* Mutant of StartHandshake: the new socket is used without a second look.
StartHandshakeUnchecked ==
  /\ connection = "closerSet"
  /\ connection' = "handshake"
  /\ handshaking' = TRUE
  /\ pc' = [pc EXCEPT ![Handshake] = "idle"]
  /\ UNCHANGED <<sockets, halves, lock, waits, meta, woken, closing, attempts, sentLate>>

\* Reconnected: the handshake is replayed, told to the gates by `handshaking`.
StartHandshake ==
  /\ connection = "closerSet"
  /\ ~closed
  /\ connection' = "handshake"
  /\ handshaking' = TRUE
  /\ pc' = [pc EXCEPT ![Handshake] = "idle"]
  /\ UNCHANGED <<sockets, halves, lock, waits, meta, woken, closing, attempts, sentLate>>

\* It was written and answered.
HandshakeSucceeds ==
  /\ connection = "handshake"
  /\ pc[Handshake] = "ended"
  /\ Live(writerOf)
  /\ connection' = "connected"
  /\ handshaking' = FALSE
  /\ UNCHANGED <<sockets, halves, lock, writes, woken, closing, attempts, sentLate>>

\* It was refused, or its answer never came: the reconnect as a whole fails.
HandshakeFails ==
  /\ connection = "handshake"
  /\ pc[Handshake] = "ended"
  /\ connection' = "stopped"
  /\ handshaking' = FALSE
  /\ UNCHANGED <<sockets, halves, lock, writes, woken, closing, attempts, sentLate>>

\* The close ends the read: the dispatcher is done.
ReadEnds ==
  /\ connection = "connected"
  /\ closed
  /\ connection' = "stopped"
  /\ UNCHANGED <<sockets, halves, lock, writes, woken, closing, attempts, handshaking, sentLate>>

-----------------------------------------------------------------------------
\* What the runtime carries on by itself: everything but timers, gates and
\* the peer.
WriteGoesOn(w) ==
  Arm(w) \/ CheckOpen(w) \/ TakeLock(w) \/ FindBusy(w) \/ Recheck(w) \/ SlotWoken(w)
    \/ Send(w) \/ SendFails(w)

Answer(w) == AdmitWrite(w) \/ AdmitRefuse(w) \/ AdmitLater(w)

WriteStep(w) == Begin(w) \/ WriteGoesOn(w) \/ Answer(w) \/ SlotComes(w) \/ GivesUp(w) \/ Sent(w)

CloseStep(c) == Mark(c) \/ CloseSocket(c) \/ NotifyWriters(c)

ReconnectGoesOn ==
  \/ TryReconnect \/ OpenFails \/ (\E s \in Socket : InstallWriter(s))
  \/ InstallCloser \/ CloseAfterAll \/ StartHandshake
  \/ HandshakeSucceeds \/ HandshakeFails \/ ReadEnds

Next ==
  \/ \E w \in Writer : WriteStep(w)
  \/ \E c \in Closer : CloseStep(c)
  \/ LoseConnection
  \/ ReconnectGoesOn

Spec == Init /\ [][Next]_vars

\* A task that can run does, and a gate answers; the writer's lock is tokio's
\* Mutex, which serves its waiters in turn, hence SF_vars(TakeLock(w)).  No deadline is assumed to
\* pass, no slot to come and no blocked write to get through.
Fairness ==
  /\ \A w \in Writer : WF_vars(WriteGoesOn(w)) /\ WF_vars(Answer(w)) /\ SF_vars(TakeLock(w))
  /\ WF_vars(Begin(Handshake))
  /\ \A c \in Closer : WF_vars(CloseSocket(c) \/ NotifyWriters(c))
  /\ WF_vars(ReconnectGoesOn)

FairSpec == Spec /\ Fairness

-----------------------------------------------------------------------------
(* Properties.                                                             *)

\* However the close raced a reconnect, no socket is left open behind it:
\* once no shutdown() and no reconnection attempt is half done, the socket
\* writes go to has been shut.
ClosedForGood ==
  /\ closed
  /\ \A c \in Closer : closing[c] # "marked"
  /\ connection \notin {"writerSet", "closerSet"}
  => writerOf \in shut

\* async_io.rs, Closing: "a write that had not started when the close began,
\* queued writers included, is refused".
QueuedWritesAreRefused ==
  [][\A w \in Writer : closed /\ pc[w] \notin Passed => pc'[w] \notin Passed]_vars

\* The lock is somebody's exactly while a step of theirs needs it: a write
\* told to wait has let it go, one that was dropped or failed too.
LockIsUsed ==
  \A w \in Writer : lock = w <=> pc[w] \in {"locked"} \cup Passed

\* A close ends every write in progress by itself, whatever it was waiting
\* for: no timer, slot or peer has to come to its help.
CloseEndsWrites ==
  closed ~> \A w \in Write : pc[w] \in {"idle", "ended"}

\* After a shutdown() has returned, nothing is written to a socket that is open
\* still, unless a reconnect had opened one beside it: then a close between its
\* two installs shuts the old socket, and a write already past its check sends.
LateSendsNeedReconnect == sentLate # {} => opened # {First}
=============================================================================
