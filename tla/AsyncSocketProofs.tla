-------------------------- MODULE AsyncSocketProofs --------------------------
(***************************************************************************)
(* Proofs about AsyncSocket, for any number of writes, sockets and closes  *)
(* and any limit on reconnection attempts: a close leaves no socket open,  *)
(* refuses every write still queued, and nobody holds the writer's lock    *)
(* without using it.                                                       *)
(***************************************************************************)
EXTENDS AsyncSocket, TLAPS

(***************************************************************************)
(* The inductive invariant.                                                *)
(***************************************************************************)

\* An attempt is only ever under way while one is left to fail.
AttemptLeft ==
  connection \in {"trying", "opening", "writerSet", "closerSet"} => attempts < MaxAttempts

\* The handshake's write exists only while establish_connection runs.
HandshakeInPlace == connection # "handshake" => pc[Handshake] \in {"idle", "ended"}

\* The two halves differ only between the two installs.
HalvesAgree == connection # "writerSet" => writerOf = closerOf

\* An open socket behind a set `closed` flag is still somebody's to shut: of a
\* close between flag and socket, or of the reconnect that has just put it there.
ShutIsOwed ==
  closed /\ closerOf \notin shut =>
    (\E c \in Closer : closing[c] = "marked") \/ connection = "closerSet"

SocketInv == TypeOK /\ AttemptLeft /\ HandshakeInPlace /\ HalvesAgree /\ ShutIsOwed

-----------------------------------------------------------------------------
(* Type correctness and the invariant.                                     *)

\* The initial connection satisfies the invariant.
LEMMA SocketInit == Init => SocketInv
<1> SUFFICES ASSUME Init PROVE SocketInv
  OBVIOUS
<1>1. TypeOK
  <2>1. pc \in [Writer -> Step]
    BY DEF Init, Step
  <2>2. attempts \in 0..MaxAttempts
    BY AttemptsAssumption DEF Init
  <2>3. closing \in [Closer -> {"idle", "marked", "shut", "done"}]
    BY DEF Init
  <2> QED
    BY SocketAssumption, <2>1, <2>2, <2>3 DEF Init, TypeOK, ReconnectStep
<1>2. pc[Handshake] = "idle"
  BY DEF Init, Writer
<1>3. AttemptLeft /\ HandshakeInPlace /\ HalvesAgree /\ ShutIsOwed
  BY <1>2 DEF Init, AttemptLeft, HandshakeInPlace, HalvesAgree, ShutIsOwed
<1> QED
  BY <1>1, <1>3 DEF SocketInv

\* A step of a write leaves the sockets, the closes and the reconnect alone,
\* and starts no handshake outside of establish_connection.
LEMMA WriteStepKeepsInv ==
  ASSUME SocketInv, NEW w \in Writer, WriteStep(w)
  PROVE  SocketInv'
<1> USE DEF TypeOK, sockets, halves, writes, reconnect
<1>1. /\ UNCHANGED <<sockets, halves, closing, reconnect>>
      /\ \E s \in Step : pc' = [pc EXCEPT ![w] = s]
      /\ w = Handshake /\ connection # "handshake" => FALSE
  BY DEF SocketInv, HandshakeInPlace, WriteStep, WriteGoesOn, Answer, Begin, Arm, CheckOpen, TakeLock,
     FindBusy, Recheck, SlotWoken, Send, SendFails, AdmitWrite, AdmitRefuse, AdmitLater, SlotComes,
     GivesUp, Sent, Goes, Step, Armed, Passed
<1>2. /\ waits' \in [Writer -> BOOLEAN] /\ meta' \in [Writer -> BOOLEAN]
      /\ woken' \in SUBSET Writer /\ sentLate' \in SUBSET Writer
      /\ lock' \in Writer \cup {None}
  BY DEF SocketInv, WriteStep, WriteGoesOn, Answer, Begin, Arm, CheckOpen, TakeLock,
     FindBusy, Recheck, SlotWoken, Send, SendFails, AdmitWrite, AdmitRefuse, AdmitLater, SlotComes,
     GivesUp, Sent, Unlock
<1>3. TypeOK'
  BY <1>1, <1>2 DEF SocketInv
<1>4. AttemptLeft' /\ HalvesAgree' /\ ShutIsOwed'
  BY <1>1 DEF SocketInv, AttemptLeft, HalvesAgree, ShutIsOwed
<1>5. HandshakeInPlace'
  BY <1>1 DEF SocketInv, HandshakeInPlace, Writer
<1> QED
  BY <1>3, <1>4, <1>5 DEF SocketInv

\* A close marks before it shuts, and shuts whatever socket is behind the
\* closer by then.
LEMMA CloseStepKeepsInv ==
  ASSUME SocketInv, NEW c \in Closer, CloseStep(c)
  PROVE  SocketInv'
<1> USE DEF SocketInv, TypeOK, sockets, halves, writes, reconnect
<1>1. CASE Mark(c)
  BY <1>1 DEF Mark, AttemptLeft, HandshakeInPlace, HalvesAgree, ShutIsOwed
<1>2. CASE CloseSocket(c)
  <2>1. closerOf' \in shut'
    BY <1>2 DEF CloseSocket
  <2>2. closerOf \in Socket
    OBVIOUS
  <2> QED
    BY <1>2, <2>1, <2>2 DEF CloseSocket, AttemptLeft, HandshakeInPlace, HalvesAgree, ShutIsOwed
<1>3. CASE NotifyWriters(c)
  BY <1>3 DEF NotifyWriters, AttemptLeft, HandshakeInPlace, HalvesAgree, ShutIsOwed
<1> QED
  BY <1>1, <1>2, <1>3 DEF CloseStep

\* A reconnect installs the writer's half, then the closer's, and looks at
\* `closed` again before it uses the socket.
LEMMA ReconnectKeepsInv ==
  ASSUME SocketInv, LoseConnection \/ ReconnectGoesOn
  PROVE  SocketInv'
<1> USE AttemptsAssumption
        DEF SocketInv, TypeOK, sockets, halves, writes, reconnect, ReconnectStep,
            AttemptLeft, HandshakeInPlace, HalvesAgree, ShutIsOwed
<1>1. CASE LoseConnection
  BY <1>1 DEF LoseConnection
<1>2. CASE TryReconnect \/ OpenFails
  BY <1>2 DEF TryReconnect, OpenFails, AttemptFails
<1>3. ASSUME NEW s \in Socket, InstallWriter(s) PROVE SocketInv'
  BY <1>3 DEF InstallWriter
<1>4. CASE InstallCloser
  BY <1>4 DEF InstallCloser
<1>5. CASE CloseAfterAll
  BY <1>5 DEF CloseAfterAll, AttemptFails
<1>6. CASE StartHandshake
  <2>1. pc' \in [Writer -> Step] /\ pc'[Handshake] = "idle"
    BY <1>6 DEF StartHandshake, Step, Writer
  <2> QED
    BY <1>6, <2>1 DEF StartHandshake
<1>7. CASE HandshakeSucceeds
  BY <1>7 DEF HandshakeSucceeds
<1>8. CASE HandshakeFails
  BY <1>8 DEF HandshakeFails
<1>9. CASE ReadEnds
  BY <1>9 DEF ReadEnds
<1> QED
  BY <1>1, <1>2, <1>3, <1>4, <1>5, <1>6, <1>7, <1>8, <1>9 DEF ReconnectGoesOn

\* The conjunction is inductive.
LEMMA SocketStep == SocketInv /\ [Next]_vars => SocketInv'
<1> SUFFICES ASSUME SocketInv, [Next]_vars PROVE SocketInv'
  OBVIOUS
<1>1. CASE UNCHANGED vars
  BY <1>1 DEF vars, sockets, halves, writes, reconnect, SocketInv, TypeOK, AttemptLeft,
              HandshakeInPlace, HalvesAgree, ShutIsOwed
<1> QED
  BY <1>1, WriteStepKeepsInv, CloseStepKeepsInv, ReconnectKeepsInv DEF Next

LEMMA SocketInvariant == Spec => []SocketInv
BY SocketInit, SocketStep, PTL DEF Spec

\* The state keeps its shape; in particular a dispatcher never makes more
\* than MAX_RECONNECT_ATTEMPTS attempts.
THEOREM SocketTypes == Spec => []TypeOK
<1>1. SocketInv => TypeOK
  BY DEF SocketInv
<1> QED
  BY <1>1, SocketInvariant, PTL

-----------------------------------------------------------------------------
(* The close.                                                              *)

\* AsyncTcpSocket::shutdown against reconnect: once neither is half done, a
\* closed connection has no open socket, in whatever order their steps came.
THEOREM CloseIsForGood == Spec => []ClosedForGood
<1>1. SocketInv => ClosedForGood
  BY DEF SocketInv, HalvesAgree, ShutIsOwed, ClosedForGood
<1> QED
  BY <1>1, SocketInvariant, PTL

\* write_frame's second look at `closed`: no step after the close began takes
\* a write that had not started yet past the lock.
THEOREM QueuedAreRefused == Spec => QueuedWritesAreRefused
<1> DEFINE Refused == \A w \in Writer : closed /\ pc[w] \notin Passed => pc'[w] \notin Passed
<1>1. ASSUME TypeOK, [Next]_vars PROVE [Refused]_vars
  <2> SUFFICES ASSUME NEW w \in Writer, closed, pc[w] \notin Passed PROVE pc'[w] \notin Passed
    OBVIOUS
  <2> USE <1>1 DEF TypeOK, writes, Passed
  <2>1. ASSUME NEW v \in Writer, WriteStep(v) PROVE pc'[w] \notin Passed
    BY <2>1 DEF WriteStep, WriteGoesOn, Answer, Begin, Arm, CheckOpen, TakeLock,
       FindBusy, Recheck, SlotWoken, Send, SendFails, AdmitWrite, AdmitRefuse, AdmitLater, SlotComes,
       GivesUp, Sent, Goes
  <2>2. ASSUME NEW c \in Closer, CloseStep(c) PROVE pc'[w] \notin Passed
    BY <2>2 DEF CloseStep, Mark, CloseSocket, NotifyWriters
  <2>3. CASE LoseConnection
    BY <2>3 DEF LoseConnection
  <2>4. CASE ReconnectGoesOn
    BY <2>4 DEF ReconnectGoesOn, TryReconnect, OpenFails, InstallWriter, InstallCloser, CloseAfterAll,
       StartHandshake, HandshakeSucceeds, HandshakeFails, ReadEnds
  <2>5. CASE UNCHANGED vars
    BY <2>5 DEF vars
  <2> QED
    BY <2>1, <2>2, <2>3, <2>4, <2>5 DEF Next
<1> QED
  BY <1>1, SocketTypes, PTL DEF Spec, QueuedWritesAreRefused

-----------------------------------------------------------------------------
(* The writer's lock.                                                      *)

\* A write's step takes, keeps or frees the lock as its own position says,
\* and nobody else's.
LEMMA LockStep ==
  ASSUME SocketInv, LockIsUsed, [Next]_vars
  PROVE  LockIsUsed'
<1> DEFINE Uses == {"locked"} \cup Passed
<1> USE DEF LockIsUsed, TypeOK, writes, Passed
<1>1. None \notin Writer
  BY WriterAssumption DEF Writer
<1>2. ASSUME NEW v \in Writer, WriteStep(v), NEW w \in Writer
      PROVE  lock' = w <=> pc'[w] \in Uses
  BY <1>1, <1>2 DEF SocketInv, WriteStep, WriteGoesOn, Answer, Begin, Arm, CheckOpen, TakeLock,
     FindBusy, Recheck, SlotWoken, Send, SendFails, AdmitWrite, AdmitRefuse, AdmitLater, SlotComes,
     GivesUp, Sent, Goes, Unlock, Armed
<1>3. ASSUME NEW c \in Closer, CloseStep(c) PROVE UNCHANGED <<lock, pc>>
  BY <1>3 DEF CloseStep, Mark, CloseSocket, NotifyWriters
<1>4. CASE StartHandshake
  <2>1. pc[Handshake] \in {"idle", "ended"}
    BY <1>4 DEF SocketInv, HandshakeInPlace, StartHandshake
  <2> QED
    BY <1>4, <2>1 DEF SocketInv, StartHandshake, Writer
<1>5. ASSUME LoseConnection \/ ReconnectGoesOn, ~StartHandshake PROVE UNCHANGED <<lock, pc>>
  BY <1>5 DEF LoseConnection, ReconnectGoesOn, TryReconnect, OpenFails, InstallWriter, InstallCloser,
     CloseAfterAll, HandshakeSucceeds, HandshakeFails, ReadEnds
<1>6. UNCHANGED vars => UNCHANGED <<lock, pc>>
  BY DEF vars
<1>7. UNCHANGED <<lock, pc>> => LockIsUsed'
  OBVIOUS
<1> QED
  BY <1>2, <1>3, <1>4, <1>5, <1>6, <1>7 DEF Next

\* Whoever holds the writer's lock is between taking it and a wait, a refusal
\* or the end of the write: no write that waits for a slot, failed or was
\* dropped keeps a reconnect or another write from it.
THEOREM LockIsAlwaysUsed == Spec => []LockIsUsed
<1>1. Init => LockIsUsed
  BY WriterAssumption DEF Init, LockIsUsed, Writer, Passed
<1> QED
  BY <1>1, LockStep, SocketInvariant, PTL DEF Spec

-----------------------------------------------------------------------------
(* Late sends.                                                             *)

\* While there has been one socket, a close that has come past its shutdown has
\* shut that one, and nothing was sent late.
OneSocketShut ==
  opened = {First} =>
    /\ (\E c \in Closer : closing[c] \in {"shut", "done"}) => First \in shut
    /\ sentLate = {}

\* A step with no socket installed, of which the first alone has been opened.
LEMMA OneSocketStep ==
  ASSUME SocketInv, OneSocketShut, [Next]_vars
  PROVE  OneSocketShut'
<1> SUFFICES ASSUME opened' = {First}
             PROVE  /\ (\E c \in Closer : closing'[c] \in {"shut", "done"}) => First \in shut'
                    /\ sentLate' = {}
  BY DEF OneSocketShut
<1>1. ASSUME NEW s \in Socket, InstallWriter(s) PROVE FALSE
  <2>1. s \notin opened /\ opened' = opened \cup {s} /\ writerOf \in opened
    BY <1>1 DEF InstallWriter, SocketInv, TypeOK
  <2> QED
    BY <2>1
<1>2. ASSUME NEW w \in Writer, WriteStep(w), ~Send(w)
      PROVE  UNCHANGED <<opened, shut, closing, sentLate>>
  BY <1>2 DEF WriteStep, WriteGoesOn, Answer, Begin, Arm, CheckOpen, TakeLock,
     FindBusy, Recheck, SlotWoken, SendFails, AdmitWrite, AdmitRefuse, AdmitLater, SlotComes,
     GivesUp, Sent, sockets
<1>3. ASSUME NEW w \in Writer, Send(w)
      PROVE  UNCHANGED <<opened, shut, closing>> /\ sentLate' = {}
  <2>1. UNCHANGED <<opened, shut, closing, writerOf>>
    BY <1>3 DEF Send, sockets, halves
  <2>2. opened = {First} /\ writerOf = First
    BY <2>1 DEF SocketInv, TypeOK
  <2>3. (\E c \in Closer : closing[c] = "done") => First \in shut
    BY <2>2 DEF OneSocketShut
  <2> QED
    BY <1>3, <2>1, <2>2, <2>3 DEF Send, Live, OneSocketShut
<1>4. ASSUME NEW c \in Closer, CloseStep(c)
      PROVE  OneSocketShut'
  <2>1. opened = {First} /\ sentLate' = sentLate /\ closerOf = First
    BY <1>4 DEF CloseStep, Mark, CloseSocket, NotifyWriters, sockets, SocketInv, TypeOK
  <2>2. CASE Mark(c)
    BY <2>1, <2>2 DEF Mark, OneSocketShut, SocketInv, TypeOK
  <2>3. CASE CloseSocket(c)
    BY <2>1, <2>3 DEF CloseSocket, OneSocketShut
  <2>4. CASE NotifyWriters(c)
    BY <2>1, <2>4 DEF NotifyWriters, OneSocketShut, sockets, SocketInv, TypeOK
  <2> QED
    BY <1>4, <2>2, <2>3, <2>4 DEF CloseStep
<1>5. ASSUME LoseConnection \/ ReconnectGoesOn, \A s \in Socket : ~InstallWriter(s)
      PROVE  opened' = opened /\ shut \subseteq shut' /\ UNCHANGED <<closing, sentLate>>
  BY <1>5 DEF LoseConnection, ReconnectGoesOn, TryReconnect, OpenFails, InstallCloser,
     CloseAfterAll, StartHandshake, HandshakeSucceeds, HandshakeFails, ReadEnds, sockets
<1>6. UNCHANGED vars => UNCHANGED <<opened, shut, closing, sentLate>>
  BY DEF vars, sockets
<1>7. (opened' = opened /\ shut \subseteq shut' /\ UNCHANGED <<closing, sentLate>>) => OneSocketShut'
  BY DEF OneSocketShut
<1>8. (UNCHANGED <<opened, shut, closing>> /\ sentLate' = {}) => OneSocketShut'
  BY DEF OneSocketShut
<1>9. OneSocketShut'
  BY <1>1, <1>2, <1>3, <1>4, <1>5, <1>6, <1>7, <1>8 DEF Next
<1> QED
  BY <1>9 DEF OneSocketShut

\* After a shutdown() has returned nothing is written to an open socket, unless a
\* reconnect had opened one beside it.
THEOREM OnlyReconnectsSendLate == Spec => []LateSendsNeedReconnect
<1>1. Init => OneSocketShut
  BY DEF Init, OneSocketShut
<1>2. OneSocketShut => LateSendsNeedReconnect
  BY DEF OneSocketShut, LateSendsNeedReconnect
<1> QED
  BY <1>1, <1>2, OneSocketStep, SocketInvariant, PTL DEF Spec
=============================================================================
