--------------------------- MODULE AsyncBusProofs ---------------------------
(***************************************************************************)
(* Proofs about AsyncBus, for any sets of calls, ids, executions and       *)
(* disconnecting tasks: no entry leaks, no listener loses its entry to     *)
(* somebody else's cleanup, and a shutdown leaves no subscription          *)
(* reachable through a table.                                              *)
(***************************************************************************)
EXTENDS AsyncBus, TLAPS

(***************************************************************************)
(* The inductive invariant.                                                *)
(***************************************************************************)
Alive(h) == stage[h] \notin {"idle", "ended"}

\* A handle has a channel and a place exactly while it is alive.
HandleShape ==
  \A h \in Handle :
    /\ Alive(h) => place[h] \in Key /\ chan[h] \in Handle
    /\ ~Alive(h) => chan[h] = None /\ previous[h] = None

\* A call that has not been made has created no channel.
Fresh ==
  \A c \in Handle : stage[c] = "idle" =>
    /\ \A h \in Handle : chan[h] # c /\ previous[h] # c
    /\ \A k \in Key : channels[k] # c

\* Everyone on a channel, and everyone who replaced it, has it under one id.
OnePlace ==
  \A g, h \in Handle :
    /\ chan[g] # None /\ chan[g] = chan[h] => place[g] = place[h]
    /\ chan[g] # None /\ chan[g] = previous[h] => place[g] = place[h]

\* Every entry's channel has somebody on it.
Owned ==
  \A k \in Key : channels[k] # None =>
    \E h \in Handle : chan[h] = channels[k] /\ place[h] = k

\* The queue holds one signal of each handle that has sent one.
QueueMatches ==
  /\ \A i \in 1..Len(cleanup) : stage[cleanup[i].of] = "signalled"
  /\ \A i, j \in 1..Len(cleanup) : cleanup[i].of = cleanup[j].of => i = j
  /\ \A h \in Handle : stage[h] = "signalled" => \E i \in 1..Len(cleanup) : cleanup[i].of = h

EntryInv == TypeOK /\ HandleShape /\ Fresh /\ OnePlace /\ Owned

\* Every shutdown in progress has closed the socket.
ClosingClosed == \A p \in Closer : closing[p] # "idle" => socketClosed

\* S: the channels registered too late to be written.
TooLate(S) ==
  /\ S # {} => socketClosed
  /\ \A c \in S : stage[c] # "idle"
  /\ \A k \in Key : ClearedByShutdown(k[1]) /\ channels[k] # None => channels[k] \in S
  /\ \A h \in Handle : chan[h] \in S =>
       /\ stage[h] \notin {"writing", "subscribed"}
       /\ previous[h] # None => previous[h] \in S

QuietInv == ClosingClosed /\ \E S \in SUBSET Handle : TooLate(S)

-----------------------------------------------------------------------------
(* Type correctness.                                                       *)

\* Nothing is registered, queued or closed at first.
LEMMA TypeInit == Init => TypeOK
<1> SUFFICES ASSUME Init PROVE TypeOK
  OBVIOUS
<1>1. cleanup \in Seq(Signal)
  BY DEF Init
<1>2. channels \in [Key -> Handle \cup {None}]
  BY DEF Init
<1>3. executionChannels \in [ExecutionId -> Handle \cup {None}]
  BY DEF Init
<1> QED
  BY <1>1, <1>2, <1>3 DEF Init, TypeOK, Stage, DispatcherStep, ClosingStep, Closer

\* Every step keeps every variable in its type.
LEMMA TypeStep == TypeOK /\ [Next]_vars => TypeOK'
<1> SUFFICES ASSUME TypeOK, [Next]_vars PROVE TypeOK'
  OBVIOUS
<1> USE DEF TypeOK, tables, handles, shutdowns, flags, Key
<1>1. ASSUME NEW h \in Handle, CallStep(h) PROVE TypeOK'
  <2>1. ASSUME NEW i \in Id, Replace(h, i) PROVE TypeOK'
    BY <2>1 DEF Replace, Table, Stage, InFlight
  <2>2. ASSUME NEW i \in Id, JoinExisting(h, i) PROVE TypeOK'
    BY <2>2 DEF JoinExisting, Table, Stage, InFlight
  <2>3. ASSUME NEW i \in Id, JoinNew(h, i) PROVE TypeOK'
    BY <2>3 DEF JoinNew, Table, Stage, InFlight
  <2>4. CASE StartWrite(h)
    BY <2>4 DEF StartWrite, Stage, InFlight
  <2>5. CASE WriteSucceeds(h)
    BY <2>5 DEF WriteSucceeds, Stage, InFlight
  <2>6. CASE WriteFails(h)
    BY <2>6 DEF WriteFails, Stage, InFlight
  <2>7. CASE Withdraw(h)
    BY <2>7 DEF Withdraw, Forget, Withdrawn, Stage, InFlight
  <2>8. CASE AbandonCall(h)
    BY <2>8 DEF AbandonCall, Stage, InFlight
  <2>9. CASE SignalWithdraw(h)
    BY <2>9 DEF SignalWithdraw, Stage, Signal, InFlight
  <2> QED
    BY <1>1, <2>1, <2>2, <2>3, <2>4, <2>5, <2>6, <2>7, <2>8, <2>9 DEF CallStep
<1>2. ASSUME NEW h \in Handle, SubscriptionStep(h) PROVE TypeOK'
  <2>1. ASSUME NEW g \in Handle, CloneSubscription(h, g) PROVE TypeOK'
    BY <2>1 DEF CloneSubscription, Stage, InFlight
  <2>2. CASE DropSubscription(h)
    BY <2>2 DEF DropSubscription, Stage, InFlight
  <2>3. CASE SignalRelease(h)
    BY <2>3 DEF SignalRelease, Stage, Signal, InFlight
  <2> QED
    BY <1>2, <2>1, <2>2, <2>3 DEF SubscriptionStep
<1>3. ASSUME NEW k \in Key, CancelEntry(k) PROVE TypeOK'
  BY <1>3 DEF CancelEntry
<1>4. CASE CleanupTask
  <2>1. Head(cleanup) \in Signal /\ Tail(cleanup) \in Seq(Signal)
    BY <1>4 DEF CleanupTask
  <2> QED
    BY <1>4, <2>1 DEF CleanupTask, Forget, Released, Withdrawn, Signal, Stage
<1>5. CASE DispatcherStepTaken
  <2>1. ASSUME NEW o \in Id, NEW r \in Id, NEW e \in ExecutionId, RouteExecutionData(o, r, e)
        PROVE TypeOK'
    BY <2>1 DEF RouteExecutionData, Table
  <2>2. CASE ConnectionLost
    BY <2>2 DEF ConnectionLost, DispatcherStep
  <2>3. CASE ReadEndsBus \/ ReconnectFails \/ ShutdownMessage
    BY <2>3 DEF ReadEndsBus, ReconnectFails, ShutdownMessage, DispatcherCloses, MarkShutdown, DispatcherStep, ClosingStep
  <2>4. CASE ReconnectSucceeds \/ MarkConnected \/ DispatcherStops \/ AbortLands \/ ShutdownCutShort
    BY <2>4 DEF ReconnectSucceeds, MarkConnected, DispatcherStops, AbortLands, ShutdownCutShort,
         DispatcherStep
  <2>5. CASE ResetChannels
    BY <2>5 DEF ResetChannels, Tell, DropTable, DropExecutions, Cleared, DispatcherStep
  <2> QED
    BY <1>5, <2>1, <2>2, <2>3, <2>4, <2>5 DEF DispatcherStepTaken
<1>6. CASE ShutdownStep
  <2>1. CASE InstallHandle \/ DropClient
    BY <2>1 DEF InstallHandle, DropClient, MarkShutdown
  <2>2. ASSUME NEW p \in Caller,
               BeginDisconnect(p) \/ TakeHandle(p) \/ Joined(p) \/ JoinTimesOut(p)
        PROVE TypeOK'
    BY <2>2, CallerAssumption DEF BeginDisconnect, TakeHandle, Joined, JoinTimesOut, MarkShutdown,
         ClosingStep, Closer
  <2>3. ASSUME NEW p \in Closer, ClearRequests(p) \/ ClearOrders(p) PROVE TypeOK'
    BY <2>3 DEF ClearRequests, ClearOrders, Cleared, ClosingStep, DispatcherStep, Closer
  <2> QED
    BY <1>6, <2>1, <2>2, <2>3 DEF ShutdownStep
<1>7. CASE UNCHANGED vars
  BY <1>7 DEF vars
<1> QED
  BY <1>1, <1>2, <1>3, <1>4, <1>5, <1>6, <1>7 DEF Next

\* The state of the bus keeps its shape: every table maps to a channel or to
\* nothing, and the cleanup queue holds signals of known handles.
THEOREM TypeCorrect == Spec => []TypeOK
<1> QED
  BY TypeInit, TypeStep, PTL DEF Spec

-----------------------------------------------------------------------------
(* The cleanup queue.                                                      *)

\* Every queued signal names a handle.
LEMMA SignalsOf ==
  ASSUME TypeOK
  PROVE  \A i \in 1..Len(cleanup) : cleanup[i] \in Signal /\ cleanup[i].of \in Handle
<1>1. \A i \in 1..Len(cleanup) : cleanup[i] \in Signal
  BY DEF TypeOK
<1> QED
  BY <1>1 DEF Signal

\* Handing a signal to the queue, by SignalWithdraw or SignalRelease.
LEMMA QueueAppend ==
  ASSUME TypeOK, QueueMatches, NEW h \in Handle, NEW type \in {"Release", "Withdraw"},
         stage[h] \in {"abandoning", "releasing"},
         cleanup' = Append(cleanup, [type |-> type, of |-> h]),
         stage' = [stage EXCEPT ![h] = "signalled"]
  PROVE  QueueMatches'
<1> DEFINE n == Len(cleanup)
<1>1. cleanup \in Seq(Signal) /\ stage \in [Handle -> Stage] /\ n \in Nat
  BY DEF TypeOK
<1>2. Len(cleanup') = n + 1 /\ cleanup'[n + 1].of = h
  BY <1>1 DEF Signal
<1>3. \A i \in 1..n : cleanup'[i] = cleanup[i] /\ cleanup[i].of \in Handle /\ cleanup[i].of # h
  <2>1. [type |-> type, of |-> h] \in Signal
    BY DEF Signal
  <2>2. \A i \in 1..n : cleanup'[i] = cleanup[i]
    BY <1>1, <2>1
  <2> QED
    BY <2>2, SignalsOf DEF QueueMatches
<1>4. \A i \in 1..(n + 1) : i \in 1..n \/ i = n + 1
  BY <1>1
<1>5. \A i \in 1..Len(cleanup') : stage'[cleanup'[i].of] = "signalled"
  BY <1>1, <1>2, <1>3, <1>4 DEF QueueMatches
<1>6. \A i, j \in 1..Len(cleanup') : cleanup'[i].of = cleanup'[j].of => i = j
  BY <1>1, <1>2, <1>3, <1>4 DEF QueueMatches
<1>7. \A g \in Handle : stage'[g] = "signalled" => \E i \in 1..Len(cleanup') : cleanup'[i].of = g
  <2> SUFFICES ASSUME NEW g \in Handle, stage'[g] = "signalled"
               PROVE  \E i \in 1..Len(cleanup') : cleanup'[i].of = g
    OBVIOUS
  <2>1. CASE g = h
    BY <1>1, <1>2, <2>1
  <2>2. CASE g # h
    <3>1. PICK i \in 1..n : cleanup[i].of = g
      BY <1>1, <2>2 DEF QueueMatches
    <3> QED
      BY <1>1, <1>2, <1>3, <3>1
  <2> QED
    BY <2>1, <2>2
<1> QED
  BY <1>5, <1>6, <1>7 DEF QueueMatches

\* The cleanup task takes the oldest signal, and its handle is over.
LEMMA QueueTail ==
  ASSUME TypeOK, QueueMatches, cleanup # <<>>, cleanup' = Tail(cleanup),
         stage' = [stage EXCEPT ![Head(cleanup).of] = "ended"]
  PROVE  QueueMatches'
<1> DEFINE n == Len(cleanup)
<1> DEFINE h == Head(cleanup).of
<1>1. cleanup \in Seq(Signal) /\ stage \in [Handle -> Stage] /\ n \in Nat
  BY DEF TypeOK
<1>2. n > 0 /\ Len(cleanup') = n - 1 /\ h = cleanup[1].of
  BY <1>1
<1>3. \A i \in 1..(n - 1) : i + 1 \in 1..n /\ cleanup'[i] = cleanup[i + 1]
  BY <1>1, <1>2
<1>4. \A i \in 1..n : cleanup[i].of \in Handle
  BY SignalsOf
<1>5. \A i \in 1..(n - 1) : cleanup[i + 1].of # h
  BY <1>1, <1>2, <1>3 DEF QueueMatches
<1>6. \A i \in 1..Len(cleanup') : stage'[cleanup'[i].of] = "signalled"
  BY <1>1, <1>2, <1>3, <1>4, <1>5 DEF QueueMatches
<1>7. \A i, j \in 1..Len(cleanup') : cleanup'[i].of = cleanup'[j].of => i = j
  BY <1>1, <1>2, <1>3 DEF QueueMatches
<1>8. \A g \in Handle : stage'[g] = "signalled" => \E i \in 1..Len(cleanup') : cleanup'[i].of = g
  <2> SUFFICES ASSUME NEW g \in Handle, stage'[g] = "signalled"
               PROVE  \E i \in 1..Len(cleanup') : cleanup'[i].of = g
    OBVIOUS
  <2>1. g # h /\ stage[g] = "signalled"
    BY <1>1, <1>2, <1>4
  <2>2. PICK i \in 1..n : cleanup[i].of = g
    BY <2>1 DEF QueueMatches
  <2>3. i - 1 \in 1..(n - 1) /\ (i - 1) + 1 = i
    BY <1>1, <1>2, <2>1, <2>2
  <2> QED
    BY <1>2, <1>3, <2>2, <2>3
<1> QED
  BY <1>6, <1>7, <1>8 DEF QueueMatches

\* No other step touches the queue or a handle that is in it.
LEMMA QueueRest ==
  ASSUME QueueMatches, TypeOK, cleanup' = cleanup,
         \A h \in Handle : stage'[h] = "signalled" <=> stage[h] = "signalled"
  PROVE  QueueMatches'
<1> QED
  BY SignalsOf DEF QueueMatches
-----------------------------------------------------------------------------
(* The entries of the tables: one lemma per way a step can touch them.     *)

\* Entries may go, and a handle may move on, as long as it stays alive.
LEMMA EntriesShrink ==
  ASSUME EntryInv, TypeOK',
         \A k \in Key : channels'[k] \in {channels[k], None},
         place' = place, chan' = chan,
         \A h \in Handle : previous'[h] \in {previous[h], None},
         \A h \in Handle : (stage'[h] = "idle" <=> stage[h] = "idle") /\ (Alive(h)' <=> Alive(h))
  PROVE  EntryInv'
<1> USE DEF EntryInv
<1>1. HandleShape'
  BY HandleAssumption DEF HandleShape, TypeOK
<1>2. Fresh'
  BY HandleAssumption DEF Fresh
<1>3. OnePlace'
  BY DEF OnePlace
<1>4. Owned'
  BY DEF Owned
<1> QED
  BY <1>1, <1>2, <1>3, <1>4

\* A call registers a channel of its own, over an entry or none (Replace,
\* JoinNew): it is the one owner of the new entry.
LEMMA EntryAdded ==
  ASSUME EntryInv, TypeOK', NEW h \in Handle, NEW k \in Key, stage[h] = "idle",
         stage' = [stage EXCEPT ![h] = "registered"],
         place' = [place EXCEPT ![h] = k],
         chan' = [chan EXCEPT ![h] = h],
         previous' \in {previous, [previous EXCEPT ![h] = channels[k]]},
         channels' = [channels EXCEPT ![k] = h]
  PROVE  EntryInv'
<1> USE DEF EntryInv
<1>1. /\ stage \in [Handle -> Stage] /\ place \in [Handle -> Key \cup {None}]
      /\ chan \in [Handle -> Handle \cup {None}] /\ previous \in [Handle -> Handle \cup {None}]
      /\ channels \in [Key -> Handle \cup {None}]
  BY DEF TypeOK
<1>2. /\ \A g \in Handle : chan[g] # h /\ previous[g] # h
      /\ \A j \in Key : channels[j] # h
      /\ chan[h] = None /\ previous[h] = None
  BY DEF Fresh, HandleShape, Alive
<1>3. \A g \in Handle : chan[g] # None /\ chan[g] = channels[k] => place[g] = k
  BY <1>1, HandleAssumption DEF OnePlace, Owned
<1>4. HandleShape'
  BY <1>1, <1>2, HandleAssumption DEF HandleShape, Alive
<1>5. Fresh'
  BY <1>1, <1>2 DEF Fresh
<1>6. OnePlace'
  BY <1>1, <1>2, <1>3 DEF OnePlace
<1>7. Owned'
  <2> SUFFICES ASSUME NEW j \in Key, channels'[j] # None
               PROVE  \E g \in Handle : chan'[g] = channels'[j] /\ place'[g] = j
    BY DEF Owned
  <2>1. CASE j = k
    BY <1>1, <2>1
  <2>2. CASE j # k
    <3>1. PICK g \in Handle : chan[g] = channels[j] /\ place[g] = j
      BY <1>1, <2>2 DEF Owned
    <3>2. g # h
      BY <1>1, <1>2, <2>2, <3>1
    <3> QED
      BY <1>1, <2>2, <3>1, <3>2
  <2> QED
    BY <2>1, <2>2
<1> QED
  BY <1>4, <1>5, <1>6, <1>7

\* A handle comes to listen on a channel somebody is on already
\* (JoinExisting, CloneSubscription).
LEMMA ListenerAdded ==
  ASSUME EntryInv, TypeOK', NEW h \in Handle, NEW g \in Handle, stage[h] = "idle", Alive(g),
         stage' \in {[stage EXCEPT ![h] = "registered"], [stage EXCEPT ![h] = "subscribed"]},
         place' = [place EXCEPT ![h] = place[g]],
         chan' = [chan EXCEPT ![h] = chan[g]],
         previous' = previous, channels' = channels
  PROVE  EntryInv'
<1> USE DEF EntryInv
<1>1. /\ stage \in [Handle -> Stage] /\ place \in [Handle -> Key \cup {None}]
      /\ chan \in [Handle -> Handle \cup {None}] /\ previous \in [Handle -> Handle \cup {None}]
  BY DEF TypeOK
<1>2. /\ chan[h] = None /\ previous[h] = None /\ h # g
      /\ chan[g] \in Handle /\ place[g] \in Key /\ stage[chan[g]] # "idle"
  <2>1. chan[h] = None /\ previous[h] = None /\ h # g
    BY DEF HandleShape, Alive
  <2>2. chan[g] \in Handle /\ place[g] \in Key
    BY DEF HandleShape
  <2>3. stage[chan[g]] # "idle"
    BY <2>2 DEF Fresh
  <2> QED
    BY <2>1, <2>2, <2>3
<1>3. HandleShape'
  BY <1>1, <1>2, HandleAssumption DEF HandleShape, Alive
<1>4. Fresh'
  BY <1>1, <1>2 DEF Fresh
<1>5. OnePlace'
  BY <1>1, <1>2, HandleAssumption DEF OnePlace
<1>6. Owned'
  BY <1>1, <1>2, HandleAssumption DEF Owned
<1> QED
  BY <1>3, <1>4, <1>5, <1>6

\* v is what h replaced, put back.
Restored(h, v) == v = previous[h] /\ previous[h] # None /\ ListensOn(previous[h])

\* What a release or a withdrawal of h does to the tables.
LEMMA EntryForgotten ==
  ASSUME EntryInv, NEW h \in Handle, Alive(h), channels' \in {Released(h), Withdrawn(h)}
  PROVE  \A k \in Key : channels'[k] # channels[k] =>
           k = place[h] /\ MayRemove(h) /\ (channels'[k] = None \/ Restored(h, channels'[k]))
<1> SUFFICES ASSUME NEW k \in Key, channels'[k] # channels[k]
             PROVE  k = place[h] /\ MayRemove(h) /\ (channels'[k] = None \/ Restored(h, channels'[k]))
  OBVIOUS
<1>1. channels \in [Key -> Handle \cup {None}] /\ place[h] \in Key
  BY DEF EntryInv, TypeOK, HandleShape
<1>2. MayRemove(h)
  BY DEF Released, Withdrawn
<1>3. \/ channels' = [channels EXCEPT ![place[h]] = None]
      \/ channels' = [channels EXCEPT ![place[h]] = previous[h]] /\ Restored(h, previous[h])
  BY <1>2 DEF Released, Withdrawn, Restored
<1> QED
  BY <1>1, <1>2, <1>3 DEF Restored

\* A handle that listens no more is forgotten (Withdraw, CleanupTask): its
\* entry goes, or goes back to the channel it had replaced, only when nobody
\* else is on the entry's channel.
LEMMA HandleForgotten ==
  ASSUME EntryInv, TypeOK', NEW h \in Handle, Alive(h), stage[h] \notin Listening,
         channels' \in {Released(h), Withdrawn(h)}, Forget(h)
  PROVE  EntryInv'
<1> USE DEF EntryInv
<1>1. /\ stage \in [Handle -> Stage] /\ place \in [Handle -> Key \cup {None}]
      /\ chan \in [Handle -> Handle \cup {None}] /\ previous \in [Handle -> Handle \cup {None}]
      /\ channels \in [Key -> Handle \cup {None}]
  BY DEF TypeOK
<1>2. place[h] \in Key /\ chan[h] \in Handle
  BY DEF HandleShape
<1>3. /\ stage' = [stage EXCEPT ![h] = "ended"] /\ place' = [place EXCEPT ![h] = None]
      /\ chan' = [chan EXCEPT ![h] = None] /\ previous' = [previous EXCEPT ![h] = None]
  BY DEF Forget
<1>4. \A k \in Key : channels'[k] # channels[k] =>
        k = place[h] /\ MayRemove(h) /\ (channels'[k] = None \/ Restored(h, channels'[k]))
  BY EntryForgotten
<1>5. HandleShape'
  BY <1>1, <1>2, <1>3 DEF HandleShape, Alive
<1>6. Fresh'
  <2> SUFFICES ASSUME NEW c \in Handle, stage'[c] = "idle"
               PROVE  /\ \A g \in Handle : chan'[g] # c /\ previous'[g] # c
                      /\ \A k \in Key : channels'[k] # c
    BY DEF Fresh
  <2>1. stage[c] = "idle"
    BY <1>1, <1>3
  <2>2. /\ \A g \in Handle : chan[g] # c /\ previous[g] # c
        /\ \A k \in Key : channels[k] # c
    BY <2>1 DEF Fresh
  <2> QED
    BY <1>1, <1>3, <1>4, <2>2, HandleAssumption DEF Restored
<1>7. OnePlace'
  <2>1. \A g \in Handle : chan'[g] # None => g # h /\ chan'[g] = chan[g] /\ place'[g] = place[g]
    BY <1>1, <1>3
  <2>2. \A g \in Handle : previous'[g] # None => previous'[g] = previous[g] /\ place'[g] = place[g]
    BY <1>1, <1>3
  <2> QED
    BY <2>1, <2>2 DEF OnePlace
<1>8. Owned'
  <2> SUFFICES ASSUME NEW k \in Key, channels'[k] # None
               PROVE  \E g \in Handle : chan'[g] = channels'[k] /\ place'[g] = k
    BY DEF Owned
  <2>1. CASE channels'[k] = channels[k]
    <3>1. PICK g \in Handle : chan[g] = channels[k] /\ place[g] = k
      BY <2>1 DEF Owned
    <3>2. CASE g # h
      BY <1>1, <1>3, <2>1, <3>1, <3>2
    <3>3. CASE g = h /\ MayRemove(h)
      <4>1. k = place[h] /\ ~ListensOn(chan[h]) /\ channels[k] = chan[h]
        BY <3>1, <3>3 DEF MayRemove
      <4>2. \/ channels'[k] = None
            \/ previous[h] # None /\ ListensOn(previous[h]) /\ channels'[k] = previous[h]
        BY <1>1, <1>2, <3>3, <4>1 DEF Released, Withdrawn
      <4> QED
        BY <2>1, <4>1, <4>2
    <3>4. CASE g = h /\ ~MayRemove(h)
      <4>1. PICK w \in Handle : stage[w] \in Listening /\ chan[w] = chan[h]
        BY <3>1, <3>4 DEF MayRemove, IsEntry, ListensOn
      <4>2. w # h /\ place[w] = k
        BY <1>2, <3>1, <3>4, <4>1, HandleAssumption DEF OnePlace
      <4> QED
        BY <1>1, <1>3, <2>1, <3>1, <3>4, <4>1, <4>2
    <3> QED
      BY <3>2, <3>3, <3>4
  <2>2. CASE k = place[h] /\ channels'[k] = previous[h] /\ previous[h] # None /\ ListensOn(previous[h])
    <3>1. PICK w \in Handle : stage[w] \in Listening /\ chan[w] = previous[h]
      BY <2>2 DEF ListensOn
    <3>2. w # h /\ place[w] = k
      BY <2>2, <3>1 DEF OnePlace
    <3> QED
      BY <1>1, <1>3, <2>2, <3>1, <3>2
  <2> QED
    BY <1>4, <2>1, <2>2 DEF Restored
<1> QED
  BY <1>5, <1>6, <1>7, <1>8
-----------------------------------------------------------------------------
(* The steps, one by one.                                                  *)

\* Every step keeps the queue in line with the handles' stages.
LEMMA QueueStep == TypeOK /\ QueueMatches /\ [Next]_vars => QueueMatches'
<1> SUFFICES ASSUME TypeOK, QueueMatches, [Next]_vars PROVE QueueMatches'
  OBVIOUS
<1> USE DEF tables, handles, shutdowns, flags
<1>1. stage \in [Handle -> Stage]
  BY DEF TypeOK
<1>2. ASSUME NEW h \in Handle, CallStep(h) PROVE QueueMatches'
  <2>1. ASSUME NEW i \in Id, Replace(h, i) \/ JoinExisting(h, i) \/ JoinNew(h, i)
        PROVE  QueueMatches'
    BY <1>1, <2>1, QueueRest DEF Replace, JoinExisting, JoinNew
  <2>2. CASE StartWrite(h) \/ WriteSucceeds(h) \/ WriteFails(h) \/ Withdraw(h) \/ AbandonCall(h)
    BY <1>1, <2>2, QueueRest DEF StartWrite, WriteSucceeds, WriteFails, Withdraw, AbandonCall, Forget
  <2>3. CASE SignalWithdraw(h)
    BY <2>3, QueueAppend DEF SignalWithdraw
  <2> QED
    BY <1>2, <2>1, <2>2, <2>3 DEF CallStep
<1>3. ASSUME NEW h \in Handle, SubscriptionStep(h) PROVE QueueMatches'
  <2>1. ASSUME NEW g \in Handle, CloneSubscription(h, g) PROVE QueueMatches'
    BY <1>1, <2>1, QueueRest DEF CloneSubscription
  <2>2. CASE DropSubscription(h)
    BY <1>1, <2>2, QueueRest DEF DropSubscription
  <2>3. CASE SignalRelease(h)
    BY <2>3, QueueAppend DEF SignalRelease
  <2> QED
    BY <1>3, <2>1, <2>2, <2>3 DEF SubscriptionStep
<1>4. ASSUME NEW k \in Key, CancelEntry(k) PROVE QueueMatches'
  BY <1>4, QueueRest DEF CancelEntry
<1>5. CASE CleanupTask
  BY <1>5, QueueTail DEF CleanupTask, Forget
<1>6. CASE DispatcherStepTaken
  <2>1. cleanup' = cleanup /\ stage' = stage
    BY <1>6 DEF DispatcherStepTaken, RouteExecutionData, ConnectionLost, ReadEndsBus, ReconnectFails, ShutdownMessage,
         DispatcherCloses, ReconnectSucceeds, MarkConnected, ResetChannels, Tell, DropTable,
         DropExecutions, DispatcherStops, AbortLands, ShutdownCutShort
  <2> QED
    BY <2>1, QueueRest
<1>7. CASE ShutdownStep
  <2>1. cleanup' = cleanup /\ stage' = stage
    BY <1>7 DEF ShutdownStep, InstallHandle, DropClient, BeginDisconnect, TakeHandle, Joined,
         JoinTimesOut, ClearRequests, ClearOrders
  <2> QED
    BY <2>1, QueueRest
<1>8. CASE UNCHANGED vars
  BY <1>8, QueueRest DEF vars
<1> QED
  BY <1>2, <1>3, <1>4, <1>5, <1>6, <1>7, <1>8 DEF Next

\* Every step keeps the entries owned.
LEMMA EntryStep == EntryInv /\ QueueMatches /\ [Next]_vars => EntryInv'
<1> SUFFICES ASSUME EntryInv, QueueMatches, [Next]_vars PROVE EntryInv'
  OBVIOUS
<1> USE DEF tables, handles, shutdowns, flags
<1>1. TypeOK /\ TypeOK'
  BY TypeStep DEF EntryInv
<1>2. /\ stage \in [Handle -> Stage] /\ channels \in [Key -> Handle \cup {None}]
      /\ previous \in [Handle -> Handle \cup {None}]
  BY <1>1 DEF TypeOK
<1>3. ASSUME NEW h \in Handle, CallStep(h) PROVE EntryInv'
  <2>1. ASSUME NEW i \in Id, Replace(h, i) PROVE EntryInv'
    <3>1. <<"Request", i>> \in Key
      BY DEF Key, Table
    <3> QED
      BY <1>1, <2>1, <3>1, EntryAdded DEF Replace
  <2>2. ASSUME NEW i \in Id, JoinNew(h, i) PROVE EntryInv'
    <3>1. <<"Order", i>> \in Key
      BY DEF Key, Table
    <3> QED
      BY <1>1, <2>2, <3>1, EntryAdded DEF JoinNew
  <2>3. ASSUME NEW i \in Id, JoinExisting(h, i) PROVE EntryInv'
    <3> DEFINE k == <<"Order", i>>
    <3>1. k \in Key
      BY DEF Key, Table
    <3>2. PICK g \in Handle : chan[g] = channels[k] /\ place[g] = k
      BY <2>3, <3>1 DEF JoinExisting, EntryInv, Owned
    <3>3. Alive(g)
      BY <2>3, <3>2 DEF JoinExisting, EntryInv, HandleShape
    <3> QED
      BY <1>1, <2>3, <3>2, <3>3, ListenerAdded DEF JoinExisting
  <2>4. CASE StartWrite(h) \/ WriteFails(h) \/ AbandonCall(h) \/ SignalWithdraw(h)
    BY <1>1, <1>2, <2>4, EntriesShrink DEF StartWrite, WriteFails, AbandonCall, SignalWithdraw, Alive
  <2>5. CASE WriteSucceeds(h)
    BY <1>1, <1>2, <2>5, EntriesShrink DEF WriteSucceeds, Alive
  <2>6. CASE Withdraw(h)
    BY <1>1, <2>6, HandleForgotten DEF Withdraw, Alive, Listening
  <2> QED
    BY <1>3, <2>1, <2>2, <2>3, <2>4, <2>5, <2>6 DEF CallStep
<1>4. ASSUME NEW h \in Handle, SubscriptionStep(h) PROVE EntryInv'
  <2>1. ASSUME NEW g \in Handle, CloneSubscription(h, g) PROVE EntryInv'
    BY <1>1, <2>1, ListenerAdded DEF CloneSubscription, Alive
  <2>2. CASE DropSubscription(h) \/ SignalRelease(h)
    BY <1>1, <1>2, <2>2, EntriesShrink DEF DropSubscription, SignalRelease, Alive
  <2> QED
    BY <1>4, <2>1, <2>2 DEF SubscriptionStep
<1>5. ASSUME NEW k \in Key, CancelEntry(k) PROVE EntryInv'
  BY <1>1, <1>2, <1>5, EntriesShrink DEF CancelEntry, Alive
<1>6. CASE CleanupTask
  <2> DEFINE h == Head(cleanup).of
  <2>1. h \in Handle /\ stage[h] = "signalled"
    <3>1. 1 \in 1..Len(cleanup) /\ h = cleanup[1].of
      BY <1>1, <1>6 DEF CleanupTask, TypeOK
    <3> QED
      BY <1>1, <3>1, SignalsOf DEF QueueMatches
  <2>2. channels' \in {Released(h), Withdrawn(h)} /\ Forget(h)
    BY <1>6 DEF CleanupTask
  <2> QED
    BY <1>1, <2>1, <2>2, HandleForgotten DEF Alive, Listening
<1>7. CASE DispatcherStepTaken \/ ShutdownStep \/ UNCHANGED vars
  <2>1. \A k \in Key : channels'[k] \in {channels[k], None}
    <3>1. channels' = channels \/ \E t \in Table : channels' = Cleared(t)
      BY <1>7 DEF DispatcherStepTaken, RouteExecutionData, ConnectionLost, ReadEndsBus, ReconnectFails, ShutdownMessage,
           DispatcherCloses, ReconnectSucceeds, MarkConnected, ResetChannels, Tell, DropTable,
           DropExecutions, DispatcherStops, AbortLands, ShutdownCutShort, ShutdownStep, InstallHandle, DropClient,
           BeginDisconnect, TakeHandle, Joined, JoinTimesOut, ClearRequests, ClearOrders, vars, Table
    <3> QED
      BY <3>1 DEF Cleared
  <2>2. UNCHANGED <<stage, place, chan, previous>>
    BY <1>7 DEF DispatcherStepTaken, RouteExecutionData, ConnectionLost, ReadEndsBus, ReconnectFails, ShutdownMessage,
         DispatcherCloses, ReconnectSucceeds, MarkConnected, ResetChannels, Tell, DropTable,
         DropExecutions, DispatcherStops, AbortLands, ShutdownCutShort, ShutdownStep, InstallHandle, DropClient,
         BeginDisconnect, TakeHandle, Joined, JoinTimesOut, ClearRequests, ClearOrders, vars
  <2> QED
    BY <1>1, <2>1, <2>2, EntriesShrink DEF Alive
<1> QED
  BY <1>3, <1>4, <1>5, <1>6, <1>7 DEF Next

\* At first there is nothing to own and nothing queued.
LEMMA EntryInit == Init => EntryInv /\ QueueMatches
<1> SUFFICES ASSUME Init PROVE EntryInv /\ QueueMatches
  OBVIOUS
<1>1. TypeOK
  BY TypeInit
<1>2. HandleShape /\ Fresh /\ OnePlace /\ Owned
  BY HandleAssumption DEF Init, HandleShape, Alive, Fresh, OnePlace, Owned, Key
<1>3. QueueMatches
  BY DEF Init, QueueMatches
<1> QED
  BY <1>1, <1>2, <1>3 DEF EntryInv

\* The invariant behind the two theorems that follow.
LEMMA EntriesHold == Spec => [](EntryInv /\ QueueMatches)
<1>1. EntryInv /\ QueueMatches /\ [Next]_vars => (EntryInv /\ QueueMatches)'
  BY EntryStep, QueueStep DEF EntryInv
<1> QED
  BY <1>1, EntryInit, PTL DEF Spec

\* No entry of a table outlives everyone who would remove it, whatever is
\* written, refused, dropped, cloned, joined or replaced, in whatever order.
THEOREM EntriesNeverLeak == Spec => []NoLeakedEntry
<1>1. EntryInv /\ QueueMatches => NoLeakedEntry
  <2> SUFFICES ASSUME EntryInv, QueueMatches, NEW k \in Key, channels[k] # None
               PROVE  \E h \in Handle : chan[h] = channels[k] /\ place[h] = k /\ WillRelease(h)
    BY DEF NoLeakedEntry
  <2>1. PICK h \in Handle : chan[h] = channels[k] /\ place[h] = k
    BY DEF EntryInv, Owned
  <2>2. Alive(h) /\ stage[h] \in Stage
    BY <2>1 DEF EntryInv, HandleShape, TypeOK
  <2>3. WillRelease(h)
    BY <2>2 DEF WillRelease, QueueMatches, Alive, Stage
  <2> QED
    BY <2>1, <2>3
<1> QED
  BY <1>1, EntriesHold, PTL

\* A cleanup or a withdrawal never takes the entry of somebody who listens.
THEOREM ListenersStay == Spec => ListenersKeepTheirEntry
<1> DEFINE Keeps == CleanupTask \/ (\E g \in Handle : Withdraw(g)) =>
       \A h \in Handle : stage[h] \in Listening /\ IsEntry(h) => channels'[place[h]] = chan[h]
<1>1. ASSUME EntryInv, QueueMatches, NEW g \in Handle, Alive(g), stage[g] \notin Listening,
             channels' \in {Released(g), Withdrawn(g)}, NEW h \in Handle,
             stage[h] \in Listening, IsEntry(h)
      PROVE  channels'[place[h]] = chan[h]
  <2>1. /\ channels \in [Key -> Handle \cup {None}]
        /\ place[g] \in Key /\ place[h] \in Key
    BY <1>1 DEF EntryInv, TypeOK, HandleShape, Alive, Listening
  <2>2. CASE place[h] = place[g]
    <3>1. ~MayRemove(g)
      BY <1>1, <2>2 DEF MayRemove, IsEntry, ListensOn
    <3> QED
      BY <1>1, <3>1 DEF Released, Withdrawn, IsEntry
  <2>3. CASE place[h] # place[g]
    BY <1>1, <2>1, <2>3 DEF Released, Withdrawn, IsEntry
  <2> QED
    BY <2>2, <2>3
<1>2. EntryInv /\ QueueMatches => Keeps
  <2> SUFFICES ASSUME EntryInv, QueueMatches, CleanupTask \/ (\E g \in Handle : Withdraw(g)),
                      NEW h \in Handle, stage[h] \in Listening, IsEntry(h)
               PROVE  channels'[place[h]] = chan[h]
    OBVIOUS
  <2>1. CASE CleanupTask
    <3> DEFINE g == Head(cleanup).of
    <3>1. 1 \in 1..Len(cleanup) /\ g = cleanup[1].of
      BY <2>1 DEF CleanupTask, EntryInv, TypeOK
    <3>2. g \in Handle /\ stage[g] = "signalled"
      BY <3>1, SignalsOf DEF QueueMatches, EntryInv
    <3>3. channels' \in {Released(g), Withdrawn(g)}
      BY <2>1 DEF CleanupTask
    <3> QED
      BY <1>1, <3>2, <3>3 DEF Alive, Listening
  <2>2. ASSUME NEW g \in Handle, Withdraw(g) PROVE channels'[place[h]] = chan[h]
    BY <1>1, <2>2 DEF Withdraw, Alive, Listening
  <2> QED
    BY <2>1, <2>2
<1>3. EntryInv /\ QueueMatches => [Keeps]_vars
  BY <1>2
<1> QED
  BY <1>3, EntriesHold, PTL DEF ListenersKeepTheirEntry
-----------------------------------------------------------------------------
(* Shutdown.                                                               *)

\* A shutdown clears a table only after it has closed the socket.
LEMMA ClosingStepClosed == TypeOK /\ ClosingClosed /\ [Next]_vars => ClosingClosed'
<1> SUFFICES ASSUME TypeOK, ClosingClosed, [Next]_vars PROVE ClosingClosed'
  OBVIOUS
<1> USE DEF tables, handles, shutdowns, flags, ClosingClosed, TypeOK
<1>1. ASSUME NEW h \in Handle, CallStep(h) PROVE ClosingClosed'
  BY <1>1 DEF CallStep, Replace, JoinExisting, JoinNew, StartWrite, WriteSucceeds, WriteFails,
       Withdraw, AbandonCall, SignalWithdraw
<1>2. ASSUME NEW h \in Handle, SubscriptionStep(h) PROVE ClosingClosed'
  BY <1>2 DEF SubscriptionStep, CloneSubscription, DropSubscription, SignalRelease
<1>3. ASSUME NEW k \in Key, CancelEntry(k) PROVE ClosingClosed'
  BY <1>3 DEF CancelEntry
<1>4. CASE CleanupTask
  BY <1>4 DEF CleanupTask
<1>5. CASE DispatcherStepTaken
  BY <1>5 DEF DispatcherStepTaken, RouteExecutionData, ConnectionLost, ReadEndsBus, ReconnectFails, ShutdownMessage,
       DispatcherCloses, MarkShutdown, ReconnectSucceeds, MarkConnected, ResetChannels, Tell,
       DropTable, DropExecutions, DispatcherStops, AbortLands, ShutdownCutShort
<1>6. CASE ShutdownStep
  <2>1. CASE InstallHandle \/ DropClient
    BY <2>1 DEF InstallHandle, DropClient, MarkShutdown
  <2>2. ASSUME NEW p \in Caller, BeginDisconnect(p) PROVE ClosingClosed'
    BY <2>2 DEF BeginDisconnect, MarkShutdown
  <2>3. ASSUME NEW p \in Caller, TakeHandle(p) \/ Joined(p) \/ JoinTimesOut(p) PROVE ClosingClosed'
    BY <2>3 DEF TakeHandle, Joined, JoinTimesOut, Closer
  <2>4. ASSUME NEW p \in Closer, ClearRequests(p) \/ ClearOrders(p) PROVE ClosingClosed'
    BY <2>4 DEF ClearRequests, ClearOrders
  <2> QED
    BY <1>6, <2>1, <2>2, <2>3, <2>4 DEF ShutdownStep
<1>7. CASE UNCHANGED vars
  BY <1>7 DEF vars
<1> QED
  BY <1>1, <1>2, <1>3, <1>4, <1>5, <1>6, <1>7 DEF Next

\* A step that registers no channel and lets none be written or cloned after
\* the close adds nothing to the channels registered too late.
LEMMA TooLateKept ==
  ASSUME NEW S \in SUBSET Handle, TooLate(S), socketClosed => socketClosed',
         \A k \in Key : ClearedByShutdown(k[1])' /\ channels'[k] # None =>
           channels'[k] \in S \/ (ClearedByShutdown(k[1]) /\ channels'[k] = channels[k]),
         \A h \in Handle : stage'[h] = "idle" => stage[h] = "idle",
         \A h \in Handle : chan'[h] \in S =>
           /\ chan[h] = chan'[h]
           /\ previous'[h] \in {previous[h], None}
           /\ stage'[h] \in {"writing", "subscribed"} => stage[h] \in {"writing", "subscribed"}
  PROVE  TooLate(S)'
BY DEF TooLate

\* A call registers a channel: too late if its table has been cleared.
LEMMA TooLateAdded ==
  ASSUME EntryInv, ClosingClosed, NEW S \in SUBSET Handle, TooLate(S),
         NEW h \in Handle, NEW t \in Table, NEW i \in Id, stage[h] = "idle",
         stage' = [stage EXCEPT ![h] = "registered"],
         chan' = [chan EXCEPT ![h] = h],
         previous' \in {previous, [previous EXCEPT ![h] = channels[<<t, i>>]]},
         channels' = [channels EXCEPT ![<<t, i>>] = h],
         UNCHANGED <<closing, socketClosed>>
  PROVE  \E T \in SUBSET Handle : TooLate(T)'
<1> DEFINE k == <<t, i>>
<1> PICK T \in SUBSET Handle : T = IF ClearedByShutdown(t) THEN S \cup {h} ELSE S
  OBVIOUS
<1>1. /\ k \in Key /\ k[1] = t
      /\ stage \in [Handle -> Stage] /\ chan \in [Handle -> Handle \cup {None}]
      /\ previous \in [Handle -> Handle \cup {None}] /\ channels \in [Key -> Handle \cup {None}]
  BY DEF EntryInv, TypeOK, Key
<1>2. /\ \A g \in Handle : chan[g] # h /\ previous[g] # h
      /\ previous[h] = None /\ h \notin S
  BY DEF EntryInv, Fresh, HandleShape, Alive, TooLate
<1>3. \A u : ClearedByShutdown(u)' <=> ClearedByShutdown(u)
  BY DEF ClearedByShutdown
<1>4. ClearedByShutdown(t) => socketClosed
  BY DEF ClearedByShutdown, ClosingClosed
<1>5. T # {} => socketClosed'
  BY <1>4 DEF TooLate
<1>6. \A c \in T : stage'[c] # "idle"
  BY <1>1 DEF TooLate
<1>7. \A j \in Key : ClearedByShutdown(j[1])' /\ channels'[j] # None => channels'[j] \in T
  BY <1>1, <1>3 DEF TooLate
<1>8. ASSUME NEW g \in Handle, chan'[g] \in T
      PROVE  /\ stage'[g] \notin {"writing", "subscribed"}
             /\ previous'[g] # None => previous'[g] \in T
  <2>1. CASE g = h
    <3>1. stage'[h] = "registered" /\ chan'[h] = h
      BY <1>1
    <3>2. ClearedByShutdown(t)
      BY <1>2, <1>8, <2>1, <3>1
    <3>3. previous'[h] \in {None, channels[k]}
      BY <1>1, <1>2
    <3>4. channels[k] # None => channels[k] \in S
      BY <1>1, <3>2 DEF TooLate
    <3> QED
      BY <2>1, <3>1, <3>2, <3>3, <3>4
  <2>2. CASE g # h
    <3>1. chan'[g] = chan[g] /\ previous'[g] = previous[g] /\ stage'[g] = stage[g] /\ chan[g] \in S
      BY <1>1, <1>2, <1>8, <2>2
    <3> QED
      BY <3>1 DEF TooLate
  <2> QED
    BY <2>1, <2>2
<1>9. TooLate(T)'
  BY <1>5, <1>6, <1>7, <1>8 DEF TooLate
<1> QED
  BY <1>9
\* The steps that clear tables, close the socket or leave both alone, and
\* touch no handle.
LEMMA TooLateTables ==
  ASSUME TypeOK, NEW S \in SUBSET Handle, TooLate(S), socketClosed => socketClosed',
         UNCHANGED <<stage, chan, previous>>,
         \A k \in Key : channels'[k] \in {channels[k], None},
         \A k \in Key : ClearedByShutdown(k[1])' => ClearedByShutdown(k[1]) \/ channels'[k] = None
  PROVE  TooLate(S)'
BY TooLateKept

\* A release or a withdrawal puts back only a channel that was late itself.
LEMMA TooLateForgotten ==
  ASSUME EntryInv, NEW S \in SUBSET Handle, TooLate(S), NEW h \in Handle, Alive(h),
         channels' \in {Released(h), Withdrawn(h)}, Forget(h), UNCHANGED <<closing, socketClosed>>
  PROVE  TooLate(S)'
<1>1. /\ stage \in [Handle -> Stage] /\ chan \in [Handle -> Handle \cup {None}]
      /\ previous \in [Handle -> Handle \cup {None}] /\ chan[h] \in Handle
  BY DEF EntryInv, TypeOK, HandleShape
<1>2. \A g \in Handle : chan'[g] \in S =>
        g # h /\ chan'[g] = chan[g] /\ previous'[g] = previous[g] /\ stage'[g] = stage[g]
  BY <1>1, HandleAssumption DEF Forget
<1>3. \A g \in Handle : stage'[g] = "idle" => stage[g] = "idle"
  BY <1>1 DEF Forget
<1>4. ASSUME NEW k \in Key, ClearedByShutdown(k[1]), channels'[k] # None
      PROVE  channels'[k] \in S
  <2>1. CASE channels'[k] = channels[k]
    BY <1>4, <2>1 DEF TooLate
  <2>2. CASE channels'[k] # channels[k]
    <3>1. MayRemove(h) /\ k = place[h] /\ channels'[k] = previous[h]
      BY <1>4, <2>2, EntryForgotten DEF Restored
    <3>2. channels[k] = chan[h] /\ chan[h] # None
      BY <1>1, <3>1, HandleAssumption DEF MayRemove, IsEntry
    <3>3. chan[h] \in S
      BY <1>4, <3>2 DEF TooLate
    <3> QED
      BY <1>4, <3>1, <3>3 DEF TooLate
  <2> QED
    BY <2>1, <2>2
<1>5. \A t : ClearedByShutdown(t)' <=> ClearedByShutdown(t)
  BY DEF ClearedByShutdown
<1> QED
  BY <1>2, <1>3, <1>4, <1>5 DEF TooLate

\* Every step keeps the late channels apart from the written ones.
LEMMA QuietStep == EntryInv /\ QueueMatches /\ QuietInv /\ [Next]_vars => QuietInv'
<1> SUFFICES ASSUME EntryInv, QueueMatches, QuietInv, [Next]_vars
             PROVE  \E T \in SUBSET Handle : TooLate(T)'
  BY ClosingStepClosed DEF QuietInv, EntryInv
<1> USE DEF tables, handles, shutdowns, flags
<1>1. PICK S \in SUBSET Handle : TooLate(S)
  BY DEF QuietInv
<1>2. /\ TypeOK /\ ClosingClosed
      /\ stage \in [Handle -> Stage] /\ chan \in [Handle -> Handle \cup {None}]
      /\ previous \in [Handle -> Handle \cup {None}] /\ channels \in [Key -> Handle \cup {None}]
      /\ closing \in [Closer -> ClosingStep]
  BY DEF EntryInv, TypeOK, QuietInv
<1>3. closing' = closing => \A t : ClearedByShutdown(t)' <=> ClearedByShutdown(t)
  BY DEF ClearedByShutdown
<1>4. ASSUME NEW h \in Handle, CallStep(h) PROVE \E T \in SUBSET Handle : TooLate(T)'
  <2>1. ASSUME NEW i \in Id, Replace(h, i) PROVE \E T \in SUBSET Handle : TooLate(T)'
    BY <1>1, <1>2, <2>1, TooLateAdded DEF Replace, Table
  <2>2. ASSUME NEW i \in Id, JoinNew(h, i) PROVE \E T \in SUBSET Handle : TooLate(T)'
    BY <1>1, <1>2, <2>2, TooLateAdded DEF JoinNew, Table
  <2>3. ASSUME NEW i \in Id, JoinExisting(h, i) PROVE TooLate(S)'
    <3>1. previous[h] = None /\ stage'[h] = "registered"
      BY <1>2, <2>3 DEF EntryInv, HandleShape, Alive, JoinExisting
    <3>2. \A g \in Handle : g # h => stage'[g] = stage[g] /\ chan'[g] = chan[g]
      BY <1>2, <2>3 DEF JoinExisting
    <3>3. previous' = previous /\ channels' = channels /\ closing' = closing /\ socketClosed' = socketClosed
      BY <2>3 DEF JoinExisting
    <3>4. stage[h] = "idle"
      BY <2>3 DEF JoinExisting
    <3> QED
      BY <1>1, <1>3, <3>1, <3>2, <3>3, <3>4 DEF TooLate
  <2>4. CASE StartWrite(h)
    <3>1. S = {}
      BY <1>1, <2>4 DEF StartWrite, TooLate
    <3> QED
      BY <1>1, <1>2, <1>3, <2>4, <3>1, TooLateKept DEF StartWrite
  <2>5. CASE WriteSucceeds(h) \/ WriteFails(h) \/ AbandonCall(h) \/ SignalWithdraw(h)
    BY <1>1, <1>2, <1>3, <2>5, TooLateKept DEF WriteSucceeds, WriteFails, AbandonCall, SignalWithdraw
  <2>6. CASE Withdraw(h)
    BY <1>1, <2>6, TooLateForgotten DEF Withdraw, Alive
  <2> QED
    BY <1>4, <2>1, <2>2, <2>3, <2>4, <2>5, <2>6 DEF CallStep
<1>5. ASSUME NEW h \in Handle, SubscriptionStep(h) PROVE TooLate(S)'
  <2>1. ASSUME NEW g \in Handle, CloneSubscription(h, g) PROVE TooLate(S)'
    <3>1. chan[h] \notin S
      BY <1>1, <2>1 DEF CloneSubscription, TooLate
    <3> QED
      BY <1>1, <1>2, <1>3, <2>1, <3>1, TooLateKept DEF CloneSubscription
  <2>2. CASE DropSubscription(h) \/ SignalRelease(h)
    BY <1>1, <1>2, <1>3, <2>2, TooLateKept DEF DropSubscription, SignalRelease
  <2> QED
    BY <1>5, <2>1, <2>2 DEF SubscriptionStep
<1>6. ASSUME NEW k \in Key, CancelEntry(k) PROVE TooLate(S)'
  BY <1>1, <1>2, <1>3, <1>6, TooLateTables DEF CancelEntry
<1>7. CASE CleanupTask
  <2> DEFINE h == Head(cleanup).of
  <2>1. 1 \in 1..Len(cleanup) /\ h = cleanup[1].of
    BY <1>2, <1>7 DEF CleanupTask, TypeOK
  <2>2. h \in Handle /\ stage[h] = "signalled"
    BY <1>2, <2>1, SignalsOf DEF QueueMatches
  <2>3. channels' \in {Released(h), Withdrawn(h)} /\ Forget(h) /\ UNCHANGED <<closing, socketClosed>>
    BY <1>7 DEF CleanupTask
  <2> QED
    BY <1>1, <2>2, <2>3, TooLateForgotten DEF Alive
<1>8. CASE DispatcherStepTaken
  <2>1. CASE ReadEndsBus \/ ReconnectFails \/ ShutdownMessage
    <3>1. /\ socketClosed' /\ channels' = channels /\ UNCHANGED <<stage, chan, previous>>
          /\ closing' = [closing EXCEPT !["dispatcher"] = "requests"]
      BY <2>1 DEF ReadEndsBus, ReconnectFails, ShutdownMessage, DispatcherCloses, MarkShutdown
    <3>2. \A t : ClearedByShutdown(t)' => ClearedByShutdown(t)
      BY <1>2, <3>1 DEF ClearedByShutdown
    <3> QED
      BY <1>1, <1>2, <3>1, <3>2, TooLateTables
  <2>2. CASE ResetChannels
    <3>1. \A k \in Key : channels'[k] \in {channels[k], None}
      BY <2>2 DEF ResetChannels, Tell, DropTable, DropExecutions, Cleared
    <3>2. UNCHANGED <<stage, chan, previous, closing, socketClosed>>
      BY <2>2 DEF ResetChannels, Tell, DropTable, DropExecutions
    <3> QED
      BY <1>1, <1>2, <1>3, <3>1, <3>2, TooLateTables
  <2>3. CASE ~(ReadEndsBus \/ ReconnectFails \/ ShutdownMessage \/ ResetChannels)
    <3>1. UNCHANGED <<channels, stage, chan, previous, closing, socketClosed>>
      BY <1>8, <2>3 DEF DispatcherStepTaken, RouteExecutionData, ConnectionLost, ReconnectSucceeds,
           MarkConnected, DispatcherStops, AbortLands, ShutdownCutShort
    <3> QED
      BY <1>1, <1>2, <1>3, <3>1, TooLateTables
  <2> QED
    BY <2>1, <2>2, <2>3
<1>9. CASE ShutdownStep
  <2>1. CASE InstallHandle \/ DropClient
    BY <1>1, <1>2, <1>3, <2>1, TooLateTables DEF InstallHandle, DropClient, MarkShutdown
  <2>2. ASSUME NEW p \in Caller, BeginDisconnect(p) PROVE TooLate(S)'
    <3>1. \A t : ClearedByShutdown(t)' => ClearedByShutdown(t)
      BY <1>2, <2>2 DEF BeginDisconnect, ClearedByShutdown
    <3> QED
      BY <1>1, <1>2, <2>2, <3>1, TooLateTables DEF BeginDisconnect, MarkShutdown
  <2>3. ASSUME NEW p \in Caller, TakeHandle(p) \/ Joined(p) \/ JoinTimesOut(p) PROVE TooLate(S)'
    <3>1. \A t : ClearedByShutdown(t)' => ClearedByShutdown(t)
      BY <1>2, <2>3 DEF TakeHandle, Joined, JoinTimesOut, ClearedByShutdown, ClosingStep
    <3> QED
      BY <1>1, <1>2, <2>3, <3>1, TooLateTables DEF TakeHandle, Joined, JoinTimesOut
  <2>4. ASSUME NEW p \in Closer, ClearRequests(p) \/ ClearOrders(p) PROVE TooLate(S)'
    <3>1. \A k \in Key : ClearedByShutdown(k[1])' => ClearedByShutdown(k[1]) \/ channels'[k] = None
      <4>1. CASE ClearRequests(p)
        BY <1>2, <4>1 DEF ClearRequests, Cleared, ClearedByShutdown, ClosingStep, Key, Table
      <4>2. CASE ClearOrders(p)
        BY <1>2, <4>2 DEF ClearOrders, Cleared, ClearedByShutdown, ClosingStep, Key, Table
      <4> QED
        BY <2>4, <4>1, <4>2
    <3> QED
      BY <1>1, <1>2, <2>4, <3>1, TooLateTables DEF ClearRequests, ClearOrders, Cleared
  <2> QED
    BY <1>9, <2>1, <2>2, <2>3, <2>4 DEF ShutdownStep
<1>10. CASE UNCHANGED vars
  BY <1>1, <1>2, <1>3, <1>10, TooLateTables DEF vars
<1> QED
  BY <1>4, <1>5, <1>6, <1>7, <1>8, <1>9, <1>10 DEF Next

\* Once a shutdown has cleared a table, no subscription is reachable through
\* it: what registers later is refused, and nothing written is put back.
THEOREM ShutdownIsQuiet == Spec => []ShutdownQuiesces
<1>1. Init => QuietInv
  <2> SUFFICES ASSUME Init PROVE QuietInv
    OBVIOUS
  <2>1. TooLate({})
    BY DEF Init, TooLate, ClearedByShutdown
  <2> QED
    BY <2>1 DEF Init, QuietInv, ClosingClosed
<1>2. EntryInv /\ QuietInv => ShutdownQuiesces
  <2> SUFFICES ASSUME EntryInv, QuietInv, NEW h \in Handle, stage[h] = "subscribed",
                      ClearedByShutdown(place[h][1]), channels[place[h]] = chan[h]
               PROVE  FALSE
    BY DEF ShutdownQuiesces
  <2>1. PICK S \in SUBSET Handle : TooLate(S)
    BY DEF QuietInv
  <2>2. place[h] \in Key /\ chan[h] # None
    BY HandleAssumption DEF EntryInv, HandleShape, Alive
  <2> QED
    BY <2>1, <2>2 DEF TooLate
<1> QED
  BY <1>1, <1>2, QuietStep, EntriesHold, PTL DEF Spec
=============================================================================
