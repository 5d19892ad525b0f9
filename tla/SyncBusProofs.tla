---------------------------- MODULE SyncBusProofs ----------------------------
(***************************************************************************)
(* Proofs about SyncBus, for any calls, ids and disconnecting threads: a   *)
(* disconnect returns with both threads gone, and while the cleanup thread *)
(* runs only a failed write leaves an entry behind.                        *)
(***************************************************************************)
EXTENDS SyncBus, TLAPS

(***************************************************************************)
(* The inductive invariant.                                                *)
(***************************************************************************)

\* The dispatcher leaves its loop where a caller goes on to join it.
DispatcherNeverJoins == closing["dispatcher"] \notin {"join", "joining"}

\* A handle is gone once its thread is, and a disconnect is done once both are.
HandlesOutliveThreads ==
  /\ "dispatcher" \notin handles => dispatcher = "stopped"
  /\ "cleanup" \notin handles => cleanupThread = "stopped"
  /\ \A p \in Caller : closing[p] = "done" => handles = {}

\* An entry is under the id its call registered.
EntriesInPlace ==
  \A k \in Key : senders[k] # None => stage[senders[k]] # "idle" /\ place[senders[k]] = k

\* Nothing but a call not made yet is without a place.
PlacedOnce == \A h \in Handle : stage[h] # "idle" => place[h] \in Key

Signalled(k) == \E i \in 1..Len(signals) : signals[i] = k

SyncInv ==
  /\ TypeOK /\ DispatcherNeverJoins /\ HandlesOutliveThreads
  /\ EntriesInPlace /\ PlacedOnce /\ OnlyFailuresLeak

-----------------------------------------------------------------------------
(* The queue of signals.                                                   *)

\* A signal put in the queue waits there with those before it.
LEMMA SignalQueued ==
  ASSUME signals \in Seq(Key), NEW j \in Key, signals' = Append(signals, j)
  PROVE  Signalled(j)' /\ \A k \in Key : Signalled(k) => Signalled(k)'
<1>1. Len(signals') = Len(signals) + 1 /\ signals'[Len(signals) + 1] = j
  OBVIOUS
<1>2. \A i \in 1..Len(signals) : signals'[i] = signals[i]
  OBVIOUS
<1> QED
  BY <1>1, <1>2 DEF Signalled

\* Taking a signal out leaves those for other entries.
LEMMA SignalTaken ==
  ASSUME signals \in Seq(Key), signals # <<>>, signals' = Tail(signals)
  PROVE  \A k \in Key : Signalled(k) /\ k # Head(signals) => Signalled(k)'
<1> SUFFICES ASSUME NEW k \in Key, NEW i \in 1..Len(signals), signals[i] = k, k # Head(signals)
             PROVE  Signalled(k)'
  BY DEF Signalled
<1>1. i # 1
  OBVIOUS
<1>2. i - 1 \in 1..Len(signals') /\ signals'[i - 1] = signals[i]
  BY <1>1
<1> QED
  BY <1>2 DEF Signalled

-----------------------------------------------------------------------------
(* The invariant.                                                          *)

\* The bus starts with no entry, both threads running and nobody closing.
LEMMA SyncInit == Init => SyncInv
<1> SUFFICES ASSUME Init PROVE SyncInv
  OBVIOUS
<1>1. TypeOK
  <2>1. signals \in Seq(Key) /\ stage \in [Handle -> Stage] /\ closing \in [SyncCloser -> ShutdownStep]
    BY DEF Init, Stage, ShutdownStep
  <2>2. senders \in [Key -> Handle \cup {None}] /\ place \in [Handle -> Key \cup {None}]
    BY DEF Init
  <2>3. told \in SUBSET Handle /\ handles \in SUBSET Thread /\ joiner \in Caller \cup {None}
    BY DEF Init
  <2>4. dispatcher \in SyncDispatcherStep /\ wakeups \in 0..1
    BY DEF Init, SyncDispatcherStep
  <2> QED
    BY <2>1, <2>2, <2>3, <2>4 DEF Init, TypeOK
<1>2. DispatcherNeverJoins /\ HandlesOutliveThreads
  BY SyncCallerAssumption DEF Init, DispatcherNeverJoins, HandlesOutliveThreads, SyncCloser, Thread
<1>3. EntriesInPlace /\ PlacedOnce /\ OnlyFailuresLeak
  BY DEF Init, EntriesInPlace, PlacedOnce, OnlyFailuresLeak
<1> QED
  BY <1>1, <1>2, <1>3 DEF SyncInv

\* A call or a subscription changes its own stage, registers itself once, and
\* otherwise only removes entries; it ends by queueing a signal for its place.
LEMMA CallStepKeepsInv ==
  ASSUME SyncInv, NEW h \in Handle, CallStep(h)
  PROVE  SyncInv'
<1> USE DEF SyncInv, TypeOK, threads, flags, calls, Goes
<1>1. UNCHANGED <<threads, closing, wakeups, flags>>
  BY DEF CallStep, CallGoesOn, Register, StartWrite, WriteSucceeds, WriteFails, CancelWritten,
     TellCancelled, RemoveCancelled, CancelFails, DropSubscription
<1>2. DispatcherNeverJoins' /\ HandlesOutliveThreads'
  BY <1>1 DEF DispatcherNeverJoins, HandlesOutliveThreads
<1>7. PlacedOnce'
  BY DEF PlacedOnce, CallStep, CallGoesOn, Register, StartWrite, WriteSucceeds, WriteFails, CancelWritten,
     TellCancelled, RemoveCancelled, CancelFails, DropSubscription
<1>3. CASE \E k \in Key : Register(h, k)
  <2> PICK k \in Key : Register(h, k)
    BY <1>3
  <2>1. TypeOK'
    BY <1>1 DEF Register, Stage, InHand
  <2>2. \A j \in Key : senders[j] # h
    BY SyncHandleAssumption DEF Register, EntriesInPlace
  <2>3. EntriesInPlace'
    BY <2>2, SyncHandleAssumption DEF Register, EntriesInPlace
  <2>4. OnlyFailuresLeak'
    BY <1>1, <2>2 DEF Register, OnlyFailuresLeak, InHand
  <2> QED
    BY <1>2, <1>7, <2>1, <2>3, <2>4
<1>4. CASE \/ StartWrite(h) \/ WriteSucceeds(h) \/ WriteFails(h)
           \/ TellCancelled(h) \/ CancelWritten(h) \/ CancelFails(h)
  <2>1. /\ UNCHANGED <<senders, place, signals>>
        /\ told' \in SUBSET Handle
        /\ \E s \in InHand \cup {"failed"} : stage' = [stage EXCEPT ![h] = s]
    BY <1>4 DEF StartWrite, WriteSucceeds, WriteFails, TellCancelled, CancelWritten, CancelFails, InHand
  <2>2. TypeOK'
    BY <1>1, <2>1 DEF Stage
  <2>3. EntriesInPlace'
    BY <2>1 DEF EntriesInPlace, InHand
  <2>4. OnlyFailuresLeak'
    BY <1>1, <2>1 DEF OnlyFailuresLeak
  <2> QED
    BY <1>2, <1>7, <2>2, <2>3, <2>4
<1>5. CASE RemoveCancelled(h)
  <2>1. place[h] \in Key \cup {None} /\ UNCHANGED <<place, signals>>
    BY <1>5 DEF RemoveCancelled
  <2>2. senders' \in [Key -> Handle \cup {None}] /\ \A k \in Key : senders'[k] \in {senders[k], None}
    BY <1>5 DEF RemoveCancelled, Removed
  <2>3. stage' = [stage EXCEPT ![h] = "cancelled"]
    BY <1>5 DEF RemoveCancelled
  <2>4. TypeOK'
    BY <1>1, <1>5, <2>1, <2>2, <2>3 DEF RemoveCancelled, Stage, InHand
  <2>5. EntriesInPlace'
    BY <2>1, <2>2, <2>3 DEF EntriesInPlace
  <2>6. OnlyFailuresLeak'
    BY <1>1, <2>1, <2>2, <2>3 DEF OnlyFailuresLeak, InHand
  <2> QED
    BY <1>2, <1>7, <2>4, <2>5, <2>6
<1>6. CASE DropSubscription(h)
  <2>1. UNCHANGED <<senders, place, told>> /\ stage' = [stage EXCEPT ![h] = "ended"]
    BY <1>6 DEF DropSubscription
  <2>2. EntriesInPlace'
    BY <2>1 DEF EntriesInPlace
  <2>3. place[h] \in Key
    BY <1>6 DEF DropSubscription, PlacedOnce
  <2>4. TypeOK'
    BY <1>1, <1>6, <2>1, <2>3 DEF DropSubscription, Stage
  <2>5. Signalled(place[h])' /\ \A k \in Key : Signalled(k) => Signalled(k)'
    BY <1>6, <2>3, SignalQueued DEF DropSubscription
  <2>6. OnlyFailuresLeak'
    BY <1>1, <2>1, <2>5 DEF OnlyFailuresLeak, EntriesInPlace, Signalled
  <2> QED
    BY <1>2, <1>7, <2>2, <2>4, <2>6
<1> QED
  BY <1>3, <1>4, <1>5, <1>6 DEF CallStep, CallGoesOn

\* The cleanup thread removes the entry at the head of the queue, or stops.
LEMMA CleanupStepKeepsInv ==
  ASSUME SyncInv, CleanEntry \/ CleanupStops
  PROVE  SyncInv'
<1> USE DEF SyncInv, TypeOK, threads, flags, calls
<1>1. CASE CleanEntry
  <2>1. Head(signals) \in Key /\ signals' \in Seq(Key)
    BY <1>1 DEF CleanEntry
  <2>2. senders' = [senders EXCEPT ![Head(signals)] = None] /\ UNCHANGED <<stage, place, cleanupThread>>
    BY <1>1 DEF CleanEntry, Removed
  <2>3. TypeOK'
    BY <1>1, <2>1, <2>2 DEF CleanEntry
  <2>4. EntriesInPlace' /\ PlacedOnce'
    BY <2>1, <2>2 DEF EntriesInPlace, PlacedOnce
  <2>5. \A k \in Key : Signalled(k) /\ k # Head(signals) => Signalled(k)'
    BY <1>1, SignalTaken DEF CleanEntry
  <2>6. OnlyFailuresLeak'
    BY <2>1, <2>2, <2>5 DEF OnlyFailuresLeak, Signalled
  <2>7. DispatcherNeverJoins' /\ HandlesOutliveThreads'
    BY <1>1 DEF CleanEntry, DispatcherNeverJoins, HandlesOutliveThreads
  <2> QED
    BY <2>3, <2>4, <2>6, <2>7
<1>2. CASE CleanupStops
  BY <1>2 DEF CleanupStops, DispatcherNeverJoins, HandlesOutliveThreads, EntriesInPlace, PlacedOnce,
     OnlyFailuresLeak
<1> QED
  BY <1>1, <1>2

\* Entries are only removed by this step, and calls and signals stay.
OnlyRemoves ==
  /\ UNCHANGED <<calls, signals, cleanupThread>>
  /\ senders' \in [Key -> Handle \cup {None}]
  /\ \A k \in Key : senders'[k] \in {senders[k], None}

\* Removing entries disturbs no part of the invariant about them.
LEMMA RemovalsKeepEntries ==
  ASSUME SyncInv, OnlyRemoves
  PROVE  EntriesInPlace' /\ PlacedOnce' /\ OnlyFailuresLeak'
BY DEF SyncInv, TypeOK, OnlyRemoves, EntriesInPlace, PlacedOnce, OnlyFailuresLeak, calls

\* notify_all puts errors in the channels of handles only; clear removes the
\* entries of one table.
LEMMA TellAndClear ==
  ASSUME TypeOK, NEW t
  PROVE  /\ TellAll(t) => told' \in SUBSET Handle
         /\ ClearAll(t) => /\ senders' \in [Key -> Handle \cup {None}]
                           /\ \A k \in Key : senders'[k] \in {senders[k], None}
BY DEF TypeOK, TellAll, ClearAll

\* The dispatcher, once stopped, takes no step; it never joins.
LEMMA DispatcherStepKeepsInv ==
  ASSUME SyncInv, LoseConnection \/ DispatcherCloses \/ DispatcherGoesOn
  PROVE  SyncInv'
<1> USE DEF threads, flags, calls
<1>1. TypeOK
  BY DEF SyncInv
<1>2. CASE LoseConnection \/ ReconnectSucceeds \/ MarkConnected \/ DispatcherStops
  <2>1. OnlyRemoves
    BY <1>1, <1>2 DEF LoseConnection, ReconnectSucceeds, MarkConnected, DispatcherStops, OnlyRemoves, TypeOK
  <2>2. TypeOK'
    BY <1>1, <1>2 DEF LoseConnection, ReconnectSucceeds, MarkConnected, DispatcherStops, TypeOK, SyncDispatcherStep
  <2>3. DispatcherNeverJoins' /\ HandlesOutliveThreads'
    BY <1>1, <1>2 DEF SyncInv, LoseConnection, ReconnectSucceeds, MarkConnected, DispatcherStops, TypeOK,
       DispatcherNeverJoins, HandlesOutliveThreads
  <2> QED
    BY <2>1, <2>2, <2>3, RemovalsKeepEntries DEF SyncInv
<1>3. CASE ResetBus
  <2>1. PICK t \in Table, here \in SyncDispatcherStep \ {"stopped"}, next \in SyncDispatcherStep :
          ResetTells(t, here, next) \/ ResetClears(t, here, next)
    BY <1>3 DEF ResetBus, Table, SyncDispatcherStep
  <2>2. OnlyRemoves
    BY <1>1, <2>1, TellAndClear DEF ResetTells, ResetClears, OnlyRemoves, TypeOK
  <2>3. TypeOK'
    BY <1>1, <2>1, TellAndClear DEF ResetTells, ResetClears, TypeOK
  <2>4. DispatcherNeverJoins' /\ HandlesOutliveThreads'
    BY <2>1 DEF SyncInv, ResetTells, ResetClears, DispatcherNeverJoins, HandlesOutliveThreads
  <2> QED
    BY <2>2, <2>3, <2>4, RemovalsKeepEntries DEF SyncInv
<1>4. CASE DispatcherCloses
  <2>1. OnlyRemoves
    BY <1>1, <1>4 DEF DispatcherCloses, OnlyRemoves, TypeOK
  <2>2. TypeOK'
    BY <1>1, <1>4 DEF DispatcherCloses, TypeOK, SyncDispatcherStep, ShutdownStep
  <2>3. DispatcherNeverJoins' /\ HandlesOutliveThreads'
    BY <1>1, <1>4, SyncCallerAssumption DEF SyncInv, DispatcherCloses, TypeOK, DispatcherNeverJoins,
       HandlesOutliveThreads, SyncCloser
  <2> QED
    BY <2>1, <2>2, <2>3, RemovalsKeepEntries DEF SyncInv
<1> QED
  BY <1>2, <1>3, <1>4 DEF DispatcherGoesOn

\* The steps of request_shutdown reach the end of a disconnect for none but the
\* dispatcher, which stops there.
LEMMA ShutdownStepKeepsInv ==
  ASSUME SyncInv, NEW p \in SyncCloser, BeginDisconnect(p) \/ RequestShutdown(p)
  PROVE  SyncInv'
<1> USE DEF threads, flags, calls, ShutdownGoes
<1>1. TypeOK
  BY DEF SyncInv
<1>2. CASE CloseSocket(p)
  <2>1. OnlyRemoves
    BY <1>1, <1>2 DEF CloseSocket, OnlyRemoves, TypeOK
  <2>2. TypeOK'
    BY <1>1, <1>2 DEF CloseSocket, TypeOK, SyncDispatcherStep, ShutdownStep
  <2>3. DispatcherNeverJoins' /\ HandlesOutliveThreads'
    BY <1>1, <1>2, SyncCallerAssumption DEF SyncInv, CloseSocket, TypeOK, DispatcherNeverJoins,
       HandlesOutliveThreads, SyncCloser
  <2> QED
    BY <2>1, <2>2, <2>3, RemovalsKeepEntries DEF SyncInv
<1>3. CASE BeginDisconnect(p) \/ (RequestShutdown(p) /\ ~CloseSocket(p))
  <2>1. UNCHANGED <<threads, calls, signals>>
    BY <1>3 DEF BeginDisconnect, RequestShutdown, ShutdownTells, ShutdownClears, SetFlags, WakeCleanup
  <2>2. /\ told' \in SUBSET Handle /\ wakeups' \in 0..1
        /\ connected' \in BOOLEAN /\ shutdownRequested' \in BOOLEAN /\ socketClosed' \in BOOLEAN
    <3>1. told' \in SUBSET Handle
      BY <1>1, <1>3, TellAndClear DEF BeginDisconnect, RequestShutdown, ShutdownTells, ShutdownClears,
         SetFlags, WakeCleanup, TypeOK
    <3>2. wakeups' \in 0..1
      BY <1>1, <1>3 DEF BeginDisconnect, RequestShutdown, ShutdownTells, ShutdownClears, SetFlags,
         WakeCleanup, TypeOK
    <3> QED
      BY <1>1, <1>3, <3>1, <3>2 DEF BeginDisconnect, RequestShutdown, ShutdownTells, ShutdownClears,
         SetFlags, WakeCleanup, TypeOK
  <2>3. \E s \in ShutdownStep \ {"join", "joining", "done"} : closing' = [closing EXCEPT ![p] = s]
    BY <1>3 DEF BeginDisconnect, RequestShutdown, ShutdownTells, ShutdownClears, SetFlags, WakeCleanup,
       ShutdownStep
  <2>4. /\ senders' \in [Key -> Handle \cup {None}]
        /\ \A k \in Key : senders'[k] \in {senders[k], None}
    BY <1>1, <1>3, TellAndClear DEF BeginDisconnect, RequestShutdown, ShutdownTells, ShutdownClears,
       SetFlags, WakeCleanup, TypeOK
  <2>5. OnlyRemoves
    BY <2>1, <2>4 DEF OnlyRemoves
  <2>6. TypeOK'
    BY <1>1, <2>2, <2>1, <2>3, <2>4 DEF TypeOK
  <2>7. DispatcherNeverJoins' /\ HandlesOutliveThreads'
    BY <1>1, <2>1, <2>3 DEF SyncInv, TypeOK, DispatcherNeverJoins, HandlesOutliveThreads, SyncCloser
  <2> QED
    BY <2>5, <2>6, <2>7, RemovalsKeepEntries DEF SyncInv
<1> QED
  BY <1>2, <1>3

\* Only a caller joins, only a stopped thread is joined, and the join is over
\* when no handle is left.
LEMMA JoinStepKeepsInv ==
  ASSUME SyncInv, NEW p \in SyncCloser, Join(p)
  PROVE  SyncInv'
<1> USE DEF threads, flags, calls, ShutdownGoes
<1>1. TypeOK /\ DispatcherNeverJoins
  BY DEF SyncInv
<1>2. p \in Caller /\ p # "dispatcher"
  BY <1>1, SyncCallerAssumption DEF Join, LockHandles, JoinThread, JoinDone, DispatcherNeverJoins, SyncCloser
<1>3. OnlyRemoves
  BY <1>1 DEF Join, LockHandles, JoinThread, JoinDone, OnlyRemoves, TypeOK
<1>4. CASE LockHandles(p)
  <2>1. TypeOK'
    BY <1>1, <1>2, <1>4 DEF LockHandles, TypeOK, ShutdownStep
  <2>2. DispatcherNeverJoins' /\ HandlesOutliveThreads'
    BY <1>1, <1>2, <1>4 DEF SyncInv, LockHandles, TypeOK, DispatcherNeverJoins, HandlesOutliveThreads
  <2> QED
    BY <1>3, <2>1, <2>2, RemovalsKeepEntries DEF SyncInv
<1>5. CASE \E t \in Thread : JoinThread(p, t)
  <2>1. TypeOK'
    BY <1>1, <1>5 DEF JoinThread, TypeOK
  <2>2. DispatcherNeverJoins' /\ HandlesOutliveThreads'
    BY <1>5 DEF SyncInv, JoinThread, Thread, DispatcherNeverJoins, HandlesOutliveThreads
  <2> QED
    BY <1>3, <2>1, <2>2, RemovalsKeepEntries DEF SyncInv
<1>6. CASE JoinDone(p)
  <2>1. TypeOK'
    BY <1>1, <1>6 DEF JoinDone, TypeOK, ShutdownStep
  <2>2. DispatcherNeverJoins' /\ HandlesOutliveThreads'
    BY <1>1, <1>2, <1>6 DEF SyncInv, JoinDone, TypeOK, DispatcherNeverJoins, HandlesOutliveThreads
  <2> QED
    BY <1>3, <2>1, <2>2, RemovalsKeepEntries DEF SyncInv
<1> QED
  BY <1>4, <1>5, <1>6 DEF Join

\* Every step keeps the invariant.
LEMMA SyncStep == SyncInv /\ [Next]_vars => SyncInv'
<1> SUFFICES ASSUME SyncInv, [Next]_vars PROVE SyncInv'
  OBVIOUS
<1>1. CASE Next
  BY <1>1, CallStepKeepsInv, CleanupStepKeepsInv, DispatcherStepKeepsInv, ShutdownStepKeepsInv,
     JoinStepKeepsInv DEF Next
<1>2. CASE UNCHANGED vars
  BY <1>2 DEF SyncInv, TypeOK, DispatcherNeverJoins, HandlesOutliveThreads, EntriesInPlace, PlacedOnce,
     OnlyFailuresLeak, vars, calls, threads, flags
<1> QED
  BY <1>1, <1>2

\* The invariant holds in every reachable state.
LEMMA SyncInvariant == Spec => []SyncInv
BY SyncInit, SyncStep, PTL DEF Spec

-----------------------------------------------------------------------------
(* Theorems.                                                               *)

\* Every variable of the bus keeps its type; in particular the shutdown channel
\* never holds more than the one wakeup it has room for.
THEOREM SyncTypes == Spec => []TypeOK
<1>1. SyncInv => TypeOK
  BY DEF SyncInv
<1> QED
  BY <1>1, SyncInvariant, PTL

\* client/sync.rs: any number of threads may disconnect at once, and each one
\* returns with the dispatcher and the cleanup thread gone.
THEOREM DisconnectJoins == Spec => []DisconnectJoinsThreads
<1>1. SyncInv => DisconnectJoinsThreads
  BY DEF SyncInv, HandlesOutliveThreads, DisconnectJoinsThreads
<1> QED
  BY <1>1, SyncInvariant, PTL

\* Whatever ids are used again, while the cleanup thread runs an entry is of a
\* call or subscription in hand, or will be cleaned, or is a failed write's.
THEOREM OnlyFailedWritesLeak == Spec => []OnlyFailuresLeak
<1>1. SyncInv => OnlyFailuresLeak
  BY DEF SyncInv
<1> QED
  BY <1>1, SyncInvariant, PTL
=============================================================================
