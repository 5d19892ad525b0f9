-------------------------- MODULE SharedTicksProofs --------------------------
(***************************************************************************)
(* What the threads of one handle keep of SharedTicks, for any number of   *)
(* them and of ticks: that each tick the broker sent is in one place, from *)
(* the ticks of the variables being apart and together all that were sent; *)
(* and that they come in order and the end after them, from the ticks being*)
(* in a row as long as no two threads held a batch at once.                *)
(***************************************************************************)
EXTENDS SharedTicks, SequenceTheorems, TLAPS

LEMMA ItemTypes ==
    /\ Nothing \in Item /\ Failure \in Item
    /\ \A item \in Item : item.ticks \in Seq(Tick) /\ item.last \in BOOLEAN
<1>1. <<>> \in Seq(Tick)
  OBVIOUS
<1>2. Nothing \in Item /\ Failure \in Item
  BY DEF Item, Nothing, Failure
<1>3. ASSUME NEW item \in Item
      PROVE  item.ticks \in Seq(Tick) /\ item.last \in BOOLEAN
  BY <1>1 DEF Item
<1> QED  BY <1>2, <1>3

LEMMA BatchTypes ==
    ASSUME sent \in 0..MaxTicks, NEW n \in 0..MaxBatch, NEW last \in BOOLEAN, sent + n <= MaxTicks
    PROVE  BatchOf(n, last) \in Item
<1> USE BoundAssumption
<1>1. [i \in 1..n |-> sent + i] \in Seq(Tick)
  <2>1. n \in Nat /\ \A i \in 1..n : sent + i \in Tick
    BY DEF Tick
  <2> QED  BY <2>1
<1> QED  BY <1>1 DEF BatchOf, Item

LEMMA BrokerTypes ==
    ASSUME TypeOK, BrokerStep
    PROVE  TypeOK'
<1> USE BoundAssumption, ItemTypes DEF TypeOK, flags, history, broker
<1>1. CASE BrokerSends
  <2>1. PICK n \in 0..MaxBatch, last \in BOOLEAN :
            /\ sent + n <= MaxTicks
            /\ chan' = Append(chan, BatchOf(n, last))
            /\ sent' = sent + n
            /\ finished' = last
    BY <1>1 DEF BrokerSends
  <2>2. BatchOf(n, last) \in Item
    BY <2>1, BatchTypes
  <2>3. chan' \in Seq(Item)
    BY <2>1, <2>2
  <2>4. sent' \in 0..MaxTicks
    BY <2>1
  <2> QED  BY <1>1, <2>1, <2>3, <2>4 DEF BrokerSends
<1>2. CASE BrokerStrays
  BY <1>2 DEF BrokerStrays
<1>3. CASE RequestFails
  BY <1>3 DEF RequestFails
<1> QED  BY <1>1, <1>2, <1>3 DEF BrokerStep

LEMMA NextTypes ==
    ASSUME TypeOK, NEW t \in Thread,
           Call(t) \/ PopTick(t) \/ PopNothing(t) \/ SeeDone(t) \/ SeeMore(t) \/ Receive(t)
             \/ GiveUp(t) \/ Fill(t) \/ FillSkips(t) \/ FillFails(t)
    PROVE  TypeOK'
<1> USE BoundAssumption, ItemTypes DEF TypeOK, flags, history, broker, Goes, Place
<1>1. CASE Call(t)
  <2>1. calls' \in [Thread -> 0..MaxCalls]
    BY <1>1 DEF Call
  <2>2. bounded' \in [Thread -> BOOLEAN]
    BY <1>1, Zenon DEF Call
  <2>3. crowded' \in BOOLEAN
    BY <1>1, Zenon DEF Call
  <2>4. at' \in [Thread -> Place] /\ \A u \in Thread : at'[u] # "fill" => held'[u] = Nothing
    BY <1>1 DEF Call
  <2> QED  BY <1>1, <2>1, <2>2, <2>3, <2>4 DEF Call
<1>2. CASE PopTick(t)
  <2>1. Head(buffer) \in Tick /\ Tail(buffer) \in Seq(Tick)
    BY <1>2 DEF PopTick
  <2> QED  BY <1>2, <2>1 DEF PopTick
<1>3. CASE PopNothing(t)
  <2>1. raced' \in [Thread -> BOOLEAN]
    BY <1>3, Zenon DEF PopNothing
  <2>2. at' \in [Thread -> Place] /\ \A u \in Thread : at'[u] # "fill" => held'[u] = Nothing
    BY <1>3 DEF PopNothing
  <2> QED  BY <1>3, <2>1, <2>2 DEF PopNothing
<1>4. CASE SeeDone(t)
  BY <1>4 DEF SeeDone
<1>5. CASE SeeMore(t)
  BY <1>5 DEF SeeMore
<1>6. CASE Receive(t)
  <2>1. Head(chan) \in Item /\ Tail(chan) \in Seq(Item)
    BY <1>6 DEF Receive
  <2>2. overlapped' \in BOOLEAN
    BY <1>6, Zenon DEF Receive
  <2>3. held' \in [Thread -> Item]
    BY <1>6, <2>1 DEF Receive
  <2>4. at' \in [Thread -> Place] /\ \A u \in Thread : at'[u] # "fill" => held'[u] = Nothing
    BY <1>6 DEF Receive
  <2> QED  BY <1>6, <2>1, <2>2, <2>3, <2>4 DEF Receive
<1>7. CASE GiveUp(t)
  BY <1>7 DEF GiveUp
<1>8. CASE Fill(t)
  <2>1. held[t].ticks \in Seq(Tick) /\ held[t].last \in BOOLEAN
    OBVIOUS
  <2>2. buffer' \in Seq(Tick) /\ done' \in BOOLEAN
    BY <1>8, <2>1 DEF Fill, FillWith
  <2>3. raced' \in [Thread -> BOOLEAN]
    BY <1>8, Zenon DEF Fill, FillWith
  <2>4. at' \in [Thread -> Place] /\ \A u \in Thread : at'[u] # "fill" => held'[u] = Nothing
    BY <1>8 DEF Fill, FillWith
  <2>5. held' \in [Thread -> Item]
    BY <1>8 DEF Fill, FillWith
  <2> QED  BY <1>8, <2>2, <2>3, <2>4, <2>5 DEF Fill, FillWith
<1>9. CASE FillSkips(t)
  <2>1. held[t] = Nothing
    BY <1>9 DEF FillSkips, Item, Nothing
  <2> QED  BY <1>9, <2>1 DEF FillSkips
<1>10. CASE FillFails(t)
  BY <1>10 DEF FillFails
<1> QED  BY <1>1, <1>2, <1>3, <1>4, <1>5, <1>6, <1>7, <1>8, <1>9, <1>10

\* The request is cancelled once, so that one cancel is written at most.
CancelInv ==
    /\ \A t \in Thread : at[t] = "write" => cancelled /\ cancels = 0
    /\ \A t, u \in Thread : at[t] = "write" /\ at[u] = "write" => t = u
    /\ ~cancelled => cancels = 0

LEMMA CancelTypes ==
    ASSUME TypeOK, CancelInv, NEW t \in Thread,
           CallCancel(t) \/ WriteCancel(t) \/ WriteCancelFails(t) \/ TellReaders(t) \/ Drop(t)
    PROVE  TypeOK'
<1> USE ItemTypes DEF TypeOK, flags, history, broker, Goes, Place
<1>1. CASE CallCancel(t)
  BY <1>1 DEF CallCancel
<1>2. CASE WriteCancel(t)
  <2>1. cancels' \in {0, 1}
    BY <1>2 DEF WriteCancel, CancelInv
  <2>2. chan' \in Seq(Item)
    <3>1. Append(chan, Failure) \in Seq(Item)
      OBVIOUS
    <3> QED  BY <1>2, <3>1 DEF WriteCancel
  <2>3. at' \in [Thread -> Place] /\ \A u \in Thread : at'[u] # "fill" => held'[u] = Nothing
    BY <1>2 DEF WriteCancel
  <2>4. entry' \in BOOLEAN
    BY <1>2 DEF WriteCancel
  <2> QED  BY <1>2, <2>1, <2>2, <2>3, <2>4 DEF WriteCancel
<1>3. CASE WriteCancelFails(t)
  BY <1>3 DEF WriteCancelFails
<1>4. CASE TellReaders(t)
  BY <1>4 DEF TellReaders
<1>5. CASE Drop(t)
  BY <1>5 DEF Drop
<1> QED  BY <1>1, <1>2, <1>3, <1>4, <1>5

LEMMA CancelStep ==
    ASSUME TypeOK, CancelInv, [Next]_vars
    PROVE  CancelInv'
<1> USE DEF TypeOK, CancelInv, Goes
<1>1. CASE UNCHANGED vars
  BY <1>1 DEF vars, flags
<1>2. CASE BrokerStep
  BY <1>2 DEF BrokerStep, BrokerSends, BrokerStrays, RequestFails, flags
<1>3. ASSUME NEW t \in Thread,
             Call(t) \/ PopTick(t) \/ PopNothing(t) \/ SeeDone(t) \/ SeeMore(t) \/ Receive(t)
               \/ GiveUp(t) \/ Fill(t) \/ FillSkips(t) \/ FillFails(t) \/ TellReaders(t)
      PROVE  CancelInv'
  <2>1. /\ UNCHANGED <<cancelled, cancels>>
        /\ \A u \in Thread : at'[u] = "write" => at[u] = "write"
    BY <1>3 DEF Call, PopTick, PopNothing, SeeDone, SeeMore, Receive, GiveUp, Fill, FillWith,
                FillSkips, FillFails, TellReaders, flags
  <2> QED  BY <2>1
<1>4. ASSUME NEW t \in Thread,
             CallCancel(t) \/ WriteCancel(t) \/ WriteCancelFails(t) \/ Drop(t)
      PROVE  CancelInv'
  <2>1. CASE CallCancel(t)
    BY <2>1 DEF CallCancel
  <2>2. CASE WriteCancel(t)
    BY <2>2 DEF WriteCancel, flags
  <2>3. CASE WriteCancelFails(t)
    BY <2>3 DEF WriteCancelFails, flags
  <2>4. CASE Drop(t)
    BY <2>4 DEF Drop
  <2> QED  BY <1>4, <2>1, <2>2, <2>3, <2>4
<1> QED  BY <1>1, <1>2, <1>3, <1>4 DEF Next, ThreadStep

LEMMA TypesHold == Spec => [](TypeOK /\ CancelInv)
<1>1. Init => TypeOK /\ CancelInv
  <2>1. <<>> \in Seq(Item) /\ <<>> \in Seq(Tick)
    OBVIOUS
  <2>2. [t \in Thread |-> FALSE] \in [Thread -> BOOLEAN]
    BY Zenon
  <2>3. 0 \in 0..MaxTicks /\ 0 \in 0..MaxCalls
    BY BoundAssumption
  <2> SUFFICES ASSUME Init
               PROVE  TypeOK /\ CancelInv
    OBVIOUS
  <2>4. at \in [Thread -> Place] /\ \A t \in Thread : at[t] # "write"
    BY DEF Init, Place
  <2>5. held \in [Thread -> Item] /\ \A t \in Thread : held[t] = Nothing
    BY ItemTypes DEF Init
  <2>6. calls \in [Thread -> 0..MaxCalls]
    BY <2>3 DEF Init
  <2>7. raced \in [Thread -> BOOLEAN] /\ bounded \in [Thread -> BOOLEAN]
    BY <2>2, Zenon DEF Init
  <2>8. TypeOK
    BY <2>1, <2>3, <2>4, <2>5, <2>6, <2>7 DEF Init, TypeOK
  <2>9. CancelInv
    BY <2>4 DEF Init, CancelInv
  <2> QED  BY <2>8, <2>9
<1>2. TypeOK /\ CancelInv /\ [Next]_vars => (TypeOK /\ CancelInv)'
  <2> SUFFICES ASSUME TypeOK, CancelInv, [Next]_vars
               PROVE  TypeOK' /\ CancelInv'
    OBVIOUS
  <2>1. CASE UNCHANGED vars
    BY <2>1, CancelStep DEF vars, TypeOK, flags, history, broker
  <2>2. CASE Next
    <3>1. TypeOK'
      BY <2>2, BrokerTypes, NextTypes, CancelTypes DEF Next, ThreadStep
    <3> QED  BY <3>1, CancelStep
  <2> QED  BY <2>1, <2>2
<1> QED  BY <1>1, <1>2, PTL DEF Spec

\* Every variable keeps its type: in particular, of all the cancels and the drop
\* of one handle at most one is written.
THEOREM TickTypesHold == Spec => []TypeOK
BY TypesHold, PTL

-----------------------------------------------------------------------------
(* The ticks of a sequence. *)

Ticks(s) == {s[i] : i \in 1..Len(s)}
Distinct(s) == \A i, j \in 1..Len(s) : s[i] = s[j] => i = j
Apart(s, r) == \A n \in Ticks(s) : n \notin Ticks(r)

LEMMA NoTicks == Ticks(<<>>) = {} /\ Distinct(<<>>)
BY DEF Ticks, Distinct

LEMMA FirstTick ==
    ASSUME NEW s \in Seq(Tick), s # <<>>
    PROVE  /\ Ticks(s) = Ticks(Tail(s)) \union {Head(s)}
           /\ Distinct(s) => Distinct(Tail(s)) /\ Head(s) \notin Ticks(Tail(s))
<1>1. /\ Len(s) \in Nat \ {0} /\ Head(s) = s[1]
      /\ Len(Tail(s)) = Len(s) - 1
      /\ \A i \in 1..Len(s) - 1 : Tail(s)[i] = s[i + 1]
  BY EmptySeq, HeadTailProperties, LenProperties
<1>2. ASSUME NEW n \in Ticks(s), n # Head(s)
      PROVE  n \in Ticks(Tail(s))
  <2>1. PICK i \in 1..Len(s) : s[i] = n
    BY DEF Ticks
  <2>2. i - 1 \in 1..Len(Tail(s)) /\ Tail(s)[i - 1] = n
    BY <1>1, <1>2, <2>1
  <2> QED  BY <2>2 DEF Ticks
<1>3. ASSUME NEW i \in 1..Len(Tail(s))
      PROVE  i + 1 \in 1..Len(s) /\ Tail(s)[i] = s[i + 1]
  BY <1>1
<1>4. Ticks(Tail(s)) \subseteq Ticks(s) /\ Head(s) \in Ticks(s)
  BY <1>1, <1>3 DEF Ticks
<1>5. ASSUME Distinct(s)
      PROVE  Distinct(Tail(s)) /\ Head(s) \notin Ticks(Tail(s))
  <2>1. ASSUME NEW i \in 1..Len(Tail(s)), NEW j \in 1..Len(Tail(s)), Tail(s)[i] = Tail(s)[j]
        PROVE  i = j
    <3>1. i + 1 = j + 1
      BY <1>3, <1>5, <2>1 DEF Distinct
    <3> QED  BY <1>1, <3>1
  <2>2. ASSUME NEW i \in 1..Len(Tail(s)), Tail(s)[i] = Head(s)
        PROVE  FALSE
    <3>1. i + 1 = 1
      BY <1>1, <1>3, <1>5, <2>2 DEF Distinct
    <3> QED  BY <1>1, <3>1
  <2> QED  BY <2>1, <2>2 DEF Distinct, Ticks
<1> QED  BY <1>2, <1>4, <1>5

LEMMA LaterTick ==
    ASSUME NEW s \in Seq(Tick), NEW n \in Tick
    PROVE  /\ Ticks(Append(s, n)) = Ticks(s) \union {n}
           /\ Distinct(s) /\ n \notin Ticks(s) => Distinct(Append(s, n))
<1> DEFINE r == Append(s, n)
<1>1. /\ Len(s) \in Nat /\ Len(r) = Len(s) + 1 /\ r[Len(s) + 1] = n
      /\ \A i \in 1..Len(s) : r[i] = s[i]
  OBVIOUS
<1> HIDE DEF r
<1>2. Ticks(r) = Ticks(s) \union {n}
  BY <1>1 DEF Ticks
<1>3. ASSUME Distinct(s), n \notin Ticks(s)
      PROVE  Distinct(r)
  <2>1. ASSUME NEW i \in 1..Len(r)
        PROVE  \/ i \in 1..Len(s) /\ r[i] = s[i]
               \/ i = Len(s) + 1 /\ r[i] = n
    BY <1>1
  <2>2. \A i \in 1..Len(s) : s[i] # n
    BY <1>3 DEF Ticks
  <2> QED  BY <1>3, <2>1, <2>2 DEF Distinct
<1> QED  BY <1>2, <1>3 DEF r

LEMMA MoreTicks ==
    ASSUME NEW s \in Seq(Tick), NEW r \in Seq(Tick)
    PROVE  /\ Ticks(s \o r) = Ticks(s) \union Ticks(r)
           /\ Distinct(s) /\ Distinct(r) /\ Apart(s, r) => Distinct(s \o r)
<1> DEFINE q == s \o r
<1>1. /\ Len(s) \in Nat /\ Len(r) \in Nat /\ Len(q) = Len(s) + Len(r)
      /\ \A i \in 1..Len(q) : q[i] = IF i <= Len(s) THEN s[i] ELSE r[i - Len(s)]
  OBVIOUS
<1> HIDE DEF q
<1>2. ASSUME NEW i \in 1..Len(q)
      PROVE  \/ i \in 1..Len(s) /\ q[i] = s[i]
             \/ i - Len(s) \in 1..Len(r) /\ q[i] = r[i - Len(s)]
  BY <1>1
<1>3. ASSUME NEW i \in 1..Len(s)
      PROVE  i \in 1..Len(q) /\ q[i] = s[i]
  BY <1>1
<1>4. ASSUME NEW i \in 1..Len(r)
      PROVE  i + Len(s) \in 1..Len(q) /\ q[i + Len(s)] = r[i]
  BY <1>1
<1>5. Ticks(q) = Ticks(s) \union Ticks(r)
  <2>1. Ticks(q) \subseteq Ticks(s) \union Ticks(r)
    BY <1>2 DEF Ticks
  <2>2. Ticks(s) \subseteq Ticks(q)
    BY <1>3 DEF Ticks
  <2>3. Ticks(r) \subseteq Ticks(q)
    BY <1>4 DEF Ticks
  <2> QED  BY <2>1, <2>2, <2>3
<1>6. ASSUME Distinct(s), Distinct(r), Apart(s, r)
      PROVE  Distinct(q)
  <2> SUFFICES ASSUME NEW i \in 1..Len(q), NEW j \in 1..Len(q), q[i] = q[j]
               PROVE  i = j
    BY DEF Distinct
  <2>1. \A n, m : n \in 1..Len(s) /\ m \in 1..Len(r) => s[n] # r[m]
    BY <1>6 DEF Apart, Ticks
  <2>2. CASE i \in 1..Len(s) /\ q[i] = s[i]
    <3>1. j \in 1..Len(s) /\ q[j] = s[j]
      BY <1>2, <2>1, <2>2
    <3> QED  BY <1>6, <2>2, <3>1 DEF Distinct
  <2>3. CASE i - Len(s) \in 1..Len(r) /\ q[i] = r[i - Len(s)]
    <3>1. j - Len(s) \in 1..Len(r) /\ q[j] = r[j - Len(s)]
      BY <1>2, <2>1, <2>3
    <3>2. i - Len(s) = j - Len(s)
      BY <1>6, <2>3, <3>1 DEF Distinct
    <3> QED  BY <1>1, <3>2
  <2> QED  BY <1>2, <2>2, <2>3
<1> QED  BY <1>5, <1>6 DEF q

\* What the broker sends next are the ticks after those it sent.
LEMMA NewTicks ==
    ASSUME sent \in 0..MaxTicks, NEW n \in 0..MaxBatch, NEW last \in BOOLEAN
    PROVE  /\ \A k : k \in Ticks(BatchOf(n, last).ticks) <=> k \in (sent + 1)..(sent + n)
           /\ Distinct(BatchOf(n, last).ticks)
           /\ Len(BatchOf(n, last).ticks) = n
<1> USE BoundAssumption
<1> DEFINE s == BatchOf(n, last).ticks
<1>1. Len(s) = n /\ sent \in Nat /\ n \in Nat /\ \A i \in 1..n : s[i] = sent + i
  BY DEF BatchOf
<1> HIDE DEF s
<1>2. Distinct(s)
  BY <1>1 DEF Distinct
<1>3. ASSUME NEW k \in (sent + 1)..(sent + n)
      PROVE  k \in Ticks(s)
  <2>1. k - sent \in 1..n /\ s[k - sent] = k
    BY <1>1
  <2> QED  BY <1>1, <2>1 DEF Ticks
<1>4. ASSUME NEW k \in Ticks(s)
      PROVE  k \in (sent + 1)..(sent + n)
  BY <1>1 DEF Ticks
<1> QED  BY <1>1, <1>2, <1>3, <1>4 DEF s

\* What a channel has after a message is put on it, and after one is taken.
LEMMA ChannelGrows ==
    ASSUME chan \in Seq(Item), NEW item \in Item, chan' = Append(chan, item)
    PROVE  /\ Len(chan) \in Nat /\ Len(chan') = Len(chan) + 1 /\ chan'[Len(chan')] = item
           /\ \A m \in 1..Len(chan) : chan'[m] = chan[m] /\ chan[m] \in Item
OBVIOUS

LEMMA ChannelShrinks ==
    ASSUME chan \in Seq(Item), chan # <<>>, chan' = Tail(chan)
    PROVE  /\ Len(chan) \in Nat \ {0} /\ Len(chan') = Len(chan) - 1 /\ chan[1] = Head(chan)
           /\ \A m \in 1..Len(chan') : m + 1 \in 1..Len(chan) /\ chan'[m] = chan[m + 1]
           /\ \A m \in 1..Len(chan) : m # 1 => m - 1 \in 1..Len(chan') /\ chan'[m - 1] = chan[m]
<1>1. /\ Len(chan) \in Nat \ {0} /\ Len(chan') = Len(chan) - 1 /\ chan[1] = Head(chan)
      /\ \A m \in 1..Len(chan') : chan'[m] = chan[m + 1]
  BY EmptySeq, HeadTailProperties, LenProperties
<1> QED  BY <1>1

LEMMA PlainItems ==
    /\ \A item \in Item : ~ IsBatch(item) => item.ticks = <<>> /\ ~ item.last
    /\ ~ IsBatch(Nothing) /\ ~ IsBatch(Failure)
BY DEF Item, IsBatch, Nothing, Failure

-----------------------------------------------------------------------------
(* Each tick is in one place.  The ticks that the variables hold are apart,    *)
(* and together they are those that the broker sent.                           *)

HeldApart(t) ==
    /\ Distinct(held[t].ticks)
    /\ Apart(taken, held[t].ticks) /\ Apart(buffer, held[t].ticks)
    /\ \A u \in Thread \ {t} : Apart(held[t].ticks, held[u].ticks)

SentApart(m) ==
    /\ Distinct(chan[m].ticks)
    /\ Apart(taken, chan[m].ticks) /\ Apart(buffer, chan[m].ticks)
    /\ \A t \in Thread : Apart(held[t].ticks, chan[m].ticks)
    /\ \A k \in 1..Len(chan) \ {m} : Apart(chan[m].ticks, chan[k].ticks)

AllApart ==
    /\ Distinct(taken) /\ Distinct(buffer) /\ Apart(taken, buffer)
    /\ \A t \in Thread : HeldApart(t)
    /\ \A m \in 1..Len(chan) : SentApart(m)

IsKept(n) ==
    \/ n \in Ticks(taken) \/ n \in Ticks(buffer)
    \/ \E t \in Thread : n \in Ticks(held[t].ticks)
    \/ \E m \in 1..Len(chan) : n \in Ticks(chan[m].ticks)

AllKept == \A n \in Tick : n <= sent <=> IsKept(n)

OnceInv == AllApart /\ AllKept

LEMMA SendsKeep ==
    ASSUME TypeOK, OnceInv, BrokerSends
    PROVE  OnceInv'
<1> USE BoundAssumption
<1>1. PICK n \in 0..MaxBatch, last \in BOOLEAN :
          sent + n <= MaxTicks /\ chan' = Append(chan, BatchOf(n, last)) /\ sent' = sent + n
  BY DEF BrokerSends
<1> DEFINE new == BatchOf(n, last).ticks
<1>2. /\ sent \in Nat /\ n \in Nat
      /\ \A k : k \in Ticks(new) <=> k \in (sent + 1)..(sent + n)
      /\ Distinct(new)
  BY NewTicks DEF TypeOK
<1>3. /\ Len(chan) \in Nat /\ Len(chan') = Len(chan) + 1 /\ chan'[Len(chan')].ticks = new
      /\ \A m \in 1..Len(chan) : chan'[m] = chan[m] /\ chan[m].ticks \in Seq(Tick)
  BY <1>1, ChannelGrows, BatchTypes, ItemTypes DEF TypeOK
<1>4. UNCHANGED <<taken, buffer, held>>
  BY DEF BrokerSends, history
<1> HIDE DEF new
<1>5. \A k \in Ticks(new) : k \in Tick /\ ~ (k <= sent)
  BY <1>1, <1>2 DEF Tick
<1>6. \A k \in Ticks(new) : ~ IsKept(k)
  BY <1>5 DEF OnceInv, AllKept
<1>7. /\ Apart(taken, new) /\ Apart(buffer, new)
      /\ \A t \in Thread : Apart(held[t].ticks, new)
      /\ \A m \in 1..Len(chan) : Apart(chan[m].ticks, new) /\ Apart(new, chan[m].ticks)
  BY <1>6 DEF Apart, IsKept
<1>8. \A m \in 1..Len(chan') : m \in 1..Len(chan) \/ m = Len(chan')
  BY <1>3
<1>9. AllApart'
  BY <1>2, <1>3, <1>4, <1>7, <1>8 DEF OnceInv, AllApart, HeldApart, SentApart
<1>10. ASSUME NEW k \in Tick
       PROVE  IsKept(k)' <=> IsKept(k) \/ k \in Ticks(new)
  BY <1>3, <1>4, <1>8 DEF IsKept
<1>11. ASSUME NEW k \in Tick
       PROVE  k <= sent' <=> k <= sent \/ k \in Ticks(new)
  BY <1>1, <1>2 DEF Tick
<1> QED  BY <1>9, <1>10, <1>11 DEF OnceInv, AllKept

\* A message without ticks.
LEMMA PlainSendsKeep ==
    ASSUME TypeOK, OnceInv, NEW item \in Item, item.ticks = <<>>, chan' = Append(chan, item),
           UNCHANGED <<taken, buffer, held, sent>>
    PROVE  OnceInv'
<1>1. /\ Len(chan) \in Nat /\ Len(chan') = Len(chan) + 1 /\ chan'[Len(chan')].ticks = <<>>
      /\ \A m \in 1..Len(chan) : chan'[m] = chan[m]
  BY ChannelGrows DEF TypeOK
<1>2. \A m \in 1..Len(chan') : m \in 1..Len(chan) \/ m = Len(chan')
  BY <1>1
<1>3. \A s : Apart(s, <<>>) /\ Apart(<<>>, s)
  BY NoTicks DEF Apart
<1>4. AllApart'
  BY <1>1, <1>2, <1>3, NoTicks DEF OnceInv, AllApart, HeldApart, SentApart
<1>5. ASSUME NEW k \in Tick
      PROVE  IsKept(k)' <=> IsKept(k)
  BY <1>1, <1>2, NoTicks DEF IsKept
<1> QED  BY <1>4, <1>5 DEF OnceInv, AllKept

LEMMA PopKeeps ==
    ASSUME TypeOK, OnceInv, NEW t \in Thread, PopTick(t)
    PROVE  OnceInv'
<1> DEFINE n == Head(buffer)
<1>1. /\ buffer \in Seq(Tick) /\ taken \in Seq(Tick) /\ buffer # <<>> /\ n \in Tick
      /\ buffer' = Tail(buffer) /\ taken' = Append(taken, n)
      /\ UNCHANGED <<chan, held, sent>>
  BY HeadTailProperties DEF TypeOK, PopTick, broker
<1>2. /\ Ticks(buffer) = Ticks(buffer') \union {n} /\ Distinct(buffer') /\ n \notin Ticks(buffer')
      /\ Ticks(taken') = Ticks(taken) \union {n} /\ Distinct(taken')
  BY <1>1, FirstTick, LaterTick DEF OnceInv, AllApart, Apart
<1> HIDE DEF n
<1>3. Apart(taken', buffer')
  BY <1>2 DEF OnceInv, AllApart, Apart
<1>4. ASSUME NEW s, Apart(taken, s), Apart(buffer, s)
      PROVE  Apart(taken', s) /\ Apart(buffer', s)
  BY <1>2, <1>4 DEF Apart
<1>5. AllApart'
  BY <1>1, <1>2, <1>3, <1>4 DEF OnceInv, AllApart, HeldApart, SentApart
<1>6. ASSUME NEW k \in Tick
      PROVE  IsKept(k)' <=> IsKept(k)
  BY <1>1, <1>2 DEF IsKept
<1> QED  BY <1>1, <1>5, <1>6 DEF OnceInv, AllKept

LEMMA ReceiveKeeps ==
    ASSUME TypeOK, OnceInv, NEW t \in Thread, Receive(t)
    PROVE  OnceInv'
<1>1. /\ Len(chan) \in Nat \ {0} /\ Len(chan') = Len(chan) - 1 /\ chan[1] = Head(chan)
      /\ \A m \in 1..Len(chan') : m + 1 \in 1..Len(chan) /\ chan'[m] = chan[m + 1]
      /\ \A m \in 1..Len(chan) : m # 1 => m - 1 \in 1..Len(chan') /\ chan'[m - 1] = chan[m]
  BY ChannelShrinks DEF TypeOK, Receive
<1>2. /\ held[t].ticks = <<>> /\ held'[t] = chan[1] /\ \A u \in Thread \ {t} : held'[u] = held[u]
      /\ UNCHANGED <<taken, buffer, sent>>
  BY <1>1 DEF TypeOK, Receive, Nothing, broker
<1>3. SentApart(1)
  BY <1>1 DEF OnceInv, AllApart
<1>4. ASSUME NEW u \in Thread
      PROVE  HeldApart(u)'
  <2>1. HeldApart(u)
    BY DEF OnceInv, AllApart
  <2>2. \A s, r : Apart(s, r) => Apart(r, s)
    BY DEF Apart
  <2>3. CASE u = t
    BY <1>2, <1>3, <2>2, <2>3 DEF HeldApart, SentApart
  <2>4. CASE u # t
    BY <1>2, <1>3, <2>1, <2>4 DEF HeldApart, SentApart
  <2> QED  BY <2>3, <2>4
<1>5. ASSUME NEW m \in 1..Len(chan')
      PROVE  SentApart(m)'
  <2>1. SentApart(m + 1) /\ chan'[m] = chan[m + 1] /\ m + 1 # 1
    BY <1>1 DEF OnceInv, AllApart
  <2>2. Apart(chan[1].ticks, chan[m + 1].ticks)
    BY <1>1, <1>3, <2>1 DEF SentApart
  <2>3. \A k \in 1..Len(chan') \ {m} : Apart(chan[m + 1].ticks, chan'[k].ticks)
    BY <1>1, <2>1 DEF SentApart
  <2>4. \A u \in Thread : Apart(held'[u].ticks, chan[m + 1].ticks)
    BY <1>2, <2>1, <2>2 DEF SentApart
  <2> QED  BY <1>2, <2>1, <2>3, <2>4 DEF SentApart
<1>6. AllApart'
  BY <1>2, <1>4, <1>5 DEF OnceInv, AllApart
<1>7. ASSUME NEW k \in Tick
      PROVE  IsKept(k)' <=> IsKept(k)
  <2>1. (\E m \in 1..Len(chan) : k \in Ticks(chan[m].ticks)) <=>
          (k \in Ticks(held'[t].ticks) \/ \E m \in 1..Len(chan') : k \in Ticks(chan'[m].ticks))
    BY <1>1, <1>2
  <2>2. k \notin Ticks(held[t].ticks)
    BY <1>2, NoTicks
  <2> QED  BY <1>2, <2>1, <2>2 DEF IsKept
<1> QED  BY <1>2, <1>6, <1>7 DEF OnceInv, AllKept

LEMMA FillKeeps ==
    ASSUME TypeOK, OnceInv, NEW t \in Thread, Fill(t)
    PROVE  OnceInv'
<1>1. /\ held[t].ticks \in Seq(Tick) /\ buffer \in Seq(Tick)
      /\ buffer' = buffer \o held[t].ticks
      /\ held'[t].ticks = <<>> /\ \A u \in Thread \ {t} : held'[u] = held[u]
      /\ UNCHANGED <<taken, chan, sent>>
  BY ItemTypes DEF TypeOK, Fill, FillWith, Nothing, broker
<1>2. HeldApart(t) /\ Distinct(buffer)
  BY DEF OnceInv, AllApart
<1>3. Ticks(buffer') = Ticks(buffer) \union Ticks(held[t].ticks) /\ Distinct(buffer')
  BY <1>1, <1>2, MoreTicks DEF HeldApart
<1>4. ASSUME NEW s
      PROVE  /\ Apart(buffer, s) /\ Apart(held[t].ticks, s) => Apart(buffer', s)
             /\ Apart(s, buffer) /\ Apart(s, held[t].ticks) => Apart(s, buffer')
             /\ Apart(s, held'[t].ticks) /\ Apart(held'[t].ticks, s)
  BY <1>1, <1>3, NoTicks DEF Apart
<1>5. Apart(taken', buffer')
  BY <1>1, <1>2, <1>4 DEF OnceInv, AllApart, HeldApart
<1>6. ASSUME NEW u \in Thread
      PROVE  HeldApart(u)'
  BY <1>1, <1>2, <1>4, NoTicks DEF OnceInv, AllApart, HeldApart
<1>7. ASSUME NEW m \in 1..Len(chan')
      PROVE  SentApart(m)'
  BY <1>1, <1>4 DEF OnceInv, AllApart, SentApart
<1>8. ASSUME NEW k \in Tick
      PROVE  IsKept(k)' <=> IsKept(k)
  BY <1>1, <1>3, NoTicks DEF IsKept
<1> QED  BY <1>1, <1>3, <1>5, <1>6, <1>7, <1>8 DEF OnceInv, AllApart, AllKept

LEMMA OnceStep ==
    ASSUME TypeOK, OnceInv, [Next]_vars
    PROVE  OnceInv'
<1>1. ASSUME UNCHANGED <<taken, buffer, held, chan, sent>>
      PROVE  OnceInv'
  BY <1>1 DEF OnceInv, AllApart, HeldApart, SentApart, AllKept, IsKept
<1>2. CASE UNCHANGED vars
  BY <1>1, <1>2 DEF vars, broker, history
<1>3. CASE BrokerStep
  BY <1>3, SendsKeep, PlainSendsKeep, ItemTypes DEF BrokerStep, BrokerStrays, RequestFails, Nothing, Failure, broker, history
<1>4. ASSUME NEW t \in Thread, Call(t) \/ CallCancel(t) \/ Drop(t) \/ ThreadStep(t)
      PROVE  OnceInv'
  <2>1. CASE PopTick(t) \/ Receive(t) \/ Fill(t)
    BY <2>1, PopKeeps, ReceiveKeeps, FillKeeps
  <2>2. CASE FillFails(t)
    <3>1. held[t].ticks = <<>> /\ \A u \in Thread : held'[u].ticks = held[u].ticks
      BY <2>2, PlainItems DEF FillFails, TypeOK, IsBatch, Nothing
    <3> QED  BY <2>2, <3>1 DEF FillFails, broker, history, OnceInv, AllApart, HeldApart, SentApart, AllKept, IsKept
  <2>3. CASE WriteCancel(t) \/ TellReaders(t)
    BY <1>1, <2>3, PlainSendsKeep, ItemTypes DEF WriteCancel, TellReaders, Failure, broker, history
  <2>4. CASE Call(t) \/ CallCancel(t) \/ Drop(t) \/ PopNothing(t) \/ SeeDone(t) \/ SeeMore(t)
               \/ GiveUp(t) \/ FillSkips(t) \/ WriteCancelFails(t)
    BY <1>1, <2>4 DEF Call, CallCancel, Drop, PopNothing, SeeDone, SeeMore, GiveUp, FillSkips, WriteCancelFails,
                      broker, history
  <2> QED  BY <1>4, <2>1, <2>2, <2>3, <2>4 DEF ThreadStep
<1> QED  BY <1>2, <1>3, <1>4 DEF Next

LEMMA OnceInit ==
    ASSUME Init
    PROVE  OnceInv
<1>1. /\ taken = <<>> /\ buffer = <<>> /\ chan = <<>> /\ sent = 0
      /\ \A t \in Thread : held[t].ticks = <<>>
  BY DEF Init, Nothing
<1>2. \A s : Apart(<<>>, s)
  BY NoTicks DEF Apart
<1>3. ~ \E m \in 1..Len(chan) : TRUE
  BY <1>1
<1> QED  BY <1>1, <1>2, <1>3, NoTicks DEF OnceInv, AllApart, HeldApart, SentApart, AllKept, IsKept, Tick

\* The places that a tick has, one kind at a time.
LEMMA PlacesAre ==
    ASSUME NEW n
    PROVE  \A p : p \in Places(n) <=>
             \/ \E i \in 1..Len(taken) : taken[i] = n /\ p = <<"taken", i>>
             \/ \E i \in 1..Len(buffer) : buffer[i] = n /\ p = <<"buffer", i>>
             \/ \E t \in Thread : \E i \in 1..Len(held[t].ticks) : held[t].ticks[i] = n /\ p = <<"held", t, i>>
             \/ \E m \in 1..Len(chan) : \E i \in 1..Len(chan[m].ticks) :
                    chan[m].ticks[i] = n /\ p = <<"chan", m, i>>
BY DEF Places

\* A tick that is kept is in one place.
LEMMA OnePlace ==
    ASSUME AllApart, NEW n, IsKept(n)
    PROVE  \E p \in Places(n) : Places(n) = {p}
<1>1. \A s, i : i \in 1..Len(s) => s[i] \in Ticks(s)
  BY DEF Ticks
<1>2. ASSUME NEW p, NEW q, p \in Places(n), q \in Places(n)
      PROVE  p = q
  <2>1. CASE \E i \in 1..Len(taken) : taken[i] = n /\ p = <<"taken", i>>
    <3>1. n \in Ticks(taken)
      BY <1>1, <2>1
    <3>2. n \notin Ticks(buffer) /\ (\A t \in Thread : n \notin Ticks(held[t].ticks))
          /\ \A m \in 1..Len(chan) : n \notin Ticks(chan[m].ticks)
      BY <3>1 DEF AllApart, HeldApart, SentApart, Apart
    <3>3. \E i \in 1..Len(taken) : taken[i] = n /\ q = <<"taken", i>>
      BY <1>1, <1>2, <3>2, PlacesAre
    <3> QED  BY <2>1, <3>3 DEF AllApart, Distinct
  <2>2. CASE \E i \in 1..Len(buffer) : buffer[i] = n /\ p = <<"buffer", i>>
    <3>1. n \in Ticks(buffer)
      BY <1>1, <2>2
    <3>2. n \notin Ticks(taken) /\ (\A t \in Thread : n \notin Ticks(held[t].ticks))
          /\ \A m \in 1..Len(chan) : n \notin Ticks(chan[m].ticks)
      BY <3>1 DEF AllApart, HeldApart, SentApart, Apart
    <3>3. \E i \in 1..Len(buffer) : buffer[i] = n /\ q = <<"buffer", i>>
      BY <1>1, <1>2, <3>2, PlacesAre
    <3> QED  BY <2>2, <3>3 DEF AllApart, Distinct
  <2>3. ASSUME NEW t \in Thread, NEW i \in 1..Len(held[t].ticks), held[t].ticks[i] = n, p = <<"held", t, i>>
        PROVE  p = q
    <3>1. n \in Ticks(held[t].ticks)
      BY <1>1, <2>3
    <3>2. n \notin Ticks(taken) /\ n \notin Ticks(buffer) /\ (\A u \in Thread \ {t} : n \notin Ticks(held[u].ticks))
          /\ \A m \in 1..Len(chan) : n \notin Ticks(chan[m].ticks)
      BY <3>1 DEF AllApart, HeldApart, SentApart, Apart
    <3>3. \E j \in 1..Len(held[t].ticks) : held[t].ticks[j] = n /\ q = <<"held", t, j>>
      <4>0. \/ \E j \in 1..Len(taken) : taken[j] = n /\ q = <<"taken", j>>
            \/ \E j \in 1..Len(buffer) : buffer[j] = n /\ q = <<"buffer", j>>
            \/ \E u \in Thread : \E j \in 1..Len(held[u].ticks) : held[u].ticks[j] = n /\ q = <<"held", u, j>>
            \/ \E k \in 1..Len(chan) : \E j \in 1..Len(chan[k].ticks) :
                   chan[k].ticks[j] = n /\ q = <<"chan", k, j>>
        BY <1>2, PlacesAre
      <4>1. ~ \E j \in 1..Len(taken) : taken[j] = n
        BY <1>1, <3>2
      <4>2. ~ \E j \in 1..Len(buffer) : buffer[j] = n
        BY <1>1, <3>2
      <4>3. \A k \in 1..Len(chan) : ~ \E j \in 1..Len(chan[k].ticks) : chan[k].ticks[j] = n
        BY <1>1, <3>2
      <4>4. PICK u \in Thread : \E j \in 1..Len(held[u].ticks) : held[u].ticks[j] = n /\ q = <<"held", u, j>>
        BY <4>0, <4>1, <4>2, <4>3, Zenon
      <4>5. u = t
        BY <1>1, <3>2, <4>4
      <4> QED  BY <4>4, <4>5
    <3>4. Distinct(held[t].ticks)
      BY DEF AllApart, HeldApart
    <3> QED  BY <2>3, <3>3, <3>4 DEF Distinct
  <2>4. ASSUME NEW m \in 1..Len(chan), NEW i \in 1..Len(chan[m].ticks), chan[m].ticks[i] = n, p = <<"chan", m, i>>
        PROVE  p = q
    <3>1. n \in Ticks(chan[m].ticks)
      BY <1>1, <2>4
    <3>2. n \notin Ticks(taken) /\ n \notin Ticks(buffer) /\ (\A u \in Thread : n \notin Ticks(held[u].ticks))
          /\ \A k \in 1..Len(chan) \ {m} : n \notin Ticks(chan[k].ticks)
      BY <3>1 DEF AllApart, SentApart, Apart
    <3>3. \E j \in 1..Len(chan[m].ticks) : chan[m].ticks[j] = n /\ q = <<"chan", m, j>>
      <4>0. \/ \E j \in 1..Len(taken) : taken[j] = n /\ q = <<"taken", j>>
            \/ \E j \in 1..Len(buffer) : buffer[j] = n /\ q = <<"buffer", j>>
            \/ \E u \in Thread : \E j \in 1..Len(held[u].ticks) : held[u].ticks[j] = n /\ q = <<"held", u, j>>
            \/ \E k \in 1..Len(chan) : \E j \in 1..Len(chan[k].ticks) :
                   chan[k].ticks[j] = n /\ q = <<"chan", k, j>>
        BY <1>2, PlacesAre
      <4>1. ~ \E j \in 1..Len(taken) : taken[j] = n
        BY <1>1, <3>2
      <4>2. ~ \E j \in 1..Len(buffer) : buffer[j] = n
        BY <1>1, <3>2
      <4>3. \A u \in Thread : ~ \E j \in 1..Len(held[u].ticks) : held[u].ticks[j] = n
        BY <1>1, <3>2
      <4>4. PICK k \in 1..Len(chan) : \E j \in 1..Len(chan[k].ticks) : chan[k].ticks[j] = n /\ q = <<"chan", k, j>>
        BY <4>0, <4>1, <4>2, <4>3, Zenon
      <4>5. k = m
        BY <1>1, <3>2, <4>4
      <4> QED  BY <4>4, <4>5
    <3>4. Distinct(chan[m].ticks)
      BY DEF AllApart, SentApart
    <3> QED  BY <2>4, <3>3, <3>4 DEF Distinct
  <2> QED  BY <1>2, <2>1, <2>2, <2>3, <2>4, PlacesAre
<1>3. \E p : p \in Places(n)
  BY PlacesAre DEF IsKept, Ticks
<1> QED  BY <1>2, <1>3

-----------------------------------------------------------------------------
(* The ticks in a row.  While no batch was received with another in a thread's *)
(* hands, what was handed out, the buffer, the batch that a thread holds and   *)
(* the messages of the channel have, one after the other, 1, 2, 3 and so on to *)
(* the last tick sent: off[m] is the last tick before the m-th message.        *)

Before == Len(taken) + Len(buffer)
NoneHeld == \A t \in Thread : ~ IsBatch(held[t])
NoneSent == \A m \in 1..Len(chan) : ~ IsBatch(chan[m])

LastIsLast ==
    \A m \in 1..Len(chan) :
        chan[m].last => finished /\ \A k \in 1..Len(chan) : k > m => ~ IsBatch(chan[k])

SentRow(off, m) ==
    /\ off[m + 1] = off[m] + Len(chan[m].ticks)
    /\ \A i \in 1..Len(chan[m].ticks) : chan[m].ticks[i] = off[m] + i
    /\ chan[m].last => off[m + 1] = sent

HeldRow(off, t) ==
    /\ off[1] = Before + Len(held[t].ticks)
    /\ \A i \in 1..Len(held[t].ticks) : held[t].ticks[i] = Before + i

Offsets == [1..(Len(chan) + 1) -> Nat]

Rows(off) ==
    /\ \A t \in Thread : IsBatch(held[t]) => HeldRow(off, t)
    /\ NoneHeld => off[1] = Before
    /\ off[Len(chan) + 1] = sent
    /\ \A m \in 1..Len(chan) : SentRow(off, m)

Row ==
    /\ \A i \in 1..Len(taken) : taken[i] = i
    /\ \A i \in 1..Len(buffer) : buffer[i] = Len(taken) + i
    /\ \A t, u \in Thread : IsBatch(held[t]) /\ IsBatch(held[u]) => t = u
    /\ \E off \in Offsets : Rows(off)
    /\ \A t \in Thread : held[t].last =>
         finished /\ Before + Len(held[t].ticks) = sent /\ NoneSent
    /\ done => finished /\ Before = sent /\ NoneSent /\ NoneHeld

RowInv == LastIsLast /\ (~ overlapped => Row)

\* A message put at the end of the channel: the ticks that come next, or none.
LEMMA GrowKeepsRow ==
    ASSUME TypeOK, RowInv, NEW item \in Item, chan' = Append(chan, item),
           UNCHANGED <<taken, buffer, held, done, overlapped>>,
           sent' = sent + Len(item.ticks), \A i \in 1..Len(item.ticks) : item.ticks[i] = sent + i,
           IsBatch(item) => ~ finished, finished => finished', item.last => finished'
    PROVE  RowInv'
<1>1. /\ Len(chan) \in Nat /\ Len(chan') = Len(chan) + 1 /\ chan'[Len(chan) + 1] = item
      /\ \A m \in 1..Len(chan) : chan'[m] = chan[m] /\ chan[m] \in Item
  BY ChannelGrows DEF TypeOK
<1>2. /\ sent \in Nat /\ Len(item.ticks) \in Nat
      /\ ~ IsBatch(item) => sent' = sent /\ ~ item.last
  BY BoundAssumption, ItemTypes, PlainItems DEF TypeOK
<1>3. \A m \in 1..Len(chan') : m \in 1..Len(chan) \/ m = Len(chan) + 1
  BY <1>1
<1>4. LastIsLast'
  <2> SUFFICES ASSUME NEW m \in 1..Len(chan'), chan'[m].last
               PROVE  finished' /\ \A k \in 1..Len(chan') : k > m => ~ IsBatch(chan'[k])
    BY DEF LastIsLast
  <2>1. CASE m \in 1..Len(chan)
    BY <1>1, <1>3, <2>1 DEF RowInv, LastIsLast
  <2>2. CASE m = Len(chan) + 1
    BY <1>1, <2>2
  <2> QED  BY <1>3, <2>1, <2>2
<1>5. ASSUME ~ overlapped'
      PROVE  Row'
  <2>1. Row
    BY <1>5 DEF RowInv
  <2>2. UNCHANGED <<Before, NoneHeld>>
    BY DEF Before, NoneHeld
  <2>3. \E off \in Offsets' : Rows(off)'
    <3>1. PICK off \in Offsets : Rows(off)
      BY <2>1 DEF Row
    <3>2. PICK new \in Offsets' : /\ new[Len(chan') + 1] = sent'
                                 /\ \A k \in 1..(Len(chan) + 1) : new[k] = off[k]
      <4> DEFINE f == [k \in 1..(Len(chan') + 1) |-> IF k <= Len(chan) + 1 THEN off[k] ELSE sent']
      <4>1. f \in Offsets' /\ f[Len(chan') + 1] = sent' /\ \A k \in 1..(Len(chan) + 1) : f[k] = off[k]
        BY <1>1, <1>2 DEF Offsets
      <4> QED  BY <4>1
    <3>3. ASSUME NEW m \in 1..Len(chan)
          PROVE  SentRow(new, m)'
      <4>1. SentRow(off, m) /\ m \in 1..(Len(chan) + 1) /\ m + 1 \in 1..(Len(chan) + 1)
        BY <1>1, <3>1 DEF Rows
      <4>2. chan[m].last => sent' = sent
        BY <1>2 DEF RowInv, LastIsLast
      <4> QED  BY <1>1, <3>2, <4>1, <4>2 DEF SentRow
    <3>4. ASSUME NEW m, m = Len(chan) + 1
          PROVE  SentRow(new, m)'
      <4>1. new[Len(chan) + 1] = sent /\ new[(Len(chan) + 1) + 1] = sent'
        BY <1>1, <3>1, <3>2 DEF Rows
      <4> QED  BY <1>1, <3>2, <3>4, <4>1 DEF SentRow
    <3>5. new[1] = off[1]
      BY <1>1, <3>2
    <3>6. \A m \in 1..Len(chan') : SentRow(new, m)'
      BY <1>3, <3>3, <3>4
    <3>7. (\A u \in Thread : IsBatch(held[u]) => HeldRow(new, u))' /\ (NoneHeld' => new[1] = Before')
      BY <2>2, <3>1, <3>5 DEF Rows, HeldRow
    <3> QED  BY <3>2, <3>6, <3>7 DEF Rows
  <2>4. ASSUME finished, NoneSent
        PROVE  NoneSent' /\ finished' /\ sent' = sent
    BY <1>1, <1>2, <1>3, <2>4 DEF NoneSent
  <2> QED  BY <2>1, <2>2, <2>3, <2>4 DEF Row
<1> QED  BY <1>4, <1>5 DEF RowInv

\* A step that leaves the channel and the batches in hand alone.
LEMMA SameKeepsRow ==
    ASSUME TypeOK, RowInv, UNCHANGED <<taken, buffer, done, overlapped, chan, sent, finished>>,
           \A t \in Thread : held'[t] = held[t] \/ (~ IsBatch(held[t]) /\ ~ IsBatch(held'[t]) /\ ~ held'[t].last)
    PROVE  RowInv'
<1>1. LastIsLast'
  BY DEF RowInv, LastIsLast
<1>2. UNCHANGED <<Before, NoneSent, Offsets>> /\ (NoneHeld' <=> NoneHeld)
  BY DEF Before, NoneSent, NoneHeld, Offsets
<1>3. ASSUME NEW off, Rows(off)
      PROVE  Rows(off)'
  BY <1>2, <1>3 DEF Rows, HeldRow, SentRow
<1>4. Row => Row'
  <2> SUFFICES ASSUME Row
               PROVE  Row'
    OBVIOUS
  <2>1. \E off \in Offsets' : Rows(off)'
    BY <1>2, <1>3 DEF Row
  <2>2. \A t, u \in Thread : IsBatch(held'[t]) /\ IsBatch(held'[u]) => t = u
    BY DEF Row
  <2>3. \A t \in Thread : held'[t].last => held'[t] = held[t]
    OBVIOUS
  <2> QED  BY <1>2, <2>1, <2>2, <2>3 DEF Row
<1> QED  BY <1>1, <1>4 DEF RowInv

LEMMA PopKeepsRow ==
    ASSUME TypeOK, RowInv, NEW t \in Thread, PopTick(t)
    PROVE  RowInv'
<1>1. /\ buffer \in Seq(Tick) /\ taken \in Seq(Tick) /\ buffer # <<>>
      /\ buffer' = Tail(buffer) /\ taken' = Append(taken, Head(buffer))
      /\ UNCHANGED <<chan, held, sent, finished, done, overlapped>>
  BY DEF TypeOK, PopTick, broker, flags
<1>2. /\ Len(buffer) \in Nat \ {0} /\ Len(buffer') = Len(buffer) - 1
      /\ \A i \in 1..Len(buffer') : i + 1 \in 1..Len(buffer) /\ buffer'[i] = buffer[i + 1]
  BY <1>1, EmptySeq, HeadTailProperties, LenProperties
<1>3. /\ Len(taken) \in Nat /\ Len(taken') = Len(taken) + 1 /\ taken'[Len(taken) + 1] = buffer[1]
      /\ \A i \in 1..Len(taken) : taken'[i] = taken[i]
  BY <1>1
<1>4. UNCHANGED <<Before, NoneSent, NoneHeld, Offsets, LastIsLast>>
  BY <1>1, <1>2, <1>3 DEF Before, NoneSent, NoneHeld, Offsets, LastIsLast
<1>5. ASSUME NEW off
      PROVE  Rows(off)' <=> Rows(off)
  BY <1>1, <1>4 DEF Rows, HeldRow, SentRow
<1>6. ASSUME Row
      PROVE  Row'
  <2>1. \A i \in 1..Len(taken') : taken'[i] = i
    <3>1. \A i \in 1..Len(taken') : i \in 1..Len(taken) \/ i = Len(taken) + 1
      BY <1>3
    <3>2. buffer[1] = Len(taken) + 1
      BY <1>2, <1>6 DEF Row
    <3> QED  BY <1>3, <1>6, <3>1, <3>2 DEF Row
  <2>2. \A i \in 1..Len(buffer') : buffer'[i] = Len(taken') + i
    <3> TAKE i \in 1..Len(buffer')
    <3>1. buffer'[i] = Len(taken) + (i + 1)
      BY <1>2, <1>6 DEF Row
    <3> QED  BY <1>2, <1>3, <3>1
  <2> QED  BY <1>1, <1>4, <1>5, <1>6, <2>1, <2>2 DEF Row
<1> QED  BY <1>1, <1>4, <1>6 DEF RowInv

LEMMA ReceiveKeepsRow ==
    ASSUME TypeOK, RowInv, NEW t \in Thread, Receive(t)
    PROVE  RowInv'
<1>1. /\ Len(chan) \in Nat \ {0} /\ Len(chan') = Len(chan) - 1 /\ chan[1] = Head(chan)
      /\ \A m \in 1..Len(chan') : m + 1 \in 1..Len(chan) /\ chan'[m] = chan[m + 1]
  BY ChannelShrinks DEF TypeOK, Receive
<1>2. chan[1] \in Item /\ Len(chan[1].ticks) \in Nat
  <2>1. 1 \in 1..Len(chan)
    BY <1>1
  <2> QED  BY <2>1, ItemTypes DEF TypeOK
<1>3. /\ ~ IsBatch(held[t]) /\ held'[t] = chan[1] /\ \A u \in Thread \ {t} : held'[u] = held[u]
      /\ UNCHANGED <<taken, buffer, sent, finished, done, Before>>
      /\ \A u \in Thread : ~ IsBatch(held[u]) => ~ held[u].last
  BY <1>1, PlainItems DEF TypeOK, Receive, Nothing, broker, flags, Before
<1>4. LastIsLast'
  <2>1. ASSUME NEW m \in 1..Len(chan'), chan'[m].last
        PROVE  finished' /\ \A k \in 1..Len(chan') : k > m => ~ IsBatch(chan'[k])
    <3>1. m + 1 \in 1..Len(chan) /\ chan[m + 1].last
      BY <1>1, <2>1
    <3>2. finished /\ \A k \in 1..Len(chan) : k > m + 1 => ~ IsBatch(chan[k])
      BY <3>1 DEF RowInv, LastIsLast
    <3>3. ASSUME NEW k \in 1..Len(chan'), k > m
          PROVE  ~ IsBatch(chan'[k])
      <4>1. k + 1 \in 1..Len(chan) /\ chan'[k] = chan[k + 1] /\ k + 1 > m + 1
        BY <1>1, <3>3
      <4> QED  BY <3>2, <4>1
    <3> QED  BY <1>3, <3>2, <3>3
  <2> QED  BY <2>1 DEF LastIsLast, IsBatch
<1>5. NoneSent => NoneSent' /\ ~ IsBatch(chan[1])
  BY <1>1 DEF NoneSent
<1>6. ASSUME ~ overlapped'
      PROVE  Row'
  <2>1. Row /\ (IsBatch(chan[1]) => NoneHeld)
    BY <1>1, <1>6 DEF RowInv, Receive, NoneHeld
  <2>2. \A u, v \in Thread : IsBatch(held'[u]) /\ IsBatch(held'[v]) => u = v
    BY <1>3, <2>1 DEF Row, NoneHeld
  <2>3. PICK off \in Offsets : Rows(off)
    BY <2>1 DEF Row
  <2>4. SentRow(off, 1) /\ off[1] \in Nat /\ off[2] = off[1] + Len(chan[1].ticks)
    <3>1. 1 \in 1..Len(chan) /\ 1 \in 1..(Len(chan) + 1) /\ 1 + 1 = 2
      BY <1>1
    <3>2. SentRow(off, 1) /\ off[1] \in Nat
      BY <2>3, <3>1 DEF Rows, Offsets
    <3> QED  BY <3>1, <3>2 DEF SentRow
  <2>5. PICK new \in Offsets' : \A k \in 1..Len(chan) : new[k] = off[k + 1]
    <3> DEFINE f == [k \in 1..(Len(chan') + 1) |-> off[k + 1]]
    <3>1. f \in Offsets' /\ \A k \in 1..Len(chan) : f[k] = off[k + 1]
      BY <1>1 DEF Offsets
    <3> QED  BY <3>1
  <2>6. new[1] = off[2] /\ new[Len(chan') + 1] = sent
    BY <1>1, <2>3, <2>5 DEF Rows
  <2>7. \A m \in 1..Len(chan') : SentRow(new, m)'
    <3> TAKE m \in 1..Len(chan')
    <3>1. SentRow(off, m + 1) /\ m \in 1..Len(chan) /\ m + 1 \in 1..Len(chan)
      BY <1>1, <2>3 DEF Rows
    <3>2. new[m] = off[m + 1] /\ new[m + 1] = off[(m + 1) + 1]
      BY <2>5, <3>1
    <3> QED  BY <1>1, <1>3, <3>1, <3>2 DEF SentRow
  <2>8. CASE IsBatch(chan[1])
    <3>1. off[1] = Before /\ NoneHeld
      BY <2>1, <2>3, <2>8 DEF Rows
    <3>2. HeldRow(new, t)'
      BY <1>3, <2>4, <2>6, <3>1 DEF HeldRow, SentRow
    <3>3. Rows(new)'
      BY <1>3, <2>6, <2>7, <2>8, <3>1, <3>2 DEF Rows, NoneHeld
    <3>4. chan[1].last => finished /\ Before + Len(chan[1].ticks) = sent /\ NoneSent'
      <4>1. chan[1].last => finished /\ \A k \in 1..Len(chan) : k > 1 => ~ IsBatch(chan[k])
        BY <1>1 DEF RowInv, LastIsLast
      <4>2. chan[1].last => NoneSent'
        BY <1>1, <4>1 DEF NoneSent
      <4>3. chan[1].last => off[2] = sent
        BY <2>4 DEF SentRow
      <4> QED  BY <2>4, <3>1, <4>1, <4>2, <4>3
    <3>5. ~ done
      BY <1>5, <2>1, <2>8 DEF Row
    <3>6. \A u \in Thread : held'[u].last => u = t
      BY <1>3, <3>1 DEF NoneHeld
    <3> QED  BY <1>3, <2>1, <2>2, <3>3, <3>4, <3>5, <3>6 DEF Row
  <2>9. CASE ~ IsBatch(chan[1])
    <3>1. Len(chan[1].ticks) = 0 /\ ~ chan[1].last /\ off[2] = off[1] /\ (NoneHeld' => NoneHeld)
          /\ (NoneHeld => NoneHeld')
      BY <1>2, <1>3, <2>4, <2>9, PlainItems DEF NoneHeld
    <3>2. ASSUME NEW u \in Thread, IsBatch(held'[u])
          PROVE  HeldRow(new, u)'
      BY <1>3, <2>3, <2>6, <2>9, <3>1, <3>2 DEF Rows, HeldRow
    <3>3. Rows(new)'
      BY <1>3, <2>3, <2>6, <2>7, <3>1, <3>2 DEF Rows
    <3> QED  BY <1>3, <1>5, <2>1, <2>2, <3>1, <3>3 DEF Row
  <2> QED  BY <2>8, <2>9
<1> QED  BY <1>4, <1>6 DEF RowInv

LEMMA FillKeepsRow ==
    ASSUME TypeOK, RowInv, NEW t \in Thread, Fill(t)
    PROVE  RowInv'
<1> DEFINE s == held[t].ticks
<1>1. /\ s \in Seq(Tick) /\ buffer \in Seq(Tick) /\ Len(taken) \in Nat /\ Len(buffer) \in Nat /\ Len(s) \in Nat
      /\ IsBatch(held[t]) /\ ~ IsBatch(held'[t]) /\ ~ held'[t].last /\ \A u \in Thread \ {t} : held'[u] = held[u]
      /\ \A u \in Thread : ~ IsBatch(held[u]) => ~ held[u].last
      /\ buffer' = buffer \o s /\ done' = held[t].last
      /\ UNCHANGED <<taken, chan, sent, finished, overlapped>>
  BY ItemTypes, PlainItems DEF TypeOK, Fill, FillWith, Nothing, broker
<1>2. /\ Len(buffer') = Len(buffer) + Len(s)
      /\ \A i \in 1..Len(buffer') : \/ i \in 1..Len(buffer) /\ buffer'[i] = buffer[i]
                                    \/ i - Len(buffer) \in 1..Len(s) /\ buffer'[i] = s[i - Len(buffer)]
  BY <1>1
<1> HIDE DEF s
<1>3. LastIsLast' /\ UNCHANGED <<NoneSent, Offsets>>
  BY <1>1 DEF RowInv, LastIsLast, NoneSent, Offsets
<1>4. ASSUME ~ overlapped'
      PROVE  Row'
  <2>1. Row
    BY <1>1, <1>4 DEF RowInv
  <2>2. NoneHeld'
    BY <1>1, <2>1 DEF Row, NoneHeld
  <2>3. Before' = Before + Len(s) /\ Before \in Nat
    BY <1>1, <1>2 DEF Before
  <2>4. PICK off \in Offsets : Rows(off)
    BY <2>1 DEF Row
  <2>5. off[1] = Before' /\ \A i \in 1..Len(s) : s[i] = Before + i
    BY <1>1, <2>3, <2>4 DEF Rows, HeldRow, s
  <2>6. Rows(off)'
    BY <1>1, <2>2, <2>4, <2>5 DEF Rows, NoneHeld, SentRow
  <2>7. \A i \in 1..Len(buffer') : buffer'[i] = Len(taken) + i
    <3> TAKE i \in 1..Len(buffer')
    <3>1. CASE i \in 1..Len(buffer) /\ buffer'[i] = buffer[i]
      BY <2>1, <3>1 DEF Row
    <3>2. CASE i - Len(buffer) \in 1..Len(s) /\ buffer'[i] = s[i - Len(buffer)]
      <4>1. buffer'[i] = (Len(taken) + Len(buffer)) + (i - Len(buffer))
        BY <2>5, <3>2 DEF Before
      <4> QED  BY <1>1, <4>1
    <3> QED  BY <1>2, <3>1, <3>2
  <2>8. held[t].last => finished /\ Before' = sent /\ NoneSent
    BY <2>1, <2>3 DEF Row, s
  <2>9. \A u \in Thread : ~ IsBatch(held'[u]) /\ ~ held'[u].last
    BY <1>1, <2>2 DEF NoneHeld
  <2>10. \E x \in Offsets' : Rows(x)'
    BY <1>3, <2>4, <2>6
  <2> QED  BY <1>1, <1>3, <2>1, <2>2, <2>7, <2>8, <2>9, <2>10 DEF Row
<1> QED  BY <1>3, <1>4 DEF RowInv

LEMMA RowStep ==
    ASSUME TypeOK, RowInv, [Next]_vars
    PROVE  RowInv'
<1>1. ASSUME UNCHANGED <<taken, buffer, done, overlapped, chan, sent, finished, held>>
      PROVE  RowInv'
  BY <1>1, SameKeepsRow
<1>2. ASSUME NEW item \in Item, ~ IsBatch(item), chan' = Append(chan, item), finished => finished',
             UNCHANGED <<taken, buffer, held, done, overlapped, sent>>
      PROVE  RowInv'
  <2>1. Len(item.ticks) = 0 /\ ~ item.last /\ sent \in Nat
    BY <1>2, PlainItems, BoundAssumption DEF TypeOK
  <2>2. sent' = sent + Len(item.ticks) /\ \A i \in 1..Len(item.ticks) : item.ticks[i] = sent + i
    BY <1>2, <2>1
  <2> QED  BY <1>2, <2>1, <2>2, GrowKeepsRow
<1>3. CASE UNCHANGED vars
  BY <1>1, <1>3 DEF vars, broker, history, flags
<1>4. CASE BrokerSends
  <2>1. PICK n \in 0..MaxBatch, last \in BOOLEAN :
            /\ sent + n <= MaxTicks
            /\ chan' = Append(chan, BatchOf(n, last)) /\ sent' = sent + n /\ finished' = last
    BY <1>4 DEF BrokerSends
  <2>2. BatchOf(n, last) \in Item /\ BatchOf(n, last).last = last /\ Len(BatchOf(n, last).ticks) = n
    BY <2>1, BatchTypes, NewTicks DEF TypeOK, BatchOf
  <2>3. \A i \in 1..n : BatchOf(n, last).ticks[i] = sent + i
    BY DEF BatchOf
  <2>4. ~ finished /\ UNCHANGED <<taken, buffer, held, done, overlapped>>
    BY <1>4 DEF BrokerSends, flags, history
  <2> QED  BY <2>1, <2>2, <2>3, <2>4, GrowKeepsRow
<1>5. CASE BrokerStrays \/ RequestFails
  BY <1>2, <1>5, ItemTypes, PlainItems DEF BrokerStrays, RequestFails, broker, flags, history
<1>6. ASSUME NEW t \in Thread, Call(t) \/ CallCancel(t) \/ Drop(t) \/ ThreadStep(t)
      PROVE  RowInv'
  <2>1. CASE PopTick(t) \/ Receive(t) \/ Fill(t)
    BY <2>1, PopKeepsRow, ReceiveKeepsRow, FillKeepsRow
  <2>2. CASE FillFails(t)
    <3>1. \A u \in Thread : held'[u] = held[u] \/ (~ IsBatch(held[u]) /\ ~ IsBatch(held'[u]) /\ ~ held'[u].last)
      BY <2>2, PlainItems, ItemTypes DEF FillFails, TypeOK, IsBatch
    <3>2. UNCHANGED <<taken, buffer, done, overlapped, chan, sent, finished>>
      BY <2>2 DEF FillFails, broker, flags, history
    <3> QED  BY <3>1, <3>2, SameKeepsRow
  <2>3. CASE WriteCancel(t) \/ TellReaders(t)
    BY <1>1, <1>2, <2>3, ItemTypes, PlainItems DEF WriteCancel, TellReaders, broker, flags, history
  <2>4. CASE Call(t) \/ CallCancel(t) \/ Drop(t) \/ PopNothing(t) \/ SeeDone(t) \/ SeeMore(t)
               \/ GiveUp(t) \/ FillSkips(t) \/ WriteCancelFails(t)
    BY <1>1, <2>4 DEF Call, CallCancel, Drop, PopNothing, SeeDone, SeeMore, GiveUp, FillSkips, WriteCancelFails,
                      broker, flags, history
  <2> QED  BY <1>6, <2>1, <2>2, <2>3, <2>4 DEF ThreadStep
<1> QED  BY <1>3, <1>4, <1>5, <1>6 DEF Next, BrokerStep

LEMMA RowInit ==
    ASSUME Init
    PROVE  RowInv
<1>1. /\ Len(taken) = 0 /\ Len(buffer) = 0 /\ Len(chan) = 0 /\ sent = 0 /\ ~ done
      /\ \A t \in Thread : ~ IsBatch(held[t]) /\ ~ held[t].last
  BY DEF Init, Nothing, IsBatch
<1>2. [k \in 1..1 |-> 0] \in Offsets /\ Rows([k \in 1..1 |-> 0])
  BY <1>1 DEF Offsets, Rows, Before
<1> QED  BY <1>1, <1>2 DEF RowInv, LastIsLast, Row

-----------------------------------------------------------------------------
(* The end. *)

\* A thread about to look at done has seen the buffer empty, and it still is,
\* but for another's fill.
EmptyWhenChecked == \A t \in Thread : at[t] = "check" /\ ~ raced[t] => buffer = <<>>

LEMMA EmptyStep ==
    ASSUME TypeOK, EmptyWhenChecked, [Next]_vars
    PROVE  EmptyWhenChecked'
<1>1. ASSUME UNCHANGED <<buffer, raced>>, \A u \in Thread : at'[u] = "check" => at[u] = "check"
      PROVE  EmptyWhenChecked'
  BY <1>1 DEF EmptyWhenChecked
<1>2. CASE UNCHANGED vars \/ BrokerStep
  BY <1>1, <1>2 DEF vars, history, BrokerStep, BrokerSends, BrokerStrays, RequestFails
<1>3. ASSUME NEW t \in Thread, Call(t) \/ CallCancel(t) \/ Drop(t) \/ ThreadStep(t)
      PROVE  EmptyWhenChecked'
  <2>1. CASE PopTick(t)
    BY <2>1 DEF PopTick, Goes, TypeOK, EmptyWhenChecked
  <2>2. CASE PopNothing(t)
    BY <2>2 DEF PopNothing, Goes, TypeOK, EmptyWhenChecked
  <2>3. CASE Fill(t)
    BY <2>3 DEF Fill, FillWith, Goes, TypeOK, EmptyWhenChecked
  <2>4. CASE ~ (PopTick(t) \/ PopNothing(t) \/ Fill(t))
    <3>1. UNCHANGED <<buffer, raced>>
      BY <1>3, <2>4 DEF Call, CallCancel, Drop, ThreadStep, SeeDone, SeeMore, Receive, GiveUp, FillSkips,
           FillFails, WriteCancel, WriteCancelFails, TellReaders, history
    <3>2. \A u \in Thread : at'[u] = "check" => at[u] = "check"
      BY <1>3, <2>4 DEF Call, CallCancel, Drop, ThreadStep, SeeDone, SeeMore, Receive, GiveUp, FillSkips,
           FillFails, WriteCancel, WriteCancelFails, TellReaders, Goes, TypeOK
    <3> QED  BY <1>1, <3>1, <3>2
  <2> QED  BY <2>1, <2>2, <2>3, <2>4
<1> QED  BY <1>2, <1>3 DEF Next

LEMMA TicksInvHolds == Spec => [](TypeOK /\ OnceInv /\ RowInv /\ EmptyWhenChecked)
<1>1. Init => OnceInv /\ RowInv /\ EmptyWhenChecked
  BY OnceInit, RowInit DEF Init, EmptyWhenChecked
<1>2. TypeOK /\ OnceInv /\ RowInv /\ EmptyWhenChecked /\ [Next]_vars =>
        (OnceInv /\ RowInv /\ EmptyWhenChecked)'
  BY OnceStep, RowStep, EmptyStep
<1> QED  BY <1>1, <1>2, TypesHold, PTL DEF Spec

\* Whatever the threads do, each tick the broker sent is in one place: on its way,
\* in the buffer, or handed to one caller; and they are handed out in the
\* broker's order unless two threads each held a batch at once.
THEOREM EachTickOnce == Spec => []TicksKept
<1>1. TypeOK /\ OnceInv /\ RowInv => TicksKept
  <2> SUFFICES ASSUME TypeOK, OnceInv, RowInv
               PROVE  TicksKept
    OBVIOUS
  <2>1. ASSUME NEW n \in 1..sent
        PROVE  \E p \in Places(n) : Places(n) = {p}
    <3>1. n \in Tick /\ n <= sent
      BY BoundAssumption DEF TypeOK, Tick
    <3> QED  BY <3>1, OnePlace DEF OnceInv, AllKept
  <2>2. ASSUME ~ overlapped, NEW i \in 1..Len(taken), NEW j \in 1..Len(taken), i < j
        PROVE  taken[i] < taken[j]
    BY <2>2 DEF RowInv, Row
  <2> QED  BY <2>1, <2>2 DEF TicksKept
<1> QED  BY <1>1, TicksInvHolds, PTL

\* next() returns None for the end only after the last tick was handed out, unless
\* another thread filled the buffer between this one's pop and its look at done,
\* or done was overwritten by an earlier batch appended late.
THEOREM TheEndIsTheEnd == Spec => EndMeansAll
<1> DEFINE AtTheEnd == \A t \in Thread : SeeDone(t) /\ ~raced[t] /\ ~overlapped =>
                           /\ buffer = <<>>
                           /\ Len(taken) = sent
<1>1. ASSUME TypeOK, RowInv, EmptyWhenChecked, NEW t \in Thread, SeeDone(t), ~ raced[t], ~ overlapped
      PROVE  buffer = <<>> /\ Len(taken) = sent
  <2>1. buffer = <<>>
    BY <1>1 DEF SeeDone, EmptyWhenChecked
  <2>2. Len(taken) + Len(buffer) = sent /\ Len(taken) \in Nat
    BY <1>1 DEF SeeDone, RowInv, Row, Before, TypeOK
  <2> QED  BY <2>1, <2>2
<1>2. TypeOK /\ OnceInv /\ RowInv /\ EmptyWhenChecked /\ [Next]_vars => [AtTheEnd]_vars
  BY <1>1
<1> QED  BY <1>2, TicksInvHolds, PTL DEF Spec, EndMeansAll
=============================================================================
