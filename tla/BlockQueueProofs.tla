-------------------------- MODULE BlockQueueProofs --------------------------
(***************************************************************************)
(* Proofs about BlockQueue, for any number of goroutines and any capacity. *)
(* The inductive invariant ties the two gates, which goroutines read       *)
(* without the mutex, to the length of the queue, which they do not.       *)
(***************************************************************************)
EXTENDS BlockQueue, SequenceTheorems, TLAPS

\* A gate is closed exactly when the operation it guards can proceed.
GatesTellLength ==
  /\ Len(bs) <= Size
  /\ readBlock.closed <=> Len(bs) > 0
  /\ writeBlock.closed <=> Len(bs) < Size

\* A call that runs still has bytes to push.
CallHasRest == \A p \in Producers : pc[p] # "idle" => rest[p] > 0

\* With one consumer nobody else shuts the read gate: the consumer holds its
\* current channel, and once it passed there is something to pop.
SingleConsumer(c) ==
  /\ pc[c] = "wait" => ref[c] = readBlock.gen
  /\ pc[c] = "commit" => Len(bs) > 0
  /\ blocking[c] /\ pc[c] # "idle" => Len(bs) > 0
  /\ ret[c] > 0

-----------------------------------------------------------------------------
\* Opening and shutting a gate.
LEMMA GateFacts ==
  ASSUME NEW g \in Gate
  PROVE  /\ Opened(g) \in Gate /\ Opened(g).closed /\ Opened(g).gen = g.gen
         /\ Shut(g) \in Gate /\ ~Shut(g).closed /\ Shut(g).gen = g.gen + 1
<1>1. Opened(g) \in Gate
  BY DEF Gate, Opened
<1>2. Opened(g).closed /\ Opened(g).gen = g.gen
  BY DEF Gate, Opened
<1>3. Shut(g) \in Gate
  BY DEF Gate, Shut
<1>4. ~Shut(g).closed /\ Shut(g).gen = g.gen + 1
  BY DEF Shut
<1> QED BY <1>1, <1>2, <1>3, <1>4

\* What the critical section of push appends.
LEMMA PushFacts ==
  ASSUME TypeOK, NEW p \in Producers, Len(bs) < Size, rest[p] > 0
  PROVE  /\ Fit(rest[p]) \in 1 .. rest[p]
         /\ Len(bs) + Fit(rest[p]) <= Size
         /\ Chunk(p, Fit(rest[p])) \in Seq(Bytes)
         /\ Len(Chunk(p, Fit(rest[p]))) = Fit(rest[p])
<1> USE QueueAssumption
<1>1. Len(bs) \in Nat /\ rest[p] \in Nat /\ pushed[p] \in Nat
  BY LenProperties DEF TypeOK
<1>2. Fit(rest[p]) \in 1 .. rest[p] /\ Len(bs) + Fit(rest[p]) <= Size
  BY <1>1 DEF Fit, Smaller
<1>3. \A i \in 1 .. Fit(rest[p]) : <<p, pushed[p] + i>> \in Bytes
  BY <1>1, <1>2 DEF Bytes
<1>4. Chunk(p, Fit(rest[p])) \in [1 .. Fit(rest[p]) -> Bytes]
  BY <1>3 DEF Chunk
<1>5. Fit(rest[p]) \in Nat
  BY <1>1, <1>2
<1> QED BY <1>2, <1>4, <1>5

\* What the critical section of pop leaves.
LEMMA PopFacts ==
  ASSUME TypeOK, NEW c \in Consumers, bs # <<>>,
         NEW n, n = PopCount(Len(bs), room[c])
  PROVE  /\ n \in 1 .. Len(bs)
         /\ SubSeq(bs, n + 1, Len(bs)) \in Seq(Bytes)
         /\ Len(SubSeq(bs, n + 1, Len(bs))) = Len(bs) - n
         /\ SubSeq(bs, 1, Smaller(n, room[c])) \in Seq(Bytes)
<1>1. Len(bs) \in Nat \ {0} /\ room[c] \in Nat
  BY EmptySeq, LenProperties DEF TypeOK
<1>2. n \in 1 .. Len(bs)
  BY <1>1 DEF PopCount
<1>3. \A i \in 1 .. Len(bs) : bs[i] \in Bytes
  BY ElementOfSeq DEF TypeOK
<1>4. \A i \in n + 1 .. Len(bs) : bs[i] \in Bytes
  BY <1>1, <1>2, <1>3
<1>5. Smaller(n, room[c]) \in Int /\ Smaller(n, room[c]) <= Len(bs)
  BY <1>1, <1>2 DEF Smaller
<1>6. \A i \in 1 .. Smaller(n, room[c]) : bs[i] \in Bytes
  BY <1>1, <1>3, <1>5
<1>7. n + 1 \in Int /\ Len(bs) \in Int
  BY <1>1, <1>2
<1>8. /\ SubSeq(bs, n + 1, Len(bs)) \in Seq(Bytes)
      /\ Len(SubSeq(bs, n + 1, Len(bs)))
           = IF n + 1 <= Len(bs) THEN Len(bs) - (n + 1) + 1 ELSE 0
  BY <1>4, <1>7, SubSeqProperties
<1>9. SubSeq(bs, 1, Smaller(n, room[c])) \in Seq(Bytes)
  BY <1>5, <1>6, SubSeqProperties
<1> QED BY <1>1, <1>2, <1>8, <1>9

-----------------------------------------------------------------------------
\* Variables keep their types; a call that runs has bytes left to push.
THEOREM TypeCorrect == Spec => [](TypeOK /\ CallHasRest)
<1> USE QueueAssumption
<1>1. Init => TypeOK /\ CallHasRest
  <2> SUFFICES ASSUME Init PROVE TypeOK /\ CallHasRest
    OBVIOUS
  <2>1. bs \in Seq(Bytes) /\ out \in Seq(Bytes)
    BY EmptySeq DEF Init
  <2>2. readBlock \in Gate /\ writeBlock \in Gate
    BY DEF Init, Gate
  <2>3. CallHasRest
    BY DEF Init, CallHasRest, Threads
  <2>4. pc \in [Threads -> {"idle", "load", "wait", "commit"}]
    BY DEF Init
  <2> QED BY <2>1, <2>2, <2>3, <2>4 DEF Init, TypeOK
<1>2. TypeOK /\ CallHasRest /\ [Next]_vars => TypeOK' /\ CallHasRest'
  <2> SUFFICES ASSUME TypeOK, CallHasRest, [Next]_vars PROVE TypeOK' /\ CallHasRest'
    OBVIOUS
  <2>1. ASSUME NEW p \in Producers, NEW n \in 1 .. MaxCall, PushCall(p, n)
        PROVE  TypeOK' /\ CallHasRest'
    BY <2>1 DEF PushCall, TypeOK, CallHasRest, Threads
  <2>2. ASSUME NEW c \in Consumers, NEW n \in 1 .. MaxCall, NEW b \in BOOLEAN, PopCall(c, n, b)
        PROVE  TypeOK' /\ CallHasRest'
    BY <2>2 DEF PopCall, TypeOK, CallHasRest, Threads
  <2>3. ASSUME NEW t \in Threads, Load(t) PROVE TypeOK' /\ CallHasRest'
    <3>1. GateOf(t).gen \in Nat
      BY DEF GateOf, TypeOK, Gate
    <3> QED BY <2>3, <3>1 DEF Load, TypeOK, CallHasRest, Threads
  <2>4. ASSUME NEW t \in Threads, Pass(t) PROVE TypeOK' /\ CallHasRest'
    BY <2>4 DEF Pass, TypeOK, CallHasRest, Threads
  <2>5. ASSUME NEW t \in Threads, Abort(t) PROVE TypeOK' /\ CallHasRest'
    BY <2>5 DEF Abort, TypeOK, CallHasRest, Threads
  <2>6. ASSUME NEW p \in Producers, PushCommit(p) PROVE TypeOK' /\ CallHasRest'
    <3>1. CASE Len(bs) >= Size
      BY <2>6, <3>1 DEF PushCommit, TypeOK, CallHasRest, Threads
    <3>2. CASE ~(Len(bs) >= Size)
      <4> DEFINE s == Fit(rest[p])
      <4>1. Len(bs) < Size /\ rest[p] > 0 /\ rest[p] \in Nat /\ pushed[p] \in Nat
        BY <2>6, <3>2, LenProperties DEF PushCommit, TypeOK, CallHasRest
      <4>2. s \in 1 .. rest[p] /\ Chunk(p, s) \in Seq(Bytes)
        BY <4>1, PushFacts
      <4>3. /\ bs' = bs \o Chunk(p, s)
            /\ pushed' = [pushed EXCEPT ![p] = @ + s]
            /\ rest' = [rest EXCEPT ![p] = @ - s]
            /\ readBlock' = ReadGateAfterPush(Len(bs) + s)
            /\ writeBlock' = WriteGateAfterPush(Len(bs) + s)
            /\ pc' = [pc EXCEPT ![p] = IF rest[p] = s THEN "idle" ELSE "load"]
            /\ UNCHANGED <<stopped, ref, room, blocking, out, ret>>
        BY <2>6, <3>2 DEF PushCommit
      <4> HIDE DEF s
      <4>4. bs' \in Seq(Bytes)
        BY <4>2, <4>3, ConcatProperties DEF TypeOK
      <4>5. readBlock' \in Gate /\ writeBlock' \in Gate
        BY <4>3, GateFacts DEF TypeOK, ReadGateAfterPush, WriteGateAfterPush
      <4>6. pushed' \in [Producers -> Nat] /\ rest' \in [Producers -> Nat]
        BY <4>1, <4>2, <4>3 DEF TypeOK
      <4>7. CallHasRest'
        BY <4>1, <4>2, <4>3 DEF CallHasRest, TypeOK, Threads
      <4> QED BY <4>3, <4>4, <4>5, <4>6, <4>7 DEF TypeOK, Threads
    <3> QED BY <3>1, <3>2
  <2>7. ASSUME NEW c \in Consumers, PopCommit(c) PROVE TypeOK' /\ CallHasRest'
    <3>1. CallHasRest'
      BY <2>7 DEF PopCommit, CallHasRest, TypeOK, Threads
    <3>2. CASE bs = <<>>
      BY <2>7, <3>1, <3>2, 0 \in Nat DEF PopCommit, TypeOK, Threads
    <3>3. CASE bs # <<>>
      <4> DEFINE n == PopCount(Len(bs), room[c])
      <4>1. /\ n \in 1 .. Len(bs)
            /\ SubSeq(bs, n + 1, Len(bs)) \in Seq(Bytes)
            /\ SubSeq(bs, 1, Smaller(n, room[c])) \in Seq(Bytes)
        BY <3>3, PopFacts
      <4>2. /\ pc' = [pc EXCEPT ![c] = "idle"]
            /\ ret' = [ret EXCEPT ![c] = n]
            /\ out' = out \o SubSeq(bs, 1, Smaller(n, room[c]))
            /\ bs' = SubSeq(bs, n + 1, Len(bs))
            /\ writeBlock' = WriteGateAfterPop(Len(bs) - n)
            /\ readBlock' = ReadGateAfterPop(Len(bs) - n)
            /\ UNCHANGED <<stopped, ref, rest, pushed, room, blocking>>
        BY <2>7, <3>3 DEF PopCommit
      <4> HIDE DEF n
      <4>3. out' \in Seq(Bytes)
        BY <4>1, <4>2, ConcatProperties DEF TypeOK
      <4>4. readBlock' \in Gate /\ writeBlock' \in Gate
        BY <4>2, GateFacts DEF TypeOK, WriteGateAfterPop, ReadGateAfterPop
      <4>5. ret' \in [Consumers -> Nat]
        BY <4>1, <4>2, LenProperties DEF TypeOK
      <4> QED BY <3>1, <4>1, <4>2, <4>3, <4>4, <4>5 DEF TypeOK, Threads
    <3> QED BY <3>1, <3>2, <3>3
  <2>8. ASSUME Stop PROVE TypeOK' /\ CallHasRest'
    BY <2>8 DEF Stop, TypeOK, CallHasRest
  <2>9. CASE UNCHANGED vars
    BY <2>9 DEF vars, TypeOK, CallHasRest
  <2> QED BY <2>1, <2>2, <2>3, <2>4, <2>5, <2>6, <2>7, <2>8, <2>9 DEF Next, Run
<1> QED BY <1>1, <1>2, PTL DEF Spec

\* The gates agree with the length in every state.
THEOREM GatesCorrect == Spec => []GatesTellLength
<1> USE QueueAssumption
<1>1. Init => GatesTellLength
  BY EmptySeq DEF Init, GatesTellLength
<1>2. /\ TypeOK /\ CallHasRest /\ GatesTellLength
      /\ [Next]_vars
      => GatesTellLength'
  <2> SUFFICES ASSUME TypeOK, CallHasRest, GatesTellLength, [Next]_vars
               PROVE  GatesTellLength'
    OBVIOUS
  <2>1. CASE UNCHANGED <<bs, readBlock, writeBlock>>
    BY <2>1 DEF GatesTellLength
  <2>2. ASSUME NEW p \in Producers, PushCommit(p) PROVE GatesTellLength'
    <3>1. CASE Len(bs) >= Size
      BY <2>1, <2>2, <3>1 DEF PushCommit
    <3>2. CASE ~(Len(bs) >= Size)
      <4> DEFINE s == Fit(rest[p])
      <4>1. Len(bs) < Size /\ rest[p] > 0 /\ Len(bs) \in Nat
        BY <2>2, <3>2, LenProperties DEF PushCommit, TypeOK, CallHasRest
      <4>2. /\ s \in 1 .. rest[p]
            /\ Len(bs) + s <= Size
            /\ Chunk(p, s) \in Seq(Bytes)
            /\ Len(Chunk(p, s)) = s
        BY <4>1, PushFacts
      <4>3. /\ bs' = bs \o Chunk(p, s)
            /\ readBlock' = ReadGateAfterPush(Len(bs) + s)
            /\ writeBlock' = WriteGateAfterPush(Len(bs) + s)
        BY <2>2, <3>2 DEF PushCommit
      <4> HIDE DEF s
      <4>4. Len(bs') = Len(bs) + s
        <5>1. bs \in Seq(Bytes)
          BY DEF TypeOK
        <5>2. Len(bs \o Chunk(p, s)) = Len(bs) + Len(Chunk(p, s))
          BY <4>2, <5>1, ConcatProperties
        <5> QED BY <4>2, <4>3, <5>2
      <4>5. s \in Nat /\ Len(bs) + s > 0
        BY <4>1, <4>2 DEF TypeOK
      <4>6. readBlock'.closed
        BY <4>3, <4>5, GateFacts DEF TypeOK, ReadGateAfterPush
      <4>7. writeBlock'.closed <=> Len(bs) + s < Size
        <5>1. CASE Len(bs) + s >= Size
          <6>1. ~writeBlock'.closed
            BY <4>3, <5>1, GateFacts DEF TypeOK, WriteGateAfterPush
          <6> QED BY <6>1, <5>1, <4>1, <4>5
        <5>2. CASE ~(Len(bs) + s >= Size)
          <6>1. writeBlock'.closed
            BY <4>1, <4>3, <5>2 DEF GatesTellLength, WriteGateAfterPush
          <6> QED BY <6>1, <5>2, <4>1, <4>5
        <5> QED BY <5>1, <5>2
      <4> QED BY <4>2, <4>4, <4>5, <4>6, <4>7 DEF GatesTellLength
    <3> QED BY <3>1, <3>2
  <2>3. ASSUME NEW c \in Consumers, PopCommit(c) PROVE GatesTellLength'
    <3>1. CASE bs = <<>>
      BY <2>1, <2>3, <3>1 DEF PopCommit
    <3>2. CASE bs # <<>>
      <4> DEFINE n == PopCount(Len(bs), room[c])
                 l == Len(bs) - n
      <4>1. n \in 1 .. Len(bs) /\ Len(SubSeq(bs, n + 1, Len(bs))) = l
        BY <3>2, PopFacts
      <4>2. /\ bs' = SubSeq(bs, n + 1, Len(bs))
            /\ writeBlock' = WriteGateAfterPop(l)
            /\ readBlock' = ReadGateAfterPop(l)
        BY <2>3, <3>2 DEF PopCommit
      <4>3. Len(bs) \in Nat
        BY LenProperties DEF TypeOK
      <4> HIDE DEF n
      <4>4. Len(bs') = l /\ l \in 0 .. Len(bs) - 1 /\ l < Size
        BY <4>1, <4>2, <4>3 DEF GatesTellLength
      <4> HIDE DEF l
      <4>5. writeBlock'.closed
        BY <4>2, <4>4, GateFacts DEF TypeOK, WriteGateAfterPop
      <4>6. readBlock'.closed <=> l > 0
        <5>1. CASE l = 0
          <6>1. ~readBlock'.closed
            BY <4>2, <5>1, GateFacts DEF TypeOK, ReadGateAfterPop
          <6> QED BY <6>1, <5>1
        <5>2. CASE l # 0
          <6>1. l > 0 /\ Len(bs) > 0
            BY <4>3, <4>4, <5>2
          <6>2. readBlock'.closed
            BY <4>2, <6>1, <4>4, <4>3 DEF GatesTellLength, ReadGateAfterPop
          <6> QED BY <6>1, <6>2
        <5> QED BY <5>1, <5>2
      <4> QED BY <4>3, <4>4, <4>5, <4>6 DEF GatesTellLength
    <3> QED BY <3>1, <3>2
  <2> QED BY <2>1, <2>2, <2>3 DEF Next, Run, vars, PushCall, PopCall, Load, Pass, Abort, Stop
<1> QED BY <1>1, <1>2, TypeCorrect, PTL DEF Spec

\* The queue never outgrows its capacity.
THEOREM NeverOverfull == Spec => []Capacity
<1>1. GatesTellLength => Capacity
  BY DEF GatesTellLength, Capacity
<1> QED BY <1>1, GatesCorrect, PTL

\* A goroutine is parked only on a queue it cannot use, however old the channel
\* is that it evaluated without the mutex.
THEOREM NobodySleepsThrough == Spec => []NoLostWakeup
<1>1. TypeOK /\ GatesTellLength => NoLostWakeup
  <2> SUFFICES ASSUME TypeOK, GatesTellLength PROVE NoLostWakeup
    OBVIOUS
  <2>1. Len(bs) \in Nat /\ Size \in Nat
    BY QueueAssumption, LenProperties DEF TypeOK
  <2>2. ASSUME NEW c \in Consumers, Parked(c) PROVE bs = <<>>
    <3>1. ~readBlock.closed
      BY <2>2, QueueAssumption DEF Parked, GateOf
    <3>2. Len(bs) = 0
      BY <2>1, <3>1 DEF GatesTellLength
    <3> QED BY <3>2, EmptySeq DEF TypeOK
  <2>3. ASSUME NEW p \in Producers, Parked(p) PROVE Len(bs) = Size
    <3>1. ~writeBlock.closed
      BY <2>3 DEF Parked, GateOf
    <3> QED BY <2>1, <3>1 DEF GatesTellLength
  <2> QED BY <2>2, <2>3 DEF NoLostWakeup
<1> QED BY <1>1, GatesCorrect, TypeCorrect, PTL

\* The only consumer never pops an empty queue, and one that saw bytes before
\* it entered BlockPop still finds them.
THEOREM SingleConsumerCorrect ==
  ASSUME NEW c, Consumers = {c}
  PROVE  Spec => []SingleConsumer(c)
<1> USE QueueAssumption
<1>1. Init => SingleConsumer(c)
  BY DEF Init, SingleConsumer, Threads
<1>2. /\ TypeOK /\ CallHasRest /\ GatesTellLength /\ SingleConsumer(c)
      /\ [Next]_vars
      => SingleConsumer(c)'
  <2> SUFFICES ASSUME TypeOK, CallHasRest, GatesTellLength, SingleConsumer(c), [Next]_vars
               PROVE  SingleConsumer(c)'
    OBVIOUS
  <2>0. c \in Threads /\ c \notin Producers /\ Len(bs) \in Nat
    BY LenProperties DEF Threads, TypeOK
  <2>1. ASSUME NEW p \in Producers, NEW n \in 1 .. MaxCall, PushCall(p, n)
        PROVE  SingleConsumer(c)'
    BY <2>0, <2>1 DEF PushCall, SingleConsumer, TypeOK
  <2>2. ASSUME NEW n \in 1 .. MaxCall, NEW b \in BOOLEAN, PopCall(c, n, b)
        PROVE  SingleConsumer(c)'
    <3>1. b => Len(bs) > 0
      BY <2>0, <2>2, EmptySeq DEF PopCall, Ready, TypeOK
    <3> QED BY <2>0, <2>2, <3>1 DEF PopCall, SingleConsumer, TypeOK
  <2>3. ASSUME NEW t \in Threads, Load(t) PROVE SingleConsumer(c)'
    BY <2>0, <2>3 DEF Load, GateOf, SingleConsumer, TypeOK
  <2>4. ASSUME NEW t \in Threads, Pass(t) PROVE SingleConsumer(c)'
    <3>1. CASE t = c
      <4>1. readBlock.closed
        BY <2>0, <2>4, <3>1 DEF Pass, Parked, GateOf, SingleConsumer
      <4> QED BY <2>0, <2>4, <3>1, <4>1 DEF Pass, SingleConsumer, GatesTellLength, TypeOK
    <3>2. CASE t # c
      BY <2>0, <2>4, <3>2 DEF Pass, SingleConsumer, TypeOK
    <3> QED BY <3>1, <3>2
  <2>5. ASSUME NEW t \in Threads, Abort(t) PROVE SingleConsumer(c)'
    BY <2>0, <2>5 DEF Abort, SingleConsumer, TypeOK
  <2>6. ASSUME NEW p \in Producers, PushCommit(p) PROVE SingleConsumer(c)'
    <3>1. CASE Len(bs) >= Size
      BY <2>0, <2>6, <3>1 DEF PushCommit, SingleConsumer, TypeOK
    <3>2. CASE ~(Len(bs) >= Size)
      <4> DEFINE s == Fit(rest[p])
      <4>1. Len(bs) < Size /\ rest[p] > 0
        BY <2>0, <2>6, <3>2 DEF PushCommit, TypeOK, CallHasRest
      <4>2. /\ s \in 1 .. rest[p]
            /\ Chunk(p, s) \in Seq(Bytes)
            /\ Len(Chunk(p, s)) = s
        BY <4>1, PushFacts
      <4>3. /\ bs' = bs \o Chunk(p, s)
            /\ readBlock' = ReadGateAfterPush(Len(bs) + s)
            /\ \E x : pc' = [pc EXCEPT ![p] = x]
            /\ UNCHANGED <<ref, ret, blocking>>
        BY <2>6, <3>2 DEF PushCommit
      <4> HIDE DEF s
      <4>4. Len(bs') = Len(bs) + s /\ s \in Nat \ {0}
        BY <4>2, <4>3, ConcatProperties DEF TypeOK
      <4>5. readBlock'.gen = readBlock.gen
        BY <4>3, GateFacts DEF TypeOK, ReadGateAfterPush
      <4>6. pc'[c] = pc[c]
        BY <2>0, <4>3 DEF TypeOK
      <4>7. Len(bs') > 0
        BY <2>0, <4>4
      <4> QED BY <4>3, <4>5, <4>6, <4>7 DEF SingleConsumer
    <3> QED BY <3>1, <3>2
  <2>7. ASSUME PopCommit(c) PROVE SingleConsumer(c)'
    <3>1. bs # <<>>
      BY <2>7, EmptySeq DEF PopCommit, SingleConsumer
    <3>2. PopCount(Len(bs), room[c]) \in 1 .. Len(bs)
      BY <3>1, PopFacts
    <3>3. pc'[c] = "idle" /\ ret'[c] = PopCount(Len(bs), room[c])
      BY <2>0, <2>7, <3>1 DEF PopCommit, TypeOK
    <3> QED BY <2>0, <3>2, <3>3 DEF SingleConsumer
  <2>8. ASSUME Stop PROVE SingleConsumer(c)'
    BY <2>8 DEF Stop, SingleConsumer
  <2>9. CASE UNCHANGED vars
    BY <2>9 DEF vars, SingleConsumer
  <2> QED BY <2>1, <2>2, <2>3, <2>4, <2>5, <2>6, <2>7, <2>8, <2>9 DEF Next, Run
<1> QED BY <1>1, <1>2, TypeCorrect, GatesCorrect, PTL DEF Spec

\* RWND.Read, the only consumer of its queue, never returns zero bytes and no
\* error.
THEOREM ReadsAreNotEmpty ==
  ASSUME NEW c, Consumers = {c}
  PROVE  Spec => []NoEmptyRead
<1>1. SingleConsumer(c) => NoEmptyRead
  BY DEF SingleConsumer, NoEmptyRead
<1> QED BY <1>1, SingleConsumerCorrect, PTL

\* BlockPop under the lock of the SWND, after Len() > 0, is never parked, so it
\* does not run into its panic.
THEOREM BlockPopDoesNotPanic ==
  ASSUME NEW c, Consumers = {c}
  PROVE  Spec => []NoPanic
<1>1. GatesTellLength /\ SingleConsumer(c) => NoPanic
  <2> SUFFICES ASSUME GatesTellLength, SingleConsumer(c), blocking[c], Parked(c)
               PROVE  FALSE
    BY DEF NoPanic
  <2>1. ~readBlock.closed
    BY QueueAssumption DEF Parked, GateOf
  <2> QED BY <2>1 DEF Parked, GatesTellLength, SingleConsumer
<1> QED BY <1>1, SingleConsumerCorrect, GatesCorrect, PTL

-----------------------------------------------------------------------------
\* A call of pop has a slice that is not empty, so it copies all that it removes.
RoomLeft == \A c \in Consumers : pc[c] # "idle" => room[c] > 0

\* Bytes that one producer appends continue its bytes.
LEMMA OrderedPush ==
  ASSUME NEW s \in Seq(Bytes), NEW n \in [Producers -> Nat], Ordered(s, n),
         NEW p \in Producers, NEW m \in Nat,
         NEW t \in Seq(Bytes), t = [i \in 1 .. m |-> <<p, n[p] + i>>]
  PROVE  Ordered(s \o t, [n EXCEPT ![p] = @ + m])
<1> DEFINE u == s \o t
           k2 == [n EXCEPT ![p] = @ + m]
<1>1. /\ Len(s) \in Nat /\ Len(t) = m /\ DOMAIN s = 1 .. Len(s)
      /\ \A i \in 1 .. m : t[i] = <<p, n[p] + i>>
  BY LenProperties
<1>2. /\ u \in Seq(Bytes) /\ Len(u) = Len(s) + m
      /\ \A i \in 1 .. Len(s) + m : u[i] = IF i <= Len(s) THEN s[i] ELSE t[i - Len(s)]
  BY <1>1, ConcatProperties
<1>3. DOMAIN u = 1 .. Len(s) + m
  BY <1>2, LenProperties
<1>4. /\ \A i \in 1 .. Len(s) : u[i] = s[i]
      /\ \A i \in Len(s) + 1 .. Len(s) + m : u[i] = <<p, n[p] + (i - Len(s))>>
  <2>1. ASSUME NEW i \in Len(s) + 1 .. Len(s) + m PROVE u[i] = <<p, n[p] + (i - Len(s))>>
    <3>1. i \in 1 .. Len(s) + m /\ ~(i <= Len(s)) /\ i - Len(s) \in 1 .. m
      BY <1>1
    <3> QED BY <1>1, <1>2, <3>1
  <2>2. \A i \in 1 .. Len(s) : u[i] = s[i]
    BY <1>1, <1>2
  <2> QED BY <2>1, <2>2
<1>5. /\ \A q \in Producers : n[q] \in Nat
      /\ k2[p] = n[p] + m /\ \A q \in Producers \ {p} : k2[q] = n[q]
  OBVIOUS
<1>6. \A k \in 1 .. Len(s) : s[k][1] \in Producers /\ s[k][2] \in 1 .. n[s[k][1]]
  <2> SUFFICES ASSUME NEW k \in 1 .. Len(s) PROVE s[k][1] \in Producers /\ s[k][2] \in 1 .. n[s[k][1]]
    OBVIOUS
  <2>1. s[k] \in Producers \X Nat
    BY <1>1, ElementOfSeq DEF Bytes
  <2> QED BY <1>1, <2>1 DEF Ordered
<1> HIDE DEF u, k2
<1>7. ASSUME NEW q \in Producers PROVE n[q] \in Nat /\ k2[q] \in Nat /\ n[q] <= k2[q]
  <2>1. CASE q = p
    BY <1>5, <2>1
  <2>2. CASE q # p
    <3>1. k2[q] = n[q] /\ n[q] \in Nat
      BY <1>5, <2>2
    <3> QED BY <3>1
  <2> QED BY <2>1, <2>2
<1>8. ASSUME NEW k \in DOMAIN u PROVE u[k][2] \in 1 .. k2[u[k][1]]
  <2>1. CASE k \in 1 .. Len(s)
    <3>1. u[k] = s[k] /\ s[k][1] \in Producers /\ s[k][2] \in 1 .. n[s[k][1]]
      BY <1>4, <1>6, <2>1
    <3>2. n[s[k][1]] \in Nat /\ k2[s[k][1]] \in Nat /\ n[s[k][1]] <= k2[s[k][1]]
      BY <1>7, <3>1
    <3> QED BY <3>1, <3>2
  <2>2. CASE k \in Len(s) + 1 .. Len(s) + m
    BY <1>1, <1>4, <1>5, <2>2
  <2> QED BY <1>1, <1>3, <2>1, <2>2
<1>9. ASSUME NEW q \in Producers, NEW i \in 1 .. k2[q] PROVE \E k \in DOMAIN u : u[k] = <<q, i>>
  <2>1. CASE i \in 1 .. n[q]
    <3>1. PICK k \in 1 .. Len(s) : s[k] = <<q, i>>
      BY <1>1, <2>1 DEF Ordered
    <3>2. k \in DOMAIN u /\ u[k] = <<q, i>>
      BY <1>1, <1>3, <1>4, <3>1
    <3> QED BY <3>2
  <2>2. CASE i \notin 1 .. n[q]
    <3>1. q = p /\ i \in n[p] + 1 .. n[p] + m
      BY <1>1, <1>5, <2>2
    <3> DEFINE k == Len(s) + (i - n[p])
    <3>2. k \in Len(s) + 1 .. Len(s) + m /\ k - Len(s) = i - n[p]
      BY <1>1, <1>5, <3>1
    <3>3. k \in DOMAIN u /\ u[k] = <<q, n[p] + (i - n[p])>>
      BY <1>1, <1>3, <1>4, <3>1, <3>2
    <3>4. n[p] + (i - n[p]) = i
      BY <1>5, <3>1
    <3> QED BY <3>3, <3>4
  <2> QED BY <2>1, <2>2
<1>10. ASSUME NEW k \in DOMAIN u, NEW l \in DOMAIN u, k < l, u[k][1] = u[l][1]
      PROVE  u[k][2] < u[l][2]
  <2>1. CASE l <= Len(s)
    <3>1. k \in 1 .. Len(s) /\ l \in 1 .. Len(s)
      BY <1>1, <1>3, <1>10, <2>1
    <3>2. u[k] = s[k] /\ u[l] = s[l]
      BY <1>4, <3>1
    <3> QED BY <1>1, <1>10, <3>1, <3>2 DEF Ordered
  <2>2. CASE k <= Len(s) /\ l > Len(s)
    <3>1. k \in 1 .. Len(s) /\ l \in Len(s) + 1 .. Len(s) + m
      BY <1>1, <1>3, <1>10, <2>2
    <3>2. u[k] = s[k] /\ u[l][1] = p /\ u[l][2] = n[p] + (l - Len(s))
      BY <1>4, <3>1
    <3>3. s[k][2] \in 1 .. n[p] /\ l - Len(s) \in Nat \ {0}
      BY <1>1, <1>6, <1>10, <3>1, <3>2
    <3> QED BY <1>5, <3>2, <3>3
  <2>3. CASE k > Len(s)
    <3>1. k \in Len(s) + 1 .. Len(s) + m /\ l \in Len(s) + 1 .. Len(s) + m
      BY <1>1, <1>3, <1>10, <2>3
    <3>2. u[k][2] = n[p] + (k - Len(s)) /\ u[l][2] = n[p] + (l - Len(s))
      BY <1>4, <3>1
    <3> QED BY <1>1, <1>5, <1>10, <3>1, <3>2
  <2> QED BY <1>1, <1>3, <2>1, <2>2, <2>3
<1>11. Ordered(u, k2)
  BY <1>8, <1>9, <1>10 DEF Ordered
<1> QED BY <1>11 DEF u, k2

\* Bytes that move from the front of one sequence to the end of another.
LEMMA Moved ==
  ASSUME NEW a \in Seq(Bytes), NEW b \in Seq(Bytes), NEW n \in 1 .. Len(b)
  PROVE  (a \o SubSeq(b, 1, n)) \o SubSeq(b, n + 1, Len(b)) = a \o b
<1> DEFINE f == SubSeq(b, 1, n)
           g == SubSeq(b, n + 1, Len(b))
           h == a \o f
           x == h \o g
           y == a \o b
<1>1. Len(a) \in Nat /\ Len(b) \in Nat /\ n \in Nat /\ \A i \in 1 .. Len(b) : b[i] \in Bytes
  BY LenProperties, ElementOfSeq
<1>2. f \in Seq(Bytes) /\ Len(f) = n /\ \A i \in 1 .. n : f[i] = b[i]
  <2>1. \A i \in 1 .. n : b[i] \in Bytes
    BY <1>1
  <2>2. /\ f \in Seq(Bytes) /\ Len(f) = IF 1 <= n THEN n - 1 + 1 ELSE 0
        /\ \A i \in 1 .. n - 1 + 1 : f[i] = b[1 + i - 1]
    BY <1>1, <2>1, SubSeqProperties
  <2> HIDE DEF f
  <2> QED BY <1>1, <2>2
<1>3. /\ g \in Seq(Bytes) /\ Len(g) = Len(b) - n
      /\ \A i \in 1 .. Len(b) - n : g[i] = b[n + i]
  <2>1. \A i \in n + 1 .. Len(b) : b[i] \in Bytes
    BY <1>1
  <2>2. n + 1 \in Int /\ Len(b) \in Int
    BY <1>1
  <2>3. /\ g \in Seq(Bytes) /\ Len(g) = IF n + 1 <= Len(b) THEN Len(b) - (n + 1) + 1 ELSE 0
        /\ \A i \in 1 .. Len(b) - (n + 1) + 1 : g[i] = b[n + 1 + i - 1]
    BY <2>1, <2>2, SubSeqProperties
  <2> HIDE DEF g
  <2>4. \A i \in 1 .. Len(b) - n : i \in 1 .. Len(b) - (n + 1) + 1 /\ n + 1 + i - 1 = n + i
    BY <1>1
  <2>5. Len(g) = Len(b) - n
    BY <1>1, <2>3
  <2> QED BY <2>3, <2>4, <2>5
<1> HIDE DEF f, g
<1>4. /\ h \in Seq(Bytes) /\ Len(h) = Len(a) + n
      /\ \A i \in 1 .. Len(a) + n : h[i] = IF i <= Len(a) THEN a[i] ELSE f[i - Len(a)]
  BY <1>2, ConcatProperties
<1> HIDE DEF h
<1>5. /\ x \in Seq(Bytes) /\ Len(x) = Len(a) + n + (Len(b) - n)
      /\ \A i \in 1 .. Len(a) + n + (Len(b) - n) :
           x[i] = IF i <= Len(a) + n THEN h[i] ELSE g[i - (Len(a) + n)]
  <2>1. /\ x \in Seq(Bytes) /\ Len(x) = Len(h) + Len(g)
        /\ \A i \in 1 .. Len(h) + Len(g) : x[i] = IF i <= Len(h) THEN h[i] ELSE g[i - Len(h)]
    BY <1>3, <1>4, ConcatProperties
  <2> HIDE DEF x
  <2> QED BY <1>3, <1>4, <2>1
<1>6. /\ y \in Seq(Bytes) /\ Len(y) = Len(a) + Len(b)
      /\ \A i \in 1 .. Len(a) + Len(b) : y[i] = IF i <= Len(a) THEN a[i] ELSE b[i - Len(a)]
  BY ConcatProperties
<1> HIDE DEF x, y
<1>7. Len(x) = Len(y) /\ Len(x) = Len(a) + Len(b)
  BY <1>1, <1>5, <1>6
<1>8. ASSUME NEW i \in 1 .. Len(x) PROVE x[i] = y[i]
  <2>1. CASE i <= Len(a)
    <3>1. i \in 1 .. Len(a) + n /\ i <= Len(a) + n /\ i \in 1 .. Len(a) + Len(b)
      BY <1>1, <1>7, <2>1
    <3>2. x[i] = h[i]
      BY <1>1, <1>5, <3>1
    <3> QED BY <1>4, <1>6, <2>1, <3>1, <3>2
  <2>2. CASE i > Len(a) /\ i <= Len(a) + n
    <3>1. i \in 1 .. Len(a) + n /\ ~(i <= Len(a)) /\ i - Len(a) \in 1 .. n /\ i \in 1 .. Len(a) + Len(b)
      BY <1>1, <1>7, <2>2
    <3>2. x[i] = h[i]
      BY <1>1, <1>5, <3>1
    <3> QED BY <1>2, <1>4, <1>6, <3>1, <3>2
  <2>3. CASE i > Len(a) + n
    <3>1. /\ i \in 1 .. Len(a) + Len(b) /\ ~(i <= Len(a) + n) /\ ~(i <= Len(a))
          /\ i - (Len(a) + n) \in 1 .. Len(b) - n /\ n + (i - (Len(a) + n)) = i - Len(a)
      BY <1>1, <1>7, <2>3
    <3>2. x[i] = g[i - (Len(a) + n)]
      BY <1>1, <1>5, <3>1
    <3> QED BY <1>3, <1>6, <3>1, <3>2
  <2> QED BY <1>1, <1>7, <2>1, <2>2, <2>3
<1>9. x = y
  BY <1>5, <1>6, <1>7, <1>8, SeqEqual
<1> QED BY <1>9 DEF x, y, h, f, g

\* Every step keeps the order of the bytes.
LEMMA OrderKept ==
  ASSUME TypeOK, CallHasRest, RoomLeft, InOrder, [Next]_vars
  PROVE  RoomLeft' /\ InOrder'
<1> USE QueueAssumption
<1>1. ASSUME NEW p \in Producers, NEW n \in 1 .. MaxCall, PushCall(p, n) PROVE RoomLeft' /\ InOrder'
  BY <1>1 DEF PushCall, RoomLeft, InOrder, TypeOK, Threads
<1>2. ASSUME NEW c \in Consumers, NEW n \in 1 .. MaxCall, NEW b \in BOOLEAN, PopCall(c, n, b)
      PROVE  RoomLeft' /\ InOrder'
  <2>1. RoomLeft'
    BY <1>2 DEF PopCall, RoomLeft, TypeOK, Threads
  <2>2. InOrder'
    BY <1>2 DEF PopCall, InOrder
  <2> QED BY <2>1, <2>2
<1>3. ASSUME NEW t \in Threads, Load(t) \/ Pass(t) \/ Abort(t) PROVE RoomLeft' /\ InOrder'
  <2>1. UNCHANGED <<out, bs, pushed, room>> /\ \A c \in Consumers : pc'[c] # "idle" => pc[c] # "idle"
    BY <1>3 DEF Load, Pass, Abort, TypeOK, Threads
  <2> QED BY <2>1 DEF RoomLeft, InOrder
<1>4. ASSUME NEW p \in Producers, PushCommit(p) PROVE RoomLeft' /\ InOrder'
  <2>1. RoomLeft'
    BY <1>4 DEF PushCommit, RoomLeft, TypeOK, Threads
  <2>2. CASE Len(bs) >= Size
    BY <1>4, <2>1, <2>2 DEF PushCommit, InOrder
  <2>3. CASE ~(Len(bs) >= Size)
    <3> DEFINE m == Fit(rest[p])
               t == Chunk(p, m)
    <3>1. pc[p] = "commit" /\ rest[p] > 0
      BY <1>4 DEF PushCommit, CallHasRest
    <3>2. Len(bs) \in Nat
      BY LenProperties DEF TypeOK
    <3>3. m \in 1 .. rest[p] /\ t \in Seq(Bytes)
      BY <2>3, <3>1, <3>2, PushFacts
    <3>4. m \in Nat /\ pushed \in [Producers -> Nat] /\ out \in Seq(Bytes) /\ bs \in Seq(Bytes)
      BY <3>3 DEF TypeOK
    <3>5. bs' = bs \o t /\ pushed' = [pushed EXCEPT ![p] = @ + m] /\ out' = out
      BY <1>4, <2>3 DEF PushCommit
    <3>6. t = [i \in 1 .. m |-> <<p, pushed[p] + i>>]
      BY DEF Chunk
    <3> HIDE DEF m, t
    <3>7. out \o bs \in Seq(Bytes)
      BY <3>4, ConcatProperties
    <3>8. Ordered((out \o bs) \o t, [pushed EXCEPT ![p] = @ + m])
      BY <3>3, <3>4, <3>6, <3>7, OrderedPush DEF InOrder
    <3>9. out \o (bs \o t) = (out \o bs) \o t
      BY <3>3, <3>4, ConcatAssociative
    <3> QED BY <2>1, <3>5, <3>8, <3>9 DEF InOrder
  <2> QED BY <2>2, <2>3
<1>5. ASSUME NEW c \in Consumers, PopCommit(c) PROVE RoomLeft' /\ InOrder'
  <2>1. RoomLeft'
    BY <1>5 DEF PopCommit, RoomLeft, TypeOK, Threads
  <2>2. CASE bs = <<>>
    BY <1>5, <2>1, <2>2 DEF PopCommit, InOrder
  <2>3. CASE bs # <<>>
    <3> DEFINE n == PopCount(Len(bs), room[c])
    <3>1. n \in 1 .. Len(bs)
      BY <2>3, PopFacts
    <3>2. Len(bs) \in Nat /\ room[c] \in Nat \ {0}
      <4>1. Len(bs) \in Nat /\ room[c] \in Nat
        BY LenProperties DEF TypeOK
      <4>2. room[c] > 0
        BY <1>5 DEF PopCommit, RoomLeft
      <4> QED BY <4>1, <4>2
    <3>3. Smaller(n, room[c]) = n
      BY <3>1, <3>2 DEF Smaller, PopCount
    <3>4. /\ out' = out \o SubSeq(bs, 1, Smaller(n, room[c])) /\ bs' = SubSeq(bs, n + 1, Len(bs))
          /\ pushed' = pushed
      BY <1>5, <2>3 DEF PopCommit
    <3> HIDE DEF n
    <3>5. out' \o bs' = out \o bs
      <4>1. out \in Seq(Bytes) /\ bs \in Seq(Bytes)
        BY DEF TypeOK
      <4>2. (out \o SubSeq(bs, 1, n)) \o SubSeq(bs, n + 1, Len(bs)) = out \o bs
        BY <3>1, <4>1, Moved
      <4> QED BY <3>3, <3>4, <4>2
    <3> QED BY <2>1, <3>4, <3>5 DEF InOrder
  <2> QED BY <2>2, <2>3
<1>6. CASE Stop
  BY <1>6 DEF Stop, RoomLeft, InOrder
<1>7. CASE UNCHANGED vars
  BY <1>7 DEF vars, RoomLeft, InOrder
<1> QED BY <1>1, <1>2, <1>3, <1>4, <1>5, <1>6, <1>7 DEF Next, Run

\* The queue loses, repeats and reorders no byte of any writer, for any number of
\* writers and readers and slices of any length: pop copies exactly what it removes
\* (bq.go), and two writers that pass the same gate do not write over each other.
THEOREM BytesInOrder == Spec => []InOrder
<1>1. Init => RoomLeft /\ InOrder
  <2> SUFFICES ASSUME Init PROVE RoomLeft /\ InOrder
    OBVIOUS
  <2>1. RoomLeft
    BY DEF Init, RoomLeft, Threads
  <2>2. out \o bs = <<>> /\ \A p \in Producers : pushed[p] = 0
    BY ConcatEmptySeq, EmptySeq DEF Init
  <2>3. DOMAIN (out \o bs) = {}
    BY <2>2
  <2>4. \A p \in Producers : 1 .. pushed[p] = {}
    <3>1. 1 .. 0 = {}
      OBVIOUS
    <3> QED BY <2>2, <3>1
  <2> QED BY <2>1, <2>3, <2>4 DEF InOrder, Ordered
<1>2. TypeOK /\ CallHasRest /\ RoomLeft /\ InOrder /\ [Next]_vars => RoomLeft' /\ InOrder'
  BY OrderKept
<1> QED BY <1>1, <1>2, TypeCorrect, PTL DEF Spec
=============================================================================
