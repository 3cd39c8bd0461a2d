----------------------------- MODULE BlockQueue -----------------------------
(***************************************************************************)
(* win/bq.go: the bounded byte queue between the application and a window. *)
(*                                                                         *)
(* The queue is a byte slice under a mutex and two gates.  A gate is a     *)
(* channel: closed, it lets every goroutine through; open, it parks them.  *)
(* A gate is "shut" by replacing the closed channel with a fresh one, so a *)
(* goroutine that evaluated the field earlier may hold an older channel.   *)
(* The fields readBlock and writeBlock are read WITHOUT the mutex (in the  *)
(* select statements), which is why loading a gate, waiting on it and the  *)
(* critical section are three separate steps here.                         *)
(*                                                                         *)
(* A critical section (Lock .. Unlock) is one step: whoever loads a gate   *)
(* in the middle of it sees the value from before or from after it.        *)
(***************************************************************************)
EXTENDS Integers, Sequences

CONSTANTS
  Producers,    \* goroutines in BlockPushWithSignal
  Consumers,    \* goroutines in BlockPopWithSignal or BlockPop
  Size,         \* bq.Size, the capacity in bytes
  MaxCall,      \* largest byte slice handed to one call
  MaxBytes,     \* bound: bytes each producer pushes in all its calls
  Deadline      \* can the channel `to` deliver, i.e. was a deadline set?

ASSUME QueueAssumption ==
  /\ Producers \cap Consumers = {}
  /\ Size \in Nat \ {0}
  /\ MaxCall \in Nat \ {0}
  /\ MaxBytes \in Nat
  /\ Deadline \in BOOLEAN

VARIABLES
  bs,           \* the bytes in the queue; a byte is <<producer, its ordinal>>
  readBlock,    \* the current read gate
  writeBlock,   \* the current write gate
  stopped,      \* is the `stop` channel (closeSignal) closed?
  pc,           \* where each goroutine is
  ref,          \* the gate each goroutine evaluated in its select
  rest,         \* producer: bytes of the call still to push
  pushed,       \* producer: bytes pushed so far
  room,         \* consumer: length of the slice of the call
  blocking,     \* consumer: is the call BlockPop, after Len() > 0 (as in SWND)?
  out,          \* history: the bytes handed out, in order
  ret           \* consumer: n of its last call that returned a nil error

vars == <<bs, readBlock, writeBlock, stopped, pc, ref, rest, pushed, room, blocking, out, ret>>

Threads == Producers \cup Consumers
Smaller(a, b) == IF a < b THEN a ELSE b

\* A gate is the current channel of the field: which one, and is it closed.
Gate == [gen : Nat, closed : BOOLEAN]
Shut(g) == [gen |-> g.gen + 1, closed |-> FALSE]
Opened(g) == [g EXCEPT !.closed = TRUE]

GateOf(t) == IF t \in Producers THEN writeBlock ELSE readBlock

\* Every channel that was replaced had been closed, so only the current
\* channel can park the goroutine that holds it.
Parked(t) == pc[t] = "wait" /\ ref[t] = GateOf(t).gen /\ ~GateOf(t).closed

Bytes == Producers \X Nat
Chunk(p, n) == [i \in 1 .. n |-> <<p, pushed[p] + i>>]

-----------------------------------------------------------------------------
\* init(): empty, reading blocks, writing does not.
Init ==
  /\ bs = <<>>
  /\ readBlock = [gen |-> 0, closed |-> FALSE]
  /\ writeBlock = [gen |-> 0, closed |-> TRUE]
  /\ stopped = FALSE
  /\ pc = [t \in Threads |-> "idle"]
  /\ ref = [t \in Threads |-> 0]
  /\ rest = [p \in Producers |-> 0]
  /\ pushed = [p \in Producers |-> 0]
  /\ room = [c \in Consumers |-> 0]
  /\ blocking = [c \in Consumers |-> FALSE]
  /\ out = <<>>
  /\ ret = [c \in Consumers |-> 1]

\* BlockPushWithSignal: an empty slice returns at once, so n > 0.
PushCall(p, n) ==
  /\ pc[p] = "idle"
  /\ pushed[p] + n <= MaxBytes
  /\ pc' = [pc EXCEPT ![p] = "load"]
  /\ rest' = [rest EXCEPT ![p] = n]
  /\ UNCHANGED <<bs, readBlock, writeBlock, stopped, ref, pushed, room, blocking, out, ret>>

\* BlockPopWithSignal, or BlockPop (b), which is called only when Len() > 0.
ReadyAlways(b) == TRUE
Ready(b) == b => bs # <<>>

PopCall(c, n, b) ==
  /\ pc[c] = "idle"
  /\ Ready(b)
  /\ pc' = [pc EXCEPT ![c] = "load"]
  /\ room' = [room EXCEPT ![c] = n]
  /\ blocking' = [blocking EXCEPT ![c] = b]
  /\ UNCHANGED <<bs, readBlock, writeBlock, stopped, ref, rest, pushed, out, ret>>

\* Entering the select evaluates the channel operands, without the mutex.
Load(t) ==
  /\ pc[t] = "load"
  /\ pc' = [pc EXCEPT ![t] = "wait"]
  /\ ref' = [ref EXCEPT ![t] = GateOf(t).gen]
  /\ UNCHANGED <<bs, readBlock, writeBlock, stopped, rest, pushed, room, blocking, out, ret>>

\* The select takes the gate's case.
Pass(t) ==
  /\ pc[t] = "wait"
  /\ ~Parked(t)
  /\ pc' = [pc EXCEPT ![t] = "commit"]
  /\ UNCHANGED <<bs, readBlock, writeBlock, stopped, ref, rest, pushed, room, blocking, out, ret>>

\* The select takes the case of `stop` or of `to`: errStoped, errTimeout.
\* BlockPop has neither case.
Abort(t) ==
  /\ pc[t] = "wait"
  /\ t \in Consumers => ~blocking[t]
  /\ stopped \/ Deadline
  /\ pc' = [pc EXCEPT ![t] = "idle"]
  /\ UNCHANGED <<bs, readBlock, writeBlock, stopped, ref, rest, pushed, room, blocking, out, ret>>

\* The critical section of push, and the loop of BlockPushWithSignal: of n
\* bytes, those that fit are appended.
FitAll(n) == n
FitRoom(n) == Size - Len(bs)
Fit(n) == Smaller(Size - Len(bs), n)

\* The gates after a push, and after a pop, that leaves l bytes.
ReadGateKept(l) == readBlock
ReadGateAfterPush(l) == IF l > 0 THEN Opened(readBlock) ELSE readBlock
WriteGateAfterPush(l) == IF l >= Size THEN Shut(Opened(writeBlock)) ELSE writeBlock
WriteGateWhenDrained(l) == IF l = 0 THEN Opened(writeBlock) ELSE writeBlock
WriteGateAfterPop(l) == IF l < Size THEN Opened(writeBlock) ELSE writeBlock
ReadGateAfterPop(l) == IF l <= 0 THEN Shut(Opened(readBlock)) ELSE readBlock

PushCommit(p) ==
  /\ pc[p] = "commit"
  /\ IF Len(bs) >= Size
     THEN /\ pc' = [pc EXCEPT ![p] = "load"]
          /\ UNCHANGED <<bs, readBlock, writeBlock, rest, pushed>>
     ELSE LET s == Fit(rest[p]) IN
          /\ bs' = bs \o Chunk(p, s)
          /\ pushed' = [pushed EXCEPT ![p] = @ + s]
          /\ rest' = [rest EXCEPT ![p] = @ - s]
          /\ readBlock' = ReadGateAfterPush(Len(bs) + s)
          /\ writeBlock' = WriteGateAfterPush(Len(bs) + s)
          /\ pc' = [pc EXCEPT ![p] = IF rest[p] = s THEN "idle" ELSE "load"]
  /\ UNCHANGED <<stopped, ref, room, blocking, out, ret>>

\* The critical section of pop: of l bytes, how many leave for a slice of n.
PopEverything(l, n) == l
PopCount(l, n) == IF n <= 0 \/ l < n THEN l ELSE n

PopCommit(c) ==
  /\ pc[c] = "commit"
  /\ pc' = [pc EXCEPT ![c] = "idle"]
  /\ IF bs = <<>>
     THEN /\ ret' = [ret EXCEPT ![c] = 0]
          /\ UNCHANGED <<bs, readBlock, writeBlock, out>>
     ELSE LET n == PopCount(Len(bs), room[c]) IN
          /\ ret' = [ret EXCEPT ![c] = n]
          /\ out' = out \o SubSeq(bs, 1, Smaller(n, room[c]))
          /\ bs' = SubSeq(bs, n + 1, Len(bs))
          /\ writeBlock' = WriteGateAfterPop(Len(bs) - n)
          /\ readBlock' = ReadGateAfterPop(Len(bs) - n)
  /\ UNCHANGED <<stopped, ref, rest, pushed, room, blocking>>

\* The window that owns the queue closes its closeSignal.
Stop ==
  /\ ~stopped
  /\ stopped' = TRUE
  /\ UNCHANGED <<bs, readBlock, writeBlock, pc, ref, rest, pushed, room, blocking, out, ret>>

\* The steps a goroutine takes by itself once its call has begun.
Run(t) ==
  \/ Load(t)
  \/ Pass(t)
  \/ t \in Producers /\ PushCommit(t)
  \/ t \in Consumers /\ PopCommit(t)

Next ==
  \/ \E p \in Producers, n \in 1 .. MaxCall : PushCall(p, n)
  \/ \E c \in Consumers, n \in 1 .. MaxCall, b \in BOOLEAN : PopCall(c, n, b)
  \/ \E t \in Threads : Run(t) \/ Abort(t)
  \/ Stop

\* Goroutines are scheduled; nobody has to call, to close or to time out.
Spec == Init /\ [][Next]_vars /\ \A t \in Threads : WF_vars(Run(t))

-----------------------------------------------------------------------------
\* Type invariant.
TypeOK ==
  /\ bs \in Seq(Bytes)
  /\ readBlock \in Gate
  /\ writeBlock \in Gate
  /\ stopped \in BOOLEAN
  /\ pc \in [Threads -> {"idle", "load", "wait", "commit"}]
  /\ ref \in [Threads -> Nat]
  /\ rest \in [Producers -> Nat]
  /\ pushed \in [Producers -> Nat]
  /\ room \in [Consumers -> Nat]
  /\ blocking \in [Consumers -> BOOLEAN]
  /\ out \in Seq(Bytes)
  /\ ret \in [Consumers -> Nat]

\* push re-checks the length under the mutex, so the queue never outgrows its
\* capacity even when several producers passed the same open gate.
Capacity == Len(bs) <= Size

\* No lost wakeup: whatever channel a goroutine evaluated without the mutex, it
\* is parked only while its operation really cannot proceed.
NoLostWakeup ==
  /\ \A c \in Consumers : Parked(c) => bs = <<>>
  /\ \A p \in Producers : Parked(p) => Len(bs) = Size

\* What each producer pushed is in the bytes handed out and those still queued, one
\* after the other: none lost, none invented, each once and in its order.
Ordered(s, n) ==
  /\ \A k \in DOMAIN s : s[k][2] \in 1 .. n[s[k][1]]
  /\ \A p \in Producers : \A i \in 1 .. n[p] : \E k \in DOMAIN s : s[k] = <<p, i>>
  /\ \A k, l \in DOMAIN s : k < l /\ s[k][1] = s[l][1] => s[k][2] < s[l][2]
InOrder == Ordered(out \o bs, pushed)

\* With one consumer a call that returns a nil error returns at least a byte:
\* RWND.Read never answers (0, nil), which io.ReadFull would spin on.
NoEmptyRead == \A c \in Consumers : ret[c] > 0

\* SWND calls BlockPop under its lock after Len() > 0: BlockPop is never parked,
\* so its one-second panic cannot fire.
NoPanic == \A c \in Consumers : blocking[c] => ~Parked(c)

\* A consumer that asked for bytes is not left waiting on a queue that has some.
ReaderServed ==
  \A c \in Consumers : pc[c] = "wait" /\ bs # <<>> ~> pc[c] # "wait"

\* A producer is not left waiting on a queue that has room.
WriterServed ==
  \A p \in Producers : pc[p] = "wait" /\ Len(bs) < Size ~> pc[p] # "wait"
=============================================================================
