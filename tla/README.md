# geronimo: specification and proofs

geronimo is "a reliable transport layer protocol based on the udp protocol"
(`readme.md:3`): a dialer and a listener exchange SYN, FIN, payload, ack and
keepalive messages over UDP, and give the application a byte stream.  This
directory holds TLA+ modules that model the program in `src/`, configurations
that TLC checks, and proofs that TLAPS checks.

1. [The system](#1-the-system)
2. [Modules](#2-modules)
3. [What is checked](#3-what-is-checked)
4. [Bounds](#4-bounds)
5. [Fairness](#5-fairness)
6. [What is proved](#6-what-is-proved)
7. [Disagreements between the code and what it says](#7-disagreements)
8. [What is not modelled](#8-what-is-not-modelled)
9. [Plan](#9-plan)

## 1. The system

### Components, their state and their operations

| Component | Source | State | Operations |
|---|---|---|---|
| Block queue `bq` | `win/bq.go` | bytes, two gates (channels that are closed or replaced), a mutex | `BlockPushWithSignal`, `BlockPopWithSignal`, `BlockPop`, `Pop`, `Len` |
| Segment | `win/segment.go` | `acked`, `isResend`, four rendezvous channels, three timers, `trsc` | `Send`, `AckIi`, `TryQResend`; a resender goroutine |
| Send window `SWND` | `win/swnd.go` | `appBuffer`, `sent`, `hSeq`, `tSeq`, `cwnd`, `swnd`, `flushTimer`, `closeSignal`, `sendFinish` | `Write`, `RecvAck`, `Close`; the goroutine `loopFlush`; `segmentEvent`, called by resenders |
| Receive window `RWND` | `win/rwnd.go` | `recved`, `tailSeq`, `appBuffer`, `closeSignal` | `Recv`, `Read`, `Close` |
| Connection `GConn` | `net/conn.go`, `net/mh.go` | a finite state machine, sequence numbers of SYN and FIN, counters of resends, keepalive timer, the two windows | `dial`, `Read`, `Write`, `Close`, one handler per message |
| Listener | `net/listener.go` | three maps by remote address (connection, channel of messages, channel that ends the worker), `acceptResult`, `closeSignal` | the reader goroutine, a worker per connection, `Accept`, `RecvNewConn`, `RmGConn`, `Close` |
| Dialer, addresses, options | `net/dial.go`, `net/addr.go`, `net/option.go` | none | `Dial`, conversions |
| Message codec | `rule/header.go`, `rule/attr.go`, `rule/v1`, `rule/v2`, `rule/fac` | header, attributes | `Marshall`, `UnMarshall`, one constructor per message, `Fac.New` |
| Ciphers | `cipher/` | the table of methods, a key, a lock, the streams `enc` and `dec`; a free list of buffers | `NewCipher`, `Encrypt`, `Decrypt`, `LeakyBuf.Get`, `LeakyBuf.Put` |

### How they interact

- The application calls `GConn.Write` -> `SWND.Write`, which pushes into a `bq`;
  the queue calls back (`pushEvent`) after each chunk, and the callback sends
  segments under the lock of the window.
- A sent segment has a goroutine of its own.  It retransmits by timer, meets the
  window's goroutine over channels (ack, quick resend), and reports to the window
  with `segmentEvent`, which takes **no lock**.
- `GConn.handleMessage` calls `SWND.RecvAck` or `RWND.Recv`.  All messages of a
  connection are handled by one goroutine, so one that blocks delays all others.
- `RWND.Recv` pushes into the second `bq` while it holds the mutex of the window,
  and acknowledges when it is through; `GConn.Read` pops from that queue.
- One goroutine of the listener reads the UDP socket of all its connections, finds
  the connection of the address in the maps, and hands the message to its worker
  over a channel of bounded length.  `GConn.Close` ends with `RmGConn`, which takes
  the address out of the maps.
- `rule/fac` makes one cipher for a dialer or a listener, so all goroutines that
  send messages of all its connections share it (`rule/v2`, `cipher`).
- `GConn.Close` runs the state machine: it closes the send window (which flushes),
  sends FIN1, waits for FIN2, closes the receive window.

### What is hard

- **Interleavings**: the gates of `bq` are read without its mutex; `cwnd` and
  `swnd` are updated without one; flush, write and ack compete for the lock.
- **Two goroutines in step**: every meeting in `segment.go` has ten seconds, then
  the process panics.
- **The network**: segments and acks are lost, repeated and reordered; 16 bits of
  the sequence number arrive.
- **Timeouts**: `waitAckTo` ends a segment, `closeCheckFlushTO` and
  `closeCheckAckTO` end a close, whatever was achieved by then.
- **Removal and return**: a client may come back from the same address while the
  listener removes its old connection, map by map.
- **Shared objects**: one cipher, whose stream is a field; a FIN2 is built of the
  object that the FIN1 was parsed into.
- **Liveness**: only acks and the flush timer move the send window on.

### What makes each component correct

| Component | Properties |
|---|---|
| Block queue | never above its capacity; nobody parked who could go on; bytes come out once and in order; no read of nothing; `BlockPop` never panics; readers and writers are served |
| Segment | no panic is reachable; `acked` is closed exactly once, at the end; calls return; the resender ends |
| Send window | with nothing in flight, bytes wait without a timer only if the last send met a window that was shut; acknowledged segments do not hold the head; what is written is sent; Close returns |
| Congestion window | the window is shut only by races; an undisturbed event repairs what races have left |
| Receive window, transport | in order, once, complete; nothing is dropped that the receiver lacks; both windows overlap; every segment arrives |
| Connection | opened once and closed once, no end open or answered alone; FIN after the data; windows exist when used and are closed once; Close and Dial return; the server follows its client; nobody waits for good |
| Listener | a connection is found by its address until it is removed; it sees its own SYN1 first; the reader goes on; a closed listener ends its connections |
| Codec, ciphers | a handler gets what the other end's constructor was called with, in any use of a shared cipher; lengths fit their fields; no nil stream as long as the first random IV of a cipher was drawn |

## 2. Modules

| Module | Models | Used by |
|---|---|---|
| `BlockQueue` | `win/bq.go` | `BlockQueueProofs`, `MCBlockQueue` |
| `Segment` | `win/segment.go` | `SegmentProofs`, `MCSegment` |
| `SeqNumbers` | the 16-bit sequence numbers | `SendWindow`, `CongWindow`, `RecvWindow` |
| `SendWindow` | `win/swnd.go` without `segmentEvent`: any window may be met | `RacingWindow`, `Transport`, `SendWindowProofs` |
| `CongWindow` | `SWND.segmentEvent`, statement by statement | `RacingWindow` |
| `RacingWindow` | `win/swnd.go`: the two together | `RacingWindowProofs`, `MCRacingWindow` |
| `RecvWindow` | `win/rwnd.go` | `Transport` |
| `ReliableStream` | the abstract promise of one direction | `Transport` (INSTANCE) |
| `Connection` | `net/conn.go`, `net/mh.go`: two ends from dial to close | `ConnectionProofs`, `MCConnection` |
| `Session` | the abstract life of a connection, both ends | `Connection` (INSTANCE) |
| `Listener` | `net/listener.go` | `ListenerProofs`, `MCListener` |
| `Codec` | `rule/`, `cipher/cipher.go` | `CodecProofs`, `MCCodec` |
| `Transport` | send window, network, receive window, and the two handlers of `net/mh.go` between them | `TransportProofs`, `MCTransport` |

`MC*` modules are the instances for TLC, `*Proofs` hold the theorems.  The file
`PROJECT.json` maps every definition to its lines in `src/`.  Definitions that
stand right before another one and are used nowhere (`FitAll`, `TrimsOne`,
`StopEarly` ..) are its mutated forms: put in its place they must make a run fail.

### BlockQueue

A gate is a channel.  The code parks a goroutine on an open channel, lets it
through a closed one, and *shuts* a gate by replacing the closed channel with a
new one, so a goroutine may hold one that is no longer in the field.  The model
gives a gate a generation: `Load` evaluates the field (no mutex), `Pass` leaves
the select, `PushCommit` and `PopCommit` are the critical sections.  A critical
section is atomic; a load in the middle of it sees the value before or after.
`Abort` is the case of `stop` or of the deadline.  `PopCall(c, n, b)` with `b`
is `BlockPop`, which `SWND` calls after `Len() > 0`; `NoPanic` says that such a
call never waits, so its one-second panic cannot happen.

### Segment

`caller` is the goroutine that holds the window's lock and calls `Send`, `AckIi`
and `TryQResend`; `resender` is `setResend`.  The four unbuffered channels are
joint steps (`TakeAck`, `AckResult`, `TakeQuick`, `QuickResult`).  `OfferRefused`
is the case of the caller's select that sees the closed `acked`.  Timers are
armed, fire and leave a tick; durations are not modelled.

### SendWindow

Bytes are counted.  A segment is its ordinal, `hSeq` and `tSeq` are ordinals
whose low 16 bits the code keeps.  A critical section is one step (`WriteEvent`,
`RecvAck`), except the flushes: they hold the lock while `Write` may still push,
so `FlushStep` sends one segment at a time.  `SendAll` is `send(readMSS)`, and
`TimerAfter` is what it does to `flushTimer`.  `SendAborted` is the same call with a
failing socket.  `Ticker` and `GiveUp` are what a segment's goroutine does to the
window.  `LastStart` .. `Finish` are `flushLastSegment` and `waitLastAck` with their
timeouts.

The field `swnd` is written without the lock, and `readMSS` reads it again before
every segment.  So the module does not compute a window: a send goes by a parameter
`w`, any of `Windows`, the one that the last `readMSS` of the loop met (earlier ones
let the earlier segments through).  `w = 0` stands for all of `swnd <= 0`.  `shut` is
a history variable: the last send met such a window with bytes left and nothing in
flight, so `readMSS` returned before its `Reset` of the timer.

### CongWindow

`segmentEvent` runs in every resender at once.  A statement that changes `cwnd`
reads it and writes it in two steps (`EventStart` or `EventRead`, then `Change`,
`Limit` or `Window`), so the module has every interleaving of the data race; `swnd`
is the field, whatever a stale `Window` has left in it.  `races` counts the events
that started while another was under way.

### RacingWindow

The resender of segment `n` starts an event when it has retransmitted (`ResendEvent`)
or when it ends (`EndEvent`, and `AckBegin` for an ack); the event then goes on step
by step, interleaved with other events and with every critical section of the
window.  One order is kept, since the code has it: `AckIi` returns after it has read
`acksr`, which the resender sends after `EventEnd` (`segment.go:290-296`).  So
`RecvAck` holds the lock from `AckBegin` to `AckEnd`, and the event of *its* segment
is over when it trims and sends, while the events of others may be anywhere.
`Seen(w)` ties the window of a send to the field: `w` is `swnd`, or, if a segment
went out at that, anything that a write in between may have left.

### RecvWindow

`recved` is the map, by number on the wire.  A segment's ordinal is its payload,
so what is stored and delivered tells *whose* bytes they are, whatever the number
said.  `Push` is one round of the loop of `recv`; it waits for `Room`, with the
mutex held (`rpc = "drain"` keeps `Recv` out).  `Ack` is the deferred ack.

### Transport

`dataNet` and `ackNet` hold everything ever sent; the network may deliver any of
it, at any time, again, or never.  One assumption is made: nothing is delivered
that is older than `Lifetime` segments.  16 bits cannot tell a segment from one
that is 65536 later, so no code without timestamps could do without one.

### Connection

Both ends, `"cli"` and `"ser"`.  `fsm.Event` of looplab/fsm sets the new state and
runs its callback with a mutex held, so `status` is the state, `callback` the
callback that runs, and `Unlocked` is the guard of whoever has another event.
The callbacks that wait are in steps: `Ask`, `AskTimeout`, `Exhausted`
are the loops of SYN1 and FIN1, `closewin` is the close of the send window,
`accept` the hand-over to `Accept`.  An `Event` whose state is its own
destination runs no callback: `FinIgnored`, and the second case of `Syn1Event`.
`reader` is the goroutine that handles the messages, which also closes
(`RecvPayload` without a window), blocks in `Recv`, and force-closes.  `waiting`
are the goroutines inside `Close` that have not got the mutex: the application,
both goroutines of the keepalive, the reader.  `net` is the set of messages ever
sent; each may arrive at any time, again, or never.

`Session` knows five phases of an end: none, open, closing, answered, closed.
`Connection` maps to it by `phase <- [p |-> Phase(p)]`: `FinWait1` is closing
until the FIN2 is there and answered from then on.  The session says what the two
state machines say together and neither says alone: the client is open only after
its server, an answer means that the other end is closed, and closed is for good.

### Listener

`reader` is the goroutine of `init` with its local variables.  It goes through the
maps entry by entry, each `Load` or `Store` of a `sync.Map` in a step of its own:
`ReadFromUDP` looks into `gcs`, `StoreConn`, `StoreMsgs` and `StoreCloses` register
a new connection, `FindMsgs` and `FindCloses` load both channels, `Push` is the
select on a full channel and on the channel of `closes`.  `worker[c]` is the
goroutine of connection `c`, and `RmConn` .. `RmCloses` are the four statements of
`RmGConn`, under `rmConnLock`, which the reader does not take.  `RmTell` is the
load, the select and the `close` in one step: they are under that lock and nobody
else closes such a channel.  `closer` is the `Range` of `Close`.

A connection is reduced to what the listener meets of it (`conn`).  The message
kind `"other"` is everything but SYN1; the goroutine that a FIN1 starts may act at
any time (`FinStart`); a handler may wait until the application reads (`recv`).
`raced` is a history variable: the addresses for which a new connection was
registered while `RmGConn` removed an old one.  For these the program breaks its
maps (see [7](#7-disagreements)), and the properties except them.

### Codec

`Build` is a constructor on the object it is called on, `Marshall` and `UnMarshall`
work on bytes, attributes included, and `Handed` is what `ReadFromUDP` and
`UnMarshall` leave of a datagram.  `EncryptStart` is `Encrypt` up to the fresh IV
and its stream, `EncryptEnd` the rest; both are under the lock of the cipher, which
`Unlocked` stands for.  A stream is known by its IV, encrypted bytes carry the
stream they went through, and `Handed` reads garbage (`Err`) under another one.
`rand.Reader` may fail (`cipher.go:220`); `Encrypt` ignores that (`:235`) and goes on
with an IV of zeros (`Nil`) and the stream of the call before, or panics if there
was none (`StreamFor`).  The program ends with a panic (`Running`).
`cipherMethod` is the table with the lengths of key and IV, and `StreamMade` says
which lengths each algorithm takes (library code).  Assumed: IVs that are drawn,
which are random, differ; `Fresh` names them by the call.

## 3. What is checked

| Run | What it shows |
|---|---|
| `queue` | Two writers and a reader, gates loaded without the mutex, stop, deadline and `BlockPop`: capacity, order, no empty read, no lost wake-up, no panic, and both sides are served. |
| `segment` | No ten-second panic, the end of a segment happens once, calls return, the resender ends. |
| `send_window` | Write, acks, resends, flushes, failing sends and the close, interleaved with the unlocked events of the segments: bytes with nothing in flight are without a timer only if the last send met a shut window (`NoStrandedData`), which takes overlapping events (`ShutByRaces`); an event that runs alone repairs the windows (`Repairs`); `HeadUnacked`; the window with its events does what `SendWindow` allows (`AnyWindow`). |
| `transport` | Until the stream is broken nothing is dropped that is not received, and both windows implement `ReliableStream`: in order, once, complete. |
| `transport_live` | Every segment arrives (`GetsOn`), what is written is sent (`Drains`), and the close of the send window ends (`FlusherEnds`). |
| `conn` | Windows exist when the application uses them, and each send window is closed once whichever of Close, FIN1 and socket error comes first; FIN1 and FIN2 come after that; both ends are a `Session`. |
| `conn_live` | Dial and Close return; the server closes after its client; the reader of messages is released. |
| `listener` | Two connections of two peers, or of one that comes back: `Reachable`, `FirstIsSyn1`; one connection that does not read does not hold up the others for ever (`ReaderGoesOn`); after Close of the listener all connections end, also those that Close misses (`ClosesAll`). |
| `codec` | Every message of every cipher method arrives as it was meant (`RoundTrip`), with goroutines that share a cipher, objects that are used again, and 16-bit fields at their ends, as long as its IV was drawn; a failure of `rand.Reader` panics only before the first datagram of a cipher (`NoPanic`). |
| `send_stranded`, `transport_flush`, `conn_dial` | Each violates one statement of the code's comments, constants or documents: see [7](#7-disagreements). |

"Broken" is one of two events: the sender ended a segment without an ack
(`gaveUp`), or it had more in flight than the receiver takes (`overrun`).  The
code does both, and both lose data: `transport_flush` excludes the first and
still finds a loss.  With both excluded the stream is reliable, so these two are
the only ways to lose data.

`ReaderGoesOn` and `ClosesAll` rest on the keepalive: a worker that waits for the
application handles no keepalives, so its connection times out, is closed and
removed, and `RmGConn` lets the reader go.

`send_window` and `send_stranded` are two halves of one statement.  As long as no two
events overlap, nothing is stranded (`NoStrandedData` and `ShutByRaces`, proved as
`StrandedOnlyByRaces`).  Once they overlap, it may be, and the second run shows how.
For the same reason `Drains` excepts `shut`: a window that races have shut may never
open again.  It also excepts `gaveUp`, after which the code does stop
([7](#7-disagreements)), and a close on either side.

`ServerFollows` holds in this direction only.  The keepalive sender of the server
has no end (`conn.go:563`: it stops on a write error, which the listener turns
into a panic), so a client that misses every FIN1 stays established.

`ReliableStream` has three actions: `Send` (a segment is cut), `Deliver` (the
next one in order is handed out), `Break`.  `Transport` maps to it by
`sent <- tSeq`, `got <- delivered`, `broken <- Broken`.

## 4. Bounds

| Run | Instance | Why it is enough |
|---|---|---|
| `queue` | 2 producers of 2 bytes, 1 consumer, capacity 2 | two writers pass the same gate, one fills the queue, a pop drains it; a gate is replaced several times.  One consumer: a window has `readLock` or its own lock around every pop |
| `segment` | `maxTickerResendC = 1` | both branches of the limit; the rest of the state is finite |
| `send_window` | `MSS` 2, `AppBuffer` 3, 3 bytes, `RecWin` 2, `cwnd` limited to 1 .. 2; `SendFails` on; one event starts while another is under way | full segments, a short rest, a full buffer, segments in flight, acks in both orders; one overlap takes `cwnd` from 1 to 0 and shuts the window, and events that run alone come before and after it; races and the close are explored apart (constraint `RacedOrClosed`); 881,000 states, about a minute |
| `send_stranded` | the ratios of the code: `MinCong` = `DefCong` = 2, `MaxCong` 4; 5 bytes, two overlaps | from the minimum of 2 it takes two overlaps to get to zero; constraint `Unhurried` (nothing closed, given up or flushed) keeps the search short |
| `transport` | `SeqMod` 4, `RecWin` 2, 6 segments, 1 segment in the read buffer, any window, `SendFails` on | the numbers wrap around, old duplicates have the numbers of new segments, out-of-order segments are stored, the buffer is full; 875,000 states |
| `transport_live` | `MSS` 2, `AppBuffer` 2, 2 bytes: a full segment, or two short ones by the flush | liveness is costly (77,000 states); the second segment waits for the first; any window at every send |
| `conn` | one resend (10 in the code), one goroutine of `fin1MessageHandler` at a time, socket errors | timeout, resend and late answer, both ends closing, a repeated FIN1, close by the keepalive and by the reader |
| `conn_live` | the same without socket errors of the dialer | liveness is costly (131,418 states, about three minutes); a read error still comes with the close of the UDP connection |
| `listener` | 2 addresses, 2 connections, channels of 1 message (100 in the code) | the second connection comes from the other address or from the same one during the removal of the first; channels are full; 556,927 states, about three minutes |
| `codec` | two goroutines of the client, one of the server; 2 datagrams; fields 0 and 65535; payloads of 0, 1, `mss` bytes and of `mss` plus the longest IV, which only the mutated `mss` cuts | two goroutines in Encrypt at once, a FIN1 answered with its own object, the ends of every field, the datagram that just fits; `rand.Reader` fails before and after a stream was made |

Named bounds of the modules: `MaxFins` (Connection), `MaxBytes` (BlockQueue), `MaxWritten` (SendWindow),
`MaxRaces` (CongWindow), `MaxConns` (Listener), `MaxSent` (Codec).  `MCListener` names
the peers in the order of their coming (constraint `FirstIsFirst`; nothing tells
addresses apart).  `MCRacingWindow` has the two constraints above.  `MCTransport` explores no further once `Broken`, which
lasts (constraint `Unbroken`): the invariants say nothing from there on.

## 5. Fairness

- *Goroutines are scheduled*, and timers fire: weak fairness of the step.
- *A Go select picks at random among the cases that are ready*: strong fairness of
  a case that is ready again and again (`Segment`).
- *Go's mutex does not starve* a waiter (its starvation mode): strong fairness of
  `PushEvent`, the send after a push.
- *The network is fair to the oldest segment in flight*: its resender transmits it
  again and again (`HeadTicker`, weak: a timer), so it arrives in the end and so does
  its ack (`DataArrives(hSeq)`, `AckArrives(hSeq)`, strong).  This is an assumption about the network and never
  about a segment that was given up, which is transmitted no more.
- *Send window* (`TFairness`): weak fairness of the goroutine of `loopFlush`, of the
  flush timer and the timeouts of the close, and of a `Write` that has begun.  None
  for a window to be open, so a window may be shut for ever.
- *Connection*: weak fairness of the goroutine that holds the mutex, of the one
  that ends a dial or a close, of those that wait for the mutex (the reader apart
  from the others, since a mutex does not starve anybody), and of the timers.  A
  keepalive timer fires for certain only if the other end sends none, or if the
  reader is stuck in `Recv`.  The send window closes (`FlusherEnds`), and the
  listener accepts: it panics after a second otherwise.  No message need arrive and
  the application need not read or close.
- *Listener*: weak fairness of the reader, of each worker, of a removal that has
  begun, and of the Range of Close.  A connection closes for certain only when its
  keepalives are not handled (`Silent`): the reader has ended, or the worker waits
  for the application.  No datagram need arrive and no application need read.
- *The application reads*: in `TLiveSpec`, weak fairness of `Read`; it is not
  assumed to write or to close.

## 6. What is proved

For all values of the constants, under the `ASSUME`s of the modules (positive
sizes, `MinCong <= DefCong <= MaxCong`, `DefCong <= RecWin < SeqMod`,
`Lifetime = SeqMod - RecWin`):

| Theorem | Statement |
|---|---|
| `BlockQueueProofs` | `TypeOK`, `Capacity`, `NoLostWakeup` and `InOrder` for any number of writers and readers; `NoEmptyRead` and `NoPanic` for one reader |
| `SegmentProofs` | type correctness, `Handshake`, `EndsOnce`; `TimersAhead`: a segment in its loop has both its timers ahead; `OfferIsHeard`; for any limit of resends |
| `ConnectionProofs` | `TypeOK`, `NoNilWindow`, `FinAfterWindow`, `ClosedOnce`, and `Spec => ImplementsSession`; `NobodyForgotten`, `NothingLeftOpen`, `EndsAgree`; for any number of resends and FINs and any failures of the socket |
| `ListenerProofs` | `TypeOK`, `Reachable`, `FirstIsSyn1`; `NoneLeaked`, `NeverWaitsForNobody`, `OneRemoval`; for any addresses, connections and lengths of channels |
| `CodecProofs` | `TypeOK`, `RoundTrip`, `NoPanic`; `OwnStream`: every datagram whose IV was drawn carries the IV of the stream it went through, for any goroutines; `UnMarshall(Marshall(m)) = m` for every message with any number of attributes, and no message that was cut is read as another one |
| `SendWindowProofs` | `STypeOK`, `NoStrandedData`, `HeadUnacked`; `BytesAccounted`: no byte is lost before it is in a segment; under any window at every send |
| `RacingWindowProofs` | `RTypeOK`, `Repairs`, `ShutByRaces`, `RSpec => AnyWindow`; `StrandedOnlyByRaces`; for any number of segments and of races |
| `TransportProofs` | `RTypeOK`, `SegmentsInOrder`, `DroppedIsReceived`, `WindowsOverlap`, and `TSpec => ImplementsStream` |

**Queue.**  The invariant says what the gates mean: the read gate is closed iff
the queue is not empty, the write gate iff there is room, and no goroutine holds
a channel newer than the current one.  Every replaced channel had been closed
before, so only the current one parks anybody; `NoLostWakeup` follows.  For
`NoEmptyRead` and `NoPanic` one needs that nobody else pops between the gate and
the critical section, therefore one consumer.  `InOrder` is about the bytes handed
out followed by those in the queue: a push continues its writer's bytes
(`OrderedPush`), and a pop moves the front of one sequence to the end of the other,
all of it (`Moved`), since no call of pop has an empty slice (`RoomLeft`).

**Segment.**  `Handshake` relates the two program counters and is nearly
inductive; it lacks which resenders can still be offered something.  What can be
said without fairness of the two liveness properties is proved too: a resender in
its loop has its ticker and its timeout armed or ticked, whatever late ticks and
quick resends there were (`TimersAhead`, for `ResenderEnds`), and an offer of the
caller meets a resender that can hear it, or a closed `acked` (`OfferIsHeard`, for
`CallerReturns`).

**Send window.**  `NoStrandedData` needs `LeftLoopClosed` (the flush goroutine
leaves its loop only after the close).  The other cases rest on the arithmetic of
`readMSS`: if nothing is in flight and the window is not shut, either a full segment
can go or the timer is set.  Nothing is assumed of the window itself.  `BytesAccounted` has one lemma for everything that sends (`Cut`: k segments
carry between k and `k * MSS` bytes); after the close it promises one direction
only, since a refused Write gives up the rest of its bytes.

**Racing events.**  A step of `RacingWindow` is a step of `SendWindow` for some window
(`StepAllowed`), which needs little: `swnd` never exceeds the receive window, and the
segment whose `AckIi` waits is in flight (`AckingStep`).  So `RSpec => AnyWindow`, and
all that is proved of `SendWindow` holds here.  The invariant `CInv` is about a state
in which no two events have ever overlapped (`Unraced`): then at most one is under
way, what it read is still there, and `swnd` is positive.  `Solitary` says the same
of one event that overlaps with no other, after any races, and gives `Repairs`.
`ShutByRaces` follows from `Unraced`; with `NoStrandedData` it gives
`StrandedOnlyByRaces`: bytes are left without a timer only after two events have
overlapped.

**Transport.**  None of the properties is inductive.  The invariant `Unharmed`
says where a segment is: dropped by the sender => acknowledged => with the
receiver (`DroppedIsAcked`, `AckedIsHeld`); stored only under its own number and
within the window (`Stored`); and the receiver lacks the segment it waits for,
except in the loop that this segment started (`NextIsMissing`).  From the last
one, `hSeq <= tailSeq` (`HeadBehindTail`); from it and the two widths, a number
on the wire stands for one possible segment only (`LegalIsInWindow`,
`WireInjective`); and from that, every step keeps `Unharmed`.  The refinement
takes one more lemma: a push hands out segment `tailSeq` (`PushFacts`).

**Connection.**  The invariant ties three things together at each end: the state,
the callback that runs, and the windows (`CallbackInv`, `WindowInv`: a window is
open in an established state and until the callback that closes it has gone on).
`FinAfterWindow` is part of it.  The refinement needs what an answer says of the
*other* end (`AnswerInv`): a SYN2 in the network means that the server has begun,
an accepted FIN2 that the other end is closed, and no step takes that back.  A
second invariant, `EndsInv`, is about who waits for whom: a Dial or a Close that
runs has its callback or the callback's answer, and the reader that calls Close is
queued for the mutex or holds it (`NobodyForgotten`, what `CallsReturn` rests on);
an end that is Closed has no open send window, and its socket is gone or wait2msl
will remove it (`NothingLeftOpen`; the receive window is left out, for `closeWin`
may leave it open, section 7).  `EndsAgree` is proved of `Session`, two lines of
invariant, and carried to the code by the refinement.

**Listener.**  `Reachable` is inductive together with what the reader remembers
(`ReaderInv`), what the maps may contain (`MapsInv`) and the reason why nobody
else's `RmGConn` can hit a live connection: two connections of one address, one in
removal, imply that the address is in `raced` (`RacedInv`).  `Syn1Inv` follows a
SYN1 from the reader to the channel to the handler.  `ChannelsInv` adds what the
entries of an address have to do with each other while RmGConn takes them away one
by one: the channel of messages is there only with the channel that ends its worker
(`PairsInv`), and whatever RmGConn has got to, its entries are still its own
(`RemovalInv`).  From it: no worker is left behind (`NoneLeaked`), and the reader
never waits for room in the channel of a worker that has ended without the other
case of its select being ready (`NeverWaitsForNobody`, the safety core of
`ReaderGoesOn`).  Both except addresses that were registered while RmGConn ran.

**Codec.**  While a goroutine encrypts, it alone holds the lock of its end, and the
stream in the cipher is the one of its IV; so the stream at the end of Encrypt is
the one chosen at its start, if its IV was drawn (`OwnStream`).  A cipher has a stream
as soon as it has sent a datagram (`HasStream`), hence `NoPanic`.  Reading a header or an attribute inverts
writing it by arithmetic on bytes and concatenations.  For a whole message one needs
induction over its attributes: what is left to read after the first i of them
(`LeftToRead`) is what the others were written as (`Flattened`).  The reader and the
writer are recursive functions, and the induction is over a set of numbers rather
than a predicate (`SetInduction`, from the least element of its complement), since
the library's induction theorem takes an operator.  That no prefix of a message is
taken for a message (`CutMessageRefused`) follows the same way from where the reader
stands.  `RoundTrip` then needs `MessageInv`: the object of a goroutine, a datagram
on its way and the message that a handler got are what the constructor would have
made of a fresh object, whatever was in the one it was called on (`RebuildIs`).

**Only model-checked.**  The liveness properties: `ReaderServed`, `WriterServed`,
`CallerReturns`, `CallsReturn`, `ResenderEnds`, `Drains`, `FlusherEnds`, `GetsOn`, `ServerFollows`,
`ReaderReleased`, `ReaderGoesOn`, `ClosesAll`, since the proof system handles
neither fairness nor ENABLED.  Every invariant and every action property of a
passing run, and both refinements, are theorems.

## 7. Disagreements

Found while modelling; each has a run that shows it.

| Run | Code | Statement |
|---|---|---|
| `send_stranded` | `readMSS` returns at `swnd.go:313` if `swnd <= 0`, before the `Reset` of the flush timer (`:317`), and overlapping events of two pairs of segments can leave it at zero (`:236-247`, no lock); with nothing in flight no event comes to repair it, so bytes of a `Write` stay in the buffer until the next `Write`, which meets the same window, or until the close | `swnd.go:317` "flush after n ms", `readme.md:3` "reliable" |
| `transport_flush` | `readAny` (`swnd.go:333`) sends whatever there is, beyond the window; `legalSeqN` (`rwnd.go:174`) acknowledges what is outside the window and throws it away: a loss | `readme.md:3` "reliable" |
| `conn_dial` | the error of the handshake is overwritten with the nil of the next event (`conn.go:508`), so a `Dial` that timed out answers nil and a closed connection | `conn.go:67` "dial timeout", `net/conn_test.go:76-82` |

Observed in the same models, without a run of their own:

- *Segments given up*: `segment.go:204` ends a segment after `waitAckTo` as if it
  were acknowledged and the connection goes on without it; the window is then full
  of such segments, and only an ack, which is not due, trims it and sends on.  This is
  why `Drains` and `GetsOn` except `gaveUp`.
- *Close of a window*: `waitLastAck` times out and Close returns nil
  (`swnd.go:461`, "recv all ack").
- *Congestion window*: racing events leave `cwnd` below `minCongWinSize`
  (`swnd.go:37`), even at zero, where doubling does not move it; above its maximum;
  and `swnd` different from the minimum of both windows (`swnd.go:256`).  An event
  that runs alone repairs it, if one comes.
- *Read after the close*: `Read` answers `io.EOF` once the window is closed, with
  acknowledged data unread (`rwnd.go:52`; the loop of `net/conn_test.go:57-67`
  stops there).
- *FIN1 again*: one received in the wait of 2 msl runs no callback, since the state
  is its own destination (`conn.go:181`), so it is not answered, although
  `conn.go:282` says "maybe recv fin1 again" (also `conn.go:268`).
- *Listener, same address*: `RmGConn` deletes from the three maps one after the other
  and without a lock that the reader takes (`listener.go:149`, `:104-108`).  A client
  that comes back in between leaves an entry in `gcs` without channels: every later
  message of that address is dropped, a SYN1 too, and the address is dead.  If the
  new channel of `closes` is the one deleted, its worker is never told to end, and
  the reader of all connections may wait on its full channel for ever.
- *Listener, one for all*: the reader waits at `listener.go:136` while a channel is
  full, that is, while one application does not read, until the keepalive has closed
  that connection.
- *Listener, Accept*: a connection that nobody accepts within a second panics the
  process (`listener.go:185`); a SYN1 that arrives late, after its connection was
  removed, makes such a connection anew.  `Accept` does not return when the listener
  is closed (`acceptResult` is never closed, so "nil accept" never happens), and the
  UDP socket stays open.
- *Listener, Close*: it stops the reader first (`listener.go:197`), after at most one
  more datagram; the FIN2 that its connections wait for are not received, so each
  Close runs into its timeout, and a connection that is not accepted refuses Close.
- *Codec*: the dialer ignores the error of `UnMarshall` (`conn.go:375`) and handles
  what was parsed so far, and an unknown flag panics; constructors leave the
  attributes of the object in place (`Attr`), which is harmless only because the
  number of attributes is set to zero.
- *Connection*: a lost SYN2 is not sent again, as a second SYN1 runs no callback
  (`conn.go:177`), and one that arrives while the dialer is not at its select is
  dropped (`mh.go:33`); a payload before the SYN2 makes the reader call Close, which
  waits for the dial and may then close the fresh connection (`mh.go:84`); two ends
  that close at once refuse each other's FIN1 and end by timeout; `closeWin`
  leaves the receive window open, and a reader in `Recv`, if the send window timed
  out (`conn.go:487`; `LeftOpen` in `ReaderReleased`).

Further: `acked` ("is ack ?",
`segment.go:62`) is closed without an ack; the ticker retransmits
`maxTickerResendC + 1` times (`segment.go:247`); a flush leaves more in flight
than `swnd` (`swnd.go:122`); Close returns nil with bytes unsent
(`swnd.go:449`), also those of a `Write` that passed its check of `closeSignal`;
`Encrypt` ignores a failure of `rand.Reader` (`cipher.go:235`) and sends bytes that
nobody can read, or panics on a nil stream.

## 8. What is not modelled

- **Durations**: RTO estimation (`comRTO`, `minrtt`), the deadline of `Read` and
  `Write` (`time.Now().Sub(wdl)`, which is negative for a deadline to come).
- **Connection and Transport in one**: `Transport` starts with both windows in
  place, `Connection` has no data; what the one needs of the other is stated in
  [5](#5-fairness).  The random numbers in SYN and FIN, which the handlers compare
  with the answer, are not kept: there is one connection.
- **Listener and Connection in one**: `Listener` has many connections with a few
  states each, `Connection` has one with all of them; together they are out of
  reach.  What `Listener` assumes of a connection is that its keepalive closes it
  when its messages are not handled, which `conn_live` checks from the other side
  (`ServerFollows`, `ReaderReleased`).
- **Algorithms of the ciphers**: library code.  `LeakyBuf` and the padding of
  salsa20 are in the source but never reached: a stream is used once, from its
  beginning.  `Copy` and `CheckcipherrMethod` are never called.
- **Messages that no constructor made**: the codec is modelled from constructor to
  handler.
- **Dialer, addresses, options**: stateless glue around `net.DialUDP` and
  `GConn.dial`; what Dial answers is in `Connection`.
- **A second concurrent Close** of the listener, which `closeLock` puts after the
  first.
- **Promises about addresses in `raced`**: `Listener` has the race of `RmGConn` with
  the reader, but its properties except the addresses it hits, for which none holds.
- **Payload bytes**: a segment is its ordinal; bytes are modelled in `BlockQueue`,
  where the order of bytes is decided.
- **Two calls of Close at once** on a send window: `SendWindow` has one.
- **Logging**, `loopPrint`, options, address conversions.

## 9. Plan

Done, in this order: `BlockQueue` (every window rests on it), `Segment`,
`SendWindow`, `CongWindow`, `RecvWindow`, `Transport` with `ReliableStream`,
`Connection` with `Session`, `Codec`, `Listener`, `RacingWindow`, and the proofs of
each.

To come:

1. A composition of `Connection` with the data of `Transport` in a coarse form (all
   delivered, or not), for the close that loses data.
2. The deadlines: the sign of `time.Now().Sub(wdl)`, in a model with durations.
