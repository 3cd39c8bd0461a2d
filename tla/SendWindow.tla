----------------------------- MODULE SendWindow -----------------------------
(***************************************************************************)
(* win/swnd.go: the send window.                                           *)
(*                                                                         *)
(* Write pushes bytes into appBuffer (module BlockQueue) and after every   *)
(* push sends full segments as far as the window allows; RecvAck           *)
(* acknowledges a segment, trims the head and sends on; the goroutine of   *)
(* loopFlush sends what is left when flushTimer fires, and at the close;   *)
(* every segment has a goroutine of its own (module Segment), seen here as *)
(* Ticker (a retransmission) and GiveUp.                                   *)
(*                                                                         *)
(* Bytes are counted, a segment is its ordinal: hSeq and tSeq are the      *)
(* ordinals whose low 16 bits the code keeps.  A critical section of the   *)
(* window's mutex is one step, except the flushes, during which Write may  *)
(* push: they hold the lock over several steps.                            *)
(*                                                                         *)
(* How many segments may be in flight is a parameter here: readMSS reads   *)
(* the field swnd, which segmentEvent writes without a lock, so this       *)
(* module assumes nothing of it but that it is at most RecWin, and takes   *)
(* any w \in 0 .. RecWin at every send (0 stands for all that leaves no    *)
(* room).  Module RacingWindow has the field, its writers and their races, *)
(* and implements this one.                                                *)
(*                                                                         *)
(* dataNet is every segment ever handed to the socket without an error: a  *)
(* network that loses, duplicates and reorders delivers any of them, at    *)
(* any time and any number of times, or never.                             *)
(***************************************************************************)
EXTENDS SeqNumbers

CONSTANTS
  MSS,          \* mss, bytes in a full segment
  AppBuffer,    \* appBufferSize, bytes
  QuickSkip,    \* quickResendIfSkipGEN
  MaxWritten,   \* bound: bytes of all the calls of Write
  SendFails     \* can the socket return an error?

ASSUME SendAssumption ==
  /\ {MSS, AppBuffer} \subseteq Nat \ {0}
  /\ QuickSkip \in Nat
  /\ MaxWritten \in Nat
  /\ SendFails \in BOOLEAN

VARIABLES
  appBuffer,    \* bytes in appBuffer
  written,      \* bytes of the calls of Write so far
  wrest,        \* bytes the running Write has still to push
  wpc,          \* Write: idle, push (BlockPushWithSignal), event (pushEvent)
  hSeq, tSeq,   \* `sent` holds the segments hSeq .. tSeq - 1
  done,         \* those of them whose `acked` channel is closed
  gaveUp,       \* history: did a segment end without an ack?
  shut,         \* did the last send leave bytes for want of a window, with nothing in flight?
  flushTimer,   \* is flushTimer armed?
  flushTick,    \* does its channel hold a tick?
  fpc,          \* the goroutine of loopFlush
  closed,       \* is closeSignal closed?
  cpc,          \* Close: idle, wait, nil, errCloseTimeout
  dataNet

wvars == <<written, wrest, wpc>>
fvars == <<fpc, closed, cpc>>
svars == <<appBuffer, wvars, hSeq, tSeq, done, gaveUp, shut, flushTimer, flushTick, fvars, dataNet>>

Live == (hSeq .. tSeq - 1) \ done
LockFree == fpc \notin {"flush", "lastflush"}

\* What readMSS may find in swnd.
Windows == 0 .. RecWin

-----------------------------------------------------------------------------
\* init(): the timer is armed from the start.
SInit ==
  /\ appBuffer = 0
  /\ written = 0
  /\ wrest = 0
  /\ wpc = "idle"
  /\ hSeq = 0
  /\ tSeq = 0
  /\ done = {}
  /\ gaveUp = FALSE
  /\ shut = FALSE
  /\ flushTimer = TRUE
  /\ flushTick = FALSE
  /\ fpc = "select"
  /\ closed = FALSE
  /\ cpc = "idle"
  /\ dataNet = {}

\* send(readMSS) with the head at h and the send window w: full segments while
\* the window has room.  If w changes during the loop, w is what its last
\* iteration reads.
SendableUnsigned(h, w) == Lesser(appBuffer \div MSS, w - (tSeq - h))
Sendable(h, w) == Larger(0, Lesser(appBuffer \div MSS, w - (tSeq - h)))

\* flushTimer after n segments left l bytes: stopped by each segment, reset if
\* the loop ends for want of a full segment.
TimerStopped(h, w, n, l) == IF n > 0 THEN FALSE ELSE flushTimer
TimerAfter(h, w, n, l) ==
  IF 0 < l /\ l < MSS /\ tSeq + n - h < w THEN TRUE ELSE TimerStopped(h, w, n, l)

\* n new segments of l bytes in all are put to `sent`, sn is transmitted.
Enqueue(n, l, sn) ==
  /\ appBuffer' = appBuffer - l
  /\ tSeq' = tSeq + n
  /\ dataNet' = dataNet \cup sn

SendAll(h, w, again) ==
  LET n == Sendable(h, w) IN
  /\ Enqueue(n, n * MSS, again \cup (tSeq .. tSeq + n - 1))
  /\ flushTimer' = TimerAfter(h, w, n, appBuffer - n * MSS)
  /\ shut' = (w = 0 /\ h = tSeq /\ appBuffer > 0)

\* The n-th segment fails: it stays in `sent`, the loop returns.
SendAborted(h, w) ==
  \E n \in 1 .. Sendable(h, w) :
    /\ SendFails
    /\ Enqueue(n, n * MSS, tSeq .. tSeq + n - 2)
    /\ flushTimer' = FALSE
    /\ shut' = FALSE

-----------------------------------------------------------------------------
\* Write of n bytes.
WriteCall(n) ==
  /\ wpc = "idle"
  /\ ~closed
  /\ written + n <= MaxWritten
  /\ written' = written + n
  /\ wrest' = n
  /\ wpc' = "push"
  /\ UNCHANGED <<appBuffer, hSeq, tSeq, done, gaveUp, shut, flushTimer, flushTick, fvars, dataNet>>

\* push; with closeSignal closed the select may still take this case.
WritePush ==
  LET n == Lesser(AppBuffer - appBuffer, wrest) IN
  /\ wpc = "push"
  /\ n > 0
  /\ appBuffer' = appBuffer + n
  /\ wrest' = wrest - n
  /\ wpc' = "event"
  /\ UNCHANGED <<written, hSeq, tSeq, done, gaveUp, shut, flushTimer, flushTick, fvars, dataNet>>

\* errStoped: what was pushed stays in appBuffer.
WriteFail ==
  /\ wpc = "push"
  /\ closed
  /\ wrest' = 0
  /\ wpc' = "idle"
  /\ UNCHANGED <<appBuffer, written, hSeq, tSeq, done, gaveUp, shut, flushTimer, flushTick, fvars, dataNet>>

\* The pushEvent; an error of send is only logged.
WriteEvent(w) ==
  /\ wpc = "event"
  /\ LockFree
  /\ SendAll(hSeq, w, {}) \/ SendAborted(hSeq, w)
  /\ wpc' = IF wrest = 0 THEN "idle" ELSE "push"
  /\ UNCHANGED <<written, wrest, hSeq, done, gaveUp, flushTick, fvars>>

-----------------------------------------------------------------------------
\* trimAckSeg: the head moves over every segment that is done, to h.  The mutated
\* forms take an ack for the segments before it too, and stop after one.
TrimsThrough(h, d) == (h = hSeq \/ h - 1 \in d) /\ \A n \in d : n < h
TrimsOne(h, d) == h = IF hSeq \in d THEN hSeq + 1 ELSE hSeq
Trims(h, d) == hSeq .. h - 1 \subseteq d /\ (h = tSeq \/ h \notin d)

\* getTryResendSeqs: from the head up to QuickSkip below n, if n is still there.
Skipped(h, n, d) == IF n < h THEN {} ELSE (h .. n - QuickSkip) \ d

\* RecvAck of segment n, which is in `sent` (else nothing happens).  Of the
\* skipped segments those whose quick resend timer has ticked are transmitted
\* again; if that fails the segment's own goroutine ends it later (GiveUp).
\* AckIi has closed `acked` and sent EventEnd before the head is trimmed.
RecvAck(n, w) ==
  LET d == done \cup {n} IN
  /\ n \in hSeq .. tSeq - 1
  /\ LockFree
  /\ \E h \in hSeq .. tSeq :
       /\ Trims(h, d)
       /\ hSeq' = h
       /\ done' = d \ (hSeq .. h - 1)
       /\ \/ SendAborted(h, w)
          \/ \E again \in SUBSET Skipped(h, n, d) : SendAll(h, w, again)
  /\ UNCHANGED <<wvars, gaveUp, flushTick, fvars>>

\* A retransmission by a segment's ticker; EventResend touches only the window.
Ticker(n) ==
  /\ n \in Live
  /\ dataNet' = dataNet \cup {n}
  /\ UNCHANGED <<appBuffer, wvars, hSeq, tSeq, done, gaveUp, shut, flushTimer, flushTick, fvars>>

\* waitAckTo is over, or a retransmission failed: the segment closes `acked`
\* (and sends EventEnd), as if it were acknowledged.
GiveUp(n) ==
  /\ n \in Live
  /\ done' = done \cup {n}
  /\ gaveUp' = TRUE
  /\ UNCHANGED <<appBuffer, wvars, hSeq, tSeq, shut, flushTimer, flushTick, fvars, dataNet>>

-----------------------------------------------------------------------------
TimerFire ==
  /\ flushTimer
  /\ flushTimer' = FALSE
  /\ flushTick' = TRUE
  /\ UNCHANGED <<appBuffer, wvars, hSeq, tSeq, done, gaveUp, shut, fvars, dataNet>>

\* loopFlush receives the tick, then locks, ..
FlushTick ==
  /\ fpc = "select"
  /\ flushTick
  /\ flushTick' = FALSE
  /\ fpc' = "lock"
  /\ UNCHANGED <<appBuffer, wvars, hSeq, tSeq, done, gaveUp, shut, flushTimer, closed, cpc, dataNet>>

\* .. and send(readAny) runs until appBuffer is empty or a segment fails.
\* The same loop serves flushLastSegment.
FlushStep(at, goto) ==
  /\ fpc = at
  /\ appBuffer > 0
  /\ \E fails \in {FALSE, SendFails} :
       /\ Enqueue(1, Lesser(MSS, appBuffer), IF fails THEN {} ELSE {tSeq})
       /\ fpc' = IF fails THEN goto ELSE at
  /\ shut' = FALSE
  /\ UNCHANGED <<wvars, hSeq, done, gaveUp, flushTimer, flushTick, closed, cpc>>

FlusherGoes(from, to) ==
  /\ fpc = from
  /\ fpc' = to
  /\ UNCHANGED <<appBuffer, wvars, hSeq, tSeq, done, gaveUp, shut, flushTimer, flushTick, closed, cpc, dataNet>>

FlushLock == FlusherGoes("lock", "flush")
FlushEnd == appBuffer = 0 /\ FlusherGoes("flush", "select")

\* Close, called once; it waits for sendFinish or its timeout.
Close ==
  /\ ~closed
  /\ closed' = TRUE
  /\ cpc' = "wait"
  /\ UNCHANGED <<appBuffer, wvars, hSeq, tSeq, done, gaveUp, shut, flushTimer, flushTick, fpc, dataNet>>

CloseReturn ==
  /\ cpc = "wait"
  /\ cpc' \in (IF fpc = "done" THEN {"nil", "errCloseTimeout"} ELSE {"errCloseTimeout"})
  /\ UNCHANGED <<appBuffer, wvars, hSeq, tSeq, done, gaveUp, shut, flushTimer, flushTick, fpc, closed, dataNet>>

\* loopFlush sees closeSignal: flushLastSegment takes the lock again and again
\* until appBuffer is empty or closeCheckFlushTO is over, ..
LastStart == closed /\ FlusherGoes("select", "last")
LastLock == appBuffer > 0 /\ FlusherGoes("last", "lastflush")
LastEnd == appBuffer = 0 /\ FlusherGoes("lastflush", "last")
LastEmpty == appBuffer = 0 /\ FlusherGoes("last", "waitack")
LastTimeout == FlusherGoes("last", "waitack")

\* .. then waitLastAck polls `sent` until closeCheckAckTO is over; the deferred
\* calls stop the timer and close sendFinish.
Finish ==
  /\ fpc = "waitack"
  /\ fpc' = "done"
  /\ flushTimer' = FALSE
  /\ UNCHANGED <<appBuffer, wvars, hSeq, tSeq, done, gaveUp, shut, flushTick, closed, cpc, dataNet>>
WaitAcked == hSeq = tSeq /\ Finish
NoTimeout == FALSE /\ Finish
WaitTimeout == Finish

-----------------------------------------------------------------------------
WriteCalls == (\E n \in 1 .. MaxWritten : WriteCall(n)) \/ WritePush \/ WriteFail
Segments == \E n \in Live : Ticker(n) \/ GiveUp(n)

\* What loopFlush takes the lock for, what it does under it, the rest.
FlusherLocks == FlushLock \/ LastLock \/ LastEmpty
FlusherSends ==
  \/ FlushStep("flush", "select") \/ FlushEnd
  \/ FlushStep("lastflush", "waitack") \/ LastEnd
Flusher == FlusherLocks \/ FlusherSends \/ LastStart
Waiting == TimerFire \/ FlushTick \/ Close \/ CloseReturn \/ LastTimeout \/ WaitAcked \/ WaitTimeout

Local ==
  \/ WriteCalls \/ (\E w \in Windows : WriteEvent(w))
  \/ Segments \/ Flusher \/ Waiting

\* By itself: an ack may arrive for whatever was transmitted.
SNext == Local \/ \E n \in dataNet, w \in Windows : RecvAck(n, w)

SSpec == SInit /\ [][SNext]_svars

-----------------------------------------------------------------------------
\* Type invariant.
STypeOK ==
  /\ appBuffer \in 0 .. AppBuffer
  /\ written \in Nat
  /\ wrest \in Nat
  /\ wpc \in {"idle", "push", "event"}
  /\ hSeq \in Nat
  /\ tSeq \in Nat
  /\ hSeq <= tSeq
  /\ done \subseteq hSeq .. tSeq - 1
  /\ gaveUp \in BOOLEAN
  /\ shut \in BOOLEAN
  /\ flushTimer \in BOOLEAN
  /\ flushTick \in BOOLEAN
  /\ fpc \in {"select", "lock", "flush", "last", "lastflush", "waitack", "done"}
  /\ closed \in BOOLEAN
  /\ cpc \in {"idle", "wait", "nil", "errCloseTimeout"}
  /\ dataNet \subseteq 0 .. tSeq - 1

\* With nothing in flight no ack will come to send what is left in appBuffer:
\* then a flush is on its way (armed, ticked, or waiting for the lock), or the
\* writer is about to send, or the last send met a window that was shut.
FlushComes == flushTimer \/ flushTick \/ fpc \in {"lock", "flush"}
Stranded == appBuffer > 0 /\ hSeq = tSeq /\ ~closed /\ wpc # "event" /\ ~FlushComes
NoStrandedData == Stranded => shut

\* The head of the window is never an acknowledged segment, however the acks are
\* ordered, so acknowledged segments do not use up the window.
HeadUnacked == hSeq \in done => gaveUp
=============================================================================
