---------------------------- MODULE RacingWindow ----------------------------
(***************************************************************************)
(* The send window with the events of its segments.                        *)
(*                                                                         *)
(* SendWindow leaves the size of the window open; here it is the field     *)
(* swnd, as segmentEvent (module CongWindow) leaves it: the resender of    *)
(* segment n runs EventResend after a retransmission and EventEnd when it  *)
(* ends, without the lock, so an event may overlap with other events and   *)
(* with every critical section.  Only the event of the segment that        *)
(* RecvAck acknowledges is over before RecvAck goes on, because AckIi      *)
(* waits for acksr, which the resender sends after EventEnd; the lock is   *)
(* held meanwhile.                                                         *)
(***************************************************************************)
EXTENDS SendWindow, CongWindow

\* A segment has at least one byte, so there is a resender for each.
ASSUME RacingAssumption == Goroutines = 0 .. MaxWritten - 1

VARIABLE acking     \* the segment whose AckIi waits for its resender

rvars == <<svars, cvars, acking>>

Nobody == -1

RInit == SInit /\ CInit /\ acking = Nobody

\* The window a send goes by is swnd; once it has sent a segment, swnd may have
\* been written again before the next iteration reads it.
Room == Larger(0, swnd)
Seen(w) ==
  \/ w = Room
  \/ Sendable(hSeq', Room) > 0 /\ w \in tSeq + 1 - hSeq' .. RecWin

Sizes == 0 .. Larger(RecWin, swnd)

Quiet == UNCHANGED <<cvars, acking>>
Unlocked == acking = Nobody

-----------------------------------------------------------------------------
\* The resender of n, while it is in its loop.
ResendEvent(n) ==
  /\ n # acking
  /\ Ticker(n)
  /\ EventStart(n, "resend")
  /\ UNCHANGED acking

EndEvent(n) ==
  /\ n # acking
  /\ GiveUp(n)
  /\ EventStart(n, "end")
  /\ UNCHANGED acking

Event == \E n \in Goroutines : EventStep(n) /\ UNCHANGED <<svars, acking>>

\* RecvAck takes the lock and AckIi hands the ack to the resender, ..
AckBegin(n) ==
  /\ n \in Live
  /\ Unlocked /\ LockFree
  /\ EventStart(n, "end")
  /\ acking' = n
  /\ UNCHANGED svars

\* .. which answers after EventEnd.
AckEnd ==
  /\ acking # Nobody
  /\ pc[acking] = "idle"
  /\ \E w \in Sizes : RecvAck(acking, w) /\ Seen(w)
  /\ acking' = Nobody
  /\ UNCHANGED cvars

\* AckIi returns at once if `acked` is closed.
AckAgain(n) ==
  /\ n \in done
  /\ Unlocked
  /\ \E w \in Sizes : RecvAck(n, w) /\ Seen(w)
  /\ Quiet

PushEvent ==
  /\ Unlocked
  /\ \E w \in Sizes : WriteEvent(w) /\ Seen(w)
  /\ Quiet

Acks == AckEnd \/ \E n \in dataNet : AckBegin(n) \/ AckAgain(n)

RNext ==
  \/ \E n \in Live : ResendEvent(n) \/ EndEvent(n)
  \/ Event
  \/ Acks
  \/ PushEvent
  \/ Unlocked /\ FlusherLocks /\ Quiet
  \/ (FlusherSends \/ LastStart \/ WriteCalls \/ Waiting) /\ Quiet

RSpec == RInit /\ [][RNext]_rvars

-----------------------------------------------------------------------------
\* Type invariant.
RTypeOK == STypeOK /\ CTypeOK /\ acking \in {Nobody} \cup (hSeq .. tSeq - 1)

\* A send finds no window at all only after two events have overlapped: the
\* limits of segmentEvent keep swnd positive as long as they are not raced.
ShutByRaces == shut => races > 0

\* Whatever the events do to swnd, it is at most the receive window: this module
\* does what SendWindow allows.
AnyWindow == SInit /\ [][SNext]_svars

\* "flush after n ms" (swnd.go:317): bytes that wait in appBuffer while nothing is
\* in flight are flushed.  That fails once races have left no window: the Reset
\* is behind the check of the window, and no event comes any more to repair it.
RestIsFlushed == ~(Stranded /\ UnderWay = {})
=============================================================================
