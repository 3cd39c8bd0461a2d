------------------------------ MODULE Transport ------------------------------
(***************************************************************************)
(* One direction of a connection: the send window of one peer, the network *)
(* and the receive window of the other.                                    *)
(*                                                                         *)
(* The network loses, repeats and reorders segments and acks, with one     *)
(* bound: nothing is delivered that is older than Lifetime segments, or    *)
(* 16 bits could not tell it from a new one.  The code does not enforce    *)
(* that bound, it is an assumption about the network.                      *)
(***************************************************************************)
EXTENDS SendWindow, RecvWindow

CONSTANT Lifetime

\* With it, no old segment falls into the window of either side.
ASSUME NetworkAssumption == Lifetime = SeqMod - RecWin

VARIABLE overrun     \* history: was more in flight than the receiver takes?

tvars == <<svars, rvars, overrun>>

Young(n) == tSeq - n <= Lifetime

Overruns == overrun' = (overrun \/ tSeq' - hSeq' > RecWin)

TInit == SInit /\ RInit /\ overrun = FALSE

SenderStep == Local /\ UNCHANGED rvars /\ Overruns

\* An ack carries 16 bits: it acknowledges the segment in flight with the same.
AckArrives(a) ==
  /\ a \in ackNet
  /\ Young(a)
  /\ \E n \in hSeq .. tSeq - 1, w \in Windows : Wire(n) = Wire(a) /\ RecvAck(n, w)
  /\ UNCHANGED rvars
  /\ Overruns

DataArrives(n) ==
  /\ n \in dataNet
  /\ Young(n)
  /\ Recv(n)
  /\ UNCHANGED <<svars, overrun>>

ReceiverStep == RLocal /\ UNCHANGED <<svars, overrun>>

TNext ==
  \/ SenderStep
  \/ \E a \in ackNet : AckArrives(a)
  \/ \E n \in dataNet : DataArrives(n)
  \/ ReceiverStep

TSpec == TInit /\ [][TNext]_tvars

\* The network is fair to the oldest segment in flight and to its ack: while the
\* resender retransmits again and again, one of each arrives (SF).  Goroutines
\* are scheduled and timers fire, Go's mutex does not starve (SF), and the
\* application reads.
HeadTicker == Ticker(hSeq)
PushEvent == \E w \in Windows : WriteEvent(w)
TFairness ==
  /\ WF_tvars(HeadTicker /\ SenderStep)
  /\ WF_tvars(Flusher /\ SenderStep) /\ WF_tvars(WaitTimeout /\ SenderStep)
  /\ WF_tvars(TimerFire /\ SenderStep) /\ WF_tvars(FlushTick /\ SenderStep)
  /\ WF_tvars(WritePush /\ SenderStep) /\ SF_tvars(PushEvent /\ SenderStep)
  /\ SF_tvars(DataArrives(hSeq))
  /\ SF_tvars(AckArrives(hSeq))
  /\ WF_tvars(Receiving /\ ReceiverStep)
  /\ WF_tvars(Read /\ ReceiverStep)

TLiveSpec == TSpec /\ TFairness

-----------------------------------------------------------------------------
\* The two events after which the code loses data: the sender ended a segment
\* without an ack, or it sent beyond the receive window.
Broken == gaveUp \/ overrun

\* The application gets the segments in the order in which they were cut from
\* the stream, none twice, none left out, though 16 bits of each number arrive
\* and the network repeats and reorders.
SegmentsInOrder == ~Broken => \A i \in 1 .. Len(delivered) : delivered[i] = i - 1

\* What the sender dropped from its window or is going to drop, the receiver
\* has: pushed to its application, or stored under its number.
Has(n) == n < tailSeq \/ recved[Wire(n)] = n
Dropped(n) == n < hSeq \/ n \in done
DroppedIsReceived == ~Broken => \A n \in 0 .. tSeq - 1 : Dropped(n) => Has(n)

\* The receiver never runs ahead of what was sent, and while it is open the
\* sender never drops what the receiver still waits for.
WindowsOverlap ==
  ~Broken => tailSeq <= tSeq /\ (~rclosed => hSeq <= tailSeq)

\* Together they are a reliable stream.
Stream == INSTANCE ReliableStream WITH
  sent <- tSeq, got <- delivered, broken <- Broken
ImplementsStream == Stream!Spec

\* The receiving application gets on, one segment after the other: acks that are
\* lost or late, a full appBuffer and a closed sender do not stop it.
GetsOn ==
  \A k \in 0 .. MaxWritten - 1 :
    tailSeq = k /\ tSeq > k ~> tailSeq > k \/ Broken \/ rclosed

\* What was written is sent, over a network that loses and a receiver that is full,
\* as long as no segment times out, a window is left and nobody closes.
Drains == appBuffer > 0 ~> appBuffer = 0 \/ gaveUp \/ shut \/ closed \/ rclosed

\* Once closed, the goroutine of loopFlush ends and releases Close.
FlusherEnds == closed ~> fpc = "done"

\* "Geronimo is a reliable transport layer protocol" (readme.md:3): the sender
\* drops only what the receiver has.  That fails although no segment was given
\* up: a flush sends beyond the receive window.
NoLossByFlush == ~gaveUp => \A n \in 0 .. tSeq - 1 : Dropped(n) => Has(n)
=============================================================================
