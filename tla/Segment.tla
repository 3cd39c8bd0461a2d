------------------------------ MODULE Segment -------------------------------
(***************************************************************************)
(* win/segment.go: one segment in the send window.                         *)
(*                                                                         *)
(* Two goroutines share it.  The caller is whoever holds the lock of the   *)
(* SWND: it calls Send once, then AckIi and TryQResend any number of times,*)
(* one call after the other.  The resender is the goroutine that setResend *)
(* starts; it owns the timers.  They meet on four unbuffered channels:     *)
(* acks / acksr (an ack, and its result) and qrs / qrsr (a quick resend,   *)
(* and its result).  A rendezvous is one step of both.  Four selects panic *)
(* if their partner does not show up within ten seconds: Handshake and     *)
(* CallerReturns say that it does.                                           *)
(*                                                                         *)
(* Timers are untimed: an armed timer may fire at any moment, except that  *)
(* the ticker re-armed for 2 * waitAckTo cannot fire before the timer of   *)
(* waitAckTo started earlier.  Stop and Reset leave a tick already in the  *)
(* channel where it is (go.mod: go 1.12).                                  *)
(***************************************************************************)
EXTENDS Integers

CONSTANT maxTickerResendC

ASSUME SegmentAssumption == maxTickerResendC \in Nat

VARIABLES
  caller,       \* where the caller is
  resender,     \* where the resender is
  acked,        \* is the channel `acked` closed?
  endBy,        \* why the resender left its loop
  failed,       \* did the transmission of the running quick resend fail?
  trsc,         \* ticker resends so far
  rst,          \* resend timer: off, armed for rto, or for 2 * waitAckTo
  rstt,         \* resend timeout timer, armed once for waitAckTo
  qrt,          \* quick resend timer
  ticks         \* the timers whose channel holds a tick

vars == <<caller, resender, acked, endBy, failed, trsc, rst, rstt, qrt, ticks>>

-----------------------------------------------------------------------------
\* newSSegment: qrt is armed for a nanosecond, nothing else runs.
Init ==
  /\ caller = "new"
  /\ resender = "none"
  /\ acked = FALSE
  /\ endBy = "unknown"
  /\ failed = FALSE
  /\ trsc = 0
  /\ rst = "off"
  /\ rstt = "off"
  /\ qrt = "armed"
  /\ ticks = {}

\* Send: setResend arms the timers and starts the resender, then the segment is
\* handed to the socket, whose error goes to the window.
Send ==
  /\ caller = "new"
  /\ caller' = "sending"
  /\ resender' = "select"
  /\ rst' = "rto"
  /\ rstt' = "armed"
  /\ UNCHANGED <<acked, endBy, failed, trsc, qrt, ticks>>

SendReturn ==
  /\ caller = "sending"
  /\ caller' = "idle"
  /\ UNCHANGED <<resender, acked, endBy, failed, trsc, rst, rstt, qrt, ticks>>

\* AckIi: already acked, it returns; else it offers the ack to the resender.
AckIi ==
  /\ caller = "idle"
  /\ ~acked
  /\ caller' = "offerAck"
  /\ UNCHANGED <<resender, acked, endBy, failed, trsc, rst, rstt, qrt, ticks>>

\* TryQResend: only if not acked and if the quick resend timer has ticked.
TryQResend ==
  /\ caller = "idle"
  /\ ~acked
  /\ "qrt" \in ticks
  /\ caller' = "offerQuick"
  /\ ticks' = ticks \ {"qrt"}
  /\ UNCHANGED <<resender, acked, endBy, failed, trsc, rst, rstt, qrt>>

\* The mutated form lets both offers wait for the resender only.
NeverRefused == FALSE /\ UNCHANGED vars
\* The two offers give up when the segment ends for another reason.
OfferRefused ==
  /\ acked
  /\ \/ caller = "offerAck" /\ UNCHANGED qrt
     \/ caller = "offerQuick" /\ qrt' = "armed"
  /\ caller' = "idle"
  /\ UNCHANGED <<resender, acked, endBy, failed, trsc, rst, rstt, ticks>>

\* The mutated form leaves endBy as it was.
TakeAckUnmarked ==
  /\ caller = "offerAck"
  /\ resender = "select"
  /\ caller' = "awaitAck"
  /\ resender' = "close"
  /\ UNCHANGED <<acked, endBy, failed, trsc, rst, rstt, qrt, ticks>>

\* Rendezvous on acks.
TakeAck ==
  /\ caller = "offerAck"
  /\ resender = "select"
  /\ caller' = "awaitAck"
  /\ resender' = "close"
  /\ endBy' = "ack"
  /\ UNCHANGED <<acked, failed, trsc, rst, rstt, qrt, ticks>>

\* Rendezvous on acksr: the result of the ack.
AckResult ==
  /\ caller = "awaitAck"
  /\ resender = "result"
  /\ caller' = "idle"
  /\ resender' = "gone"
  /\ UNCHANGED <<acked, endBy, failed, trsc, rst, rstt, qrt, ticks>>

\* Rendezvous on qrs.
TakeQuick ==
  /\ caller = "offerQuick"
  /\ resender = "select"
  /\ caller' = "awaitQuick"
  /\ resender' = "quick"
  /\ UNCHANGED <<acked, endBy, failed, trsc, rst, rstt, qrt, ticks>>

\* quickResend: the ticker starts over and the segment is transmitted; the
\* transmission may fail.
QuickResend ==
  /\ resender = "quick"
  /\ resender' = "quickResult"
  /\ rst' = "rto"
  /\ failed' \in BOOLEAN
  /\ UNCHANGED <<caller, acked, endBy, trsc, rstt, qrt, ticks>>

\* Rendezvous on qrsr, in quickResend's defer; a failed one ends the segment.
QuickResult ==
  /\ caller = "awaitQuick"
  /\ resender = "quickResult"
  /\ caller' = "idle"
  /\ qrt' = "armed"
  /\ resender' = IF failed THEN "close" ELSE "select"
  /\ UNCHANGED <<acked, endBy, failed, trsc, rst, rstt, ticks>>

\* Are the resends by ticker used up?  The mutated form never says so.
TickerNeverSpent == FALSE
TickerSpent == maxTickerResendC < trsc

\* tickerResend, when the ticker's channel is received.  Its error other than
\* errResendTo ends the segment, with endBy still unknown.
TickerResend ==
  /\ resender = "select"
  /\ "rst" \in ticks
  /\ ticks' = ticks \ {"rst"}
  /\ IF TickerSpent
     THEN /\ rst' = "long"
          /\ UNCHANGED <<resender, trsc>>
     ELSE /\ trsc' = trsc + 1
          /\ rst' = "rto"
          /\ resender' \in {"select", "close"}
  /\ UNCHANGED <<caller, acked, endBy, failed, rstt, qrt>>

\* waitAckTo is over.  The mutated form drops the case from the select.
NoResendTimeout == FALSE /\ UNCHANGED vars
ResendTimeout ==
  /\ resender = "select"
  /\ "rstt" \in ticks
  /\ ticks' = ticks \ {"rstt"}
  /\ endBy' = "timeout"
  /\ resender' = "close"
  /\ UNCHANGED <<caller, acked, failed, trsc, rst, rstt, qrt>>

\* The mutated form tells the window first, and closes `acked` never.
EndResendOpen ==
  /\ resender = "close"
  /\ rst' = "off"
  /\ rstt' = "off"
  /\ qrt' = "off"
  /\ resender' = "event"
  /\ UNCHANGED <<caller, acked, endBy, failed, trsc, ticks>>

\* endResend: stop the timers and close `acked` ..
EndResend ==
  /\ resender = "close"
  /\ rst' = "off"
  /\ rstt' = "off"
  /\ qrt' = "off"
  /\ acked' = TRUE
  /\ resender' = "event"
  /\ UNCHANGED <<caller, endBy, failed, trsc, ticks>>

\* .. then send EventEnd to the window, which takes no lock there, ..
EndEvent ==
  /\ resender = "event"
  /\ resender' = IF endBy = "ack" THEN "result" ELSE "gone"
  /\ UNCHANGED <<caller, acked, endBy, failed, trsc, rst, rstt, qrt, ticks>>

\* A timer fires; its channel holds one tick.
FireTicker ==
  /\ rst = "rto" \/ (rst = "long" /\ rstt = "off")
  /\ rst' = "off"
  /\ ticks' = ticks \cup {"rst"}
  /\ UNCHANGED <<caller, resender, acked, endBy, failed, trsc, rstt, qrt>>

FireTimeout ==
  /\ rstt = "armed"
  /\ rstt' = "off"
  /\ ticks' = ticks \cup {"rstt"}
  /\ UNCHANGED <<caller, resender, acked, endBy, failed, trsc, rst, qrt>>

FireQuick ==
  /\ qrt = "armed"
  /\ qrt' = "off"
  /\ ticks' = ticks \cup {"qrt"}
  /\ UNCHANGED <<caller, resender, acked, endBy, failed, trsc, rst, rstt>>

\* What happens without a new call.
Caller == SendReturn \/ OfferRefused
Rendezvous == TakeAck \/ AckResult \/ TakeQuick \/ QuickResult
Resender == QuickResend \/ TickerResend \/ EndResend \/ EndEvent
Timers == FireTicker \/ FireTimeout \/ FireQuick

Next ==
  \/ Send \/ AckIi \/ TryQResend
  \/ Caller \/ Rendezvous \/ Resender \/ ResendTimeout \/ Timers

\* Both goroutines are scheduled and the timeout timer fires.  A Go select picks
\* at random among the ready cases, so a case that is ready again and again is
\* taken (strong fairness); nobody has to call.
Fairness ==
  /\ WF_vars(Caller)
  /\ WF_vars(QuickResend)
  /\ WF_vars(EndResend)
  /\ WF_vars(EndEvent)
  /\ WF_vars(AckResult)
  /\ WF_vars(QuickResult)
  /\ WF_vars(FireTimeout)
  /\ SF_vars(TakeAck)
  /\ SF_vars(TakeQuick)
  /\ SF_vars(ResendTimeout)

Spec == Init /\ [][Next]_vars /\ Fairness

-----------------------------------------------------------------------------
\* Type invariant.  The ticker retransmits a bounded number of times.
TypeOK ==
  /\ caller \in {"new", "sending", "idle", "offerAck", "awaitAck", "offerQuick", "awaitQuick"}
  /\ resender \in {"none", "select", "quick", "quickResult", "close", "event", "result", "gone"}
  /\ acked \in BOOLEAN
  /\ endBy \in {"unknown", "ack", "timeout"}
  /\ failed \in BOOLEAN
  /\ trsc \in 0 .. maxTickerResendC + 1
  /\ rst \in {"off", "rto", "long"}
  /\ rstt \in {"off", "armed"}
  /\ qrt \in {"off", "armed"}
  /\ ticks \subseteq {"rst", "rstt", "qrt"}

\* Whoever waits for a result has a partner that is going to deliver it, and
\* whoever delivers one has a partner that waits: none of the four ten-second
\* panics is reachable.
Handshake ==
  /\ caller = "awaitAck" <=> endBy = "ack" /\ resender \in {"close", "event", "result"}
  /\ caller = "awaitQuick" <=> resender \in {"quick", "quickResult"}
  /\ resender = "result" => endBy = "ack"

\* The resender never transmits once `acked` is closed, and `acked` is closed
\* only by a resender that has left its loop for good.
EndsOnce == acked <=> resender \in {"event", "result", "gone"}

\* Every call returns.  The caller holds the lock of the whole window, so a call
\* that does not return stops the connection.
CallerReturns == caller \notin {"new", "idle"} ~> caller = "idle"

\* The resender of a sent segment ends, whatever the network does.
ResenderEnds == resender = "select" ~> resender = "gone"
=============================================================================
