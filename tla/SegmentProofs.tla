--------------------------- MODULE SegmentProofs ----------------------------
(***************************************************************************)
(* Proofs about Segment: the rendezvous of the window's goroutine and the  *)
(* segment's own goroutine never leaves one of them waiting for the other, *)
(* and the segment always has its timers ahead.                            *)
(***************************************************************************)
EXTENDS Segment, TLAPS

\* While the resender is in its loop no reason to end is recorded, and it is
\* started by Send and by nothing else.
LoopHasNoEnd ==
  /\ resender \in {"none", "select", "quick", "quickResult"} => endBy = "unknown"
  /\ resender = "none" <=> caller = "new"

Inv == TypeOK /\ Handshake /\ EndsOnce /\ LoopHasNoEnd

\* The invariant is inductive.
LEMMA InvInductive == Inv /\ [Next]_vars => Inv'
<1> SUFFICES ASSUME Inv, [Next]_vars PROVE Inv'
  OBVIOUS
<1> USE SegmentAssumption DEF Inv, TypeOK, Handshake, EndsOnce, LoopHasNoEnd
<1>1. ASSUME Send PROVE Inv'
  BY <1>1 DEF Send
<1>2. ASSUME AckIi PROVE Inv'
  BY <1>2 DEF AckIi
<1>3. ASSUME TryQResend PROVE Inv'
  BY <1>3 DEF TryQResend
<1>4. ASSUME SendReturn PROVE Inv'
  BY <1>4 DEF SendReturn
<1>5. ASSUME OfferRefused PROVE Inv'
  BY <1>5 DEF OfferRefused
<1>6. ASSUME TakeAck PROVE Inv'
  BY <1>6 DEF TakeAck
<1>7. ASSUME AckResult PROVE Inv'
  BY <1>7 DEF AckResult
<1>8. ASSUME TakeQuick PROVE Inv'
  BY <1>8 DEF TakeQuick
<1>9. ASSUME QuickResult PROVE Inv'
  BY <1>9 DEF QuickResult
<1>10. ASSUME QuickResend PROVE Inv'
  BY <1>10 DEF QuickResend
<1>11. ASSUME TickerResend PROVE Inv'
  BY <1>11 DEF TickerResend, TickerSpent
<1>12. ASSUME EndResend PROVE Inv'
  BY <1>12 DEF EndResend
<1>13. ASSUME EndEvent PROVE Inv'
  BY <1>13 DEF EndEvent
<1>14. ASSUME ResendTimeout PROVE Inv'
  BY <1>14 DEF ResendTimeout
<1>15. ASSUME Timers PROVE Inv'
  <2>1. UNCHANGED <<caller, resender, acked, endBy, failed, trsc>>
    BY <1>15 DEF Timers, FireTicker, FireTimeout, FireQuick
  <2>2. CASE FireTicker
    BY <2>1, <2>2 DEF FireTicker
  <2>3. CASE FireTimeout
    BY <2>1, <2>3 DEF FireTimeout
  <2>4. CASE FireQuick
    BY <2>1, <2>4 DEF FireQuick
  <2> QED BY <1>15, <2>2, <2>3, <2>4 DEF Timers
<1>16. CASE UNCHANGED vars
  <2>1. TypeOK'
    BY <1>16 DEF vars
  <2>2. Handshake' /\ LoopHasNoEnd'
    BY <1>16 DEF vars
  <2>3. EndsOnce'
    BY <1>16 DEF vars
  <2> QED BY <2>1, <2>2, <2>3
<1> QED
  BY <1>1, <1>2, <1>3, <1>4, <1>5, <1>6, <1>7, <1>8, <1>9, <1>10, <1>11, <1>12,
     <1>13, <1>14, <1>15, <1>16 DEF Next, Caller, Rendezvous, Resender

LEMMA InvCorrect == Spec => []Inv
<1>1. Init => Inv
  <2>1. Init => TypeOK
    <3>1. Init => trsc \in 0 .. maxTickerResendC + 1
      BY SegmentAssumption DEF Init
    <3> QED BY <3>1 DEF Init, TypeOK
  <2>2. Init => Handshake /\ LoopHasNoEnd
    BY DEF Init, Handshake, LoopHasNoEnd
  <2>3. Init => EndsOnce
    BY DEF Init, EndsOnce
  <2> QED BY <2>1, <2>2, <2>3 DEF Inv
<1> QED BY <1>1, InvInductive, PTL DEF Spec

\* Variables keep their types, and the ticker stops retransmitting.
THEOREM TypeCorrect == Spec => []TypeOK
<1>1. Inv => TypeOK
  BY DEF Inv
<1> QED BY <1>1, InvCorrect, PTL

\* Nobody waits for a result that is not going to come: none of the four
\* ten-second panics of segment.go is reachable.
THEOREM HandshakeCorrect == Spec => []Handshake
<1>1. Inv => Handshake
  BY DEF Inv
<1> QED BY <1>1, InvCorrect, PTL

\* The channel `acked` is closed once, by a resender that transmits no more.
THEOREM EndsOnceCorrect == Spec => []EndsOnce
<1>1. Inv => EndsOnce
  BY DEF Inv
<1> QED BY <1>1, InvCorrect, PTL

-----------------------------------------------------------------------------
(* The timers. *)

\* As long as a segment is in its loop it will hear of both its timers: the one that
\* retransmits it and the one that gives it up are armed, or their tick is waiting,
\* however quick resends, ticks that came too late and re-arming mix.
TimersAhead ==
  resender \in {"select", "quick", "quickResult"} =>
    /\ rst # "off" \/ "rst" \in ticks
    /\ rstt = "armed" \/ "rstt" \in ticks

\* TimersAhead: a sent segment is never left without a timer.
THEOREM NeverUntimed == Spec => []TimersAhead
<1>1. Init => TimersAhead
  BY DEF Init, TimersAhead
<1>2. Inv /\ TimersAhead /\ [Next]_vars => TimersAhead'
  <2> SUFFICES ASSUME Inv, TimersAhead, [Next]_vars PROVE TimersAhead'
    OBVIOUS
  <2> USE DEF TimersAhead
  <2>1. CASE UNCHANGED vars
    BY <2>1 DEF vars
  <2>2. CASE Send \/ AckIi \/ TryQResend
    BY <2>2 DEF Send, AckIi, TryQResend
  <2>3. CASE Caller
    BY <2>3 DEF Caller, SendReturn, OfferRefused
  <2>4. CASE Rendezvous
    BY <2>4 DEF Rendezvous, TakeAck, AckResult, TakeQuick, QuickResult
  <2>5. CASE Resender \/ ResendTimeout
    BY <2>5 DEF Resender, ResendTimeout, QuickResend, TickerResend, EndResend, EndEvent
  <2>6. CASE Timers
    BY <2>6 DEF Timers, FireTicker, FireTimeout, FireQuick
  <2> QED BY <2>1, <2>2, <2>3, <2>4, <2>5, <2>6 DEF Next
<1> QED BY <1>1, <1>2, InvCorrect, PTL DEF Spec

\* A call that has made its offer is heard, or is refused because the segment ended:
\* the resender is in its loop, or on its way out of it, or `acked` is closed.
OfferIsHeard ==
  caller \in {"offerAck", "offerQuick"} =>
    acked \/ resender \in {"select", "quick", "quickResult", "close"}

\* OfferIsHeard: what the caller, who holds the lock of the window, relies on.
THEOREM OffersAreHeard == Spec => []OfferIsHeard
<1>1. Inv => OfferIsHeard
  BY DEF Inv, TypeOK, EndsOnce, LoopHasNoEnd, OfferIsHeard
<1> QED BY <1>1, InvCorrect, PTL
=============================================================================
