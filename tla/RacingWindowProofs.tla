------------------------- MODULE RacingWindowProofs -------------------------
(***************************************************************************)
(* Proofs about RacingWindow, for any sizes and any number of segments and *)
(* overlapping events.  First the events by themselves (CInv), then the    *)
(* send window with them: each of its steps is one that SendWindow allows  *)
(* under some window, so the theorems of SendWindowProofs hold of it.      *)
(***************************************************************************)
EXTENDS RacingWindow, SendWindowProofs

CongStep ==
  \/ \E t \in Goroutines, e \in {"end", "resend"} : EventStart(t, e)
  \/ \E t \in Goroutines : EventStep(t)

InRange(e, c) == IF e = "end" THEN c <= MaxCong ELSE c >= MinCong

\* An event that overlaps with no other: the others are idle, what it read is
\* still so, and the limit it has written is in force.
Solitary(t) ==
  /\ pc[t] # "idle"
  /\ \A u \in Goroutines : u # t => pc[u] = "idle"
  /\ read[t] => reg[t] = cwnd
  /\ pc[t] = "window" => InRange(event[t], cwnd)

\* As long as no two events have overlapped, the window is positive, but for a
\* moment before the limit of EventResend.
Unraced ==
  /\ swnd >= 1
  /\ cwnd >= 1 \/ \E t \in Goroutines : pc[t] = "limit" /\ event[t] = "resend"
  /\ alone \/ \A t \in Goroutines : pc[t] = "idle"

CInv ==
  /\ CTypeOK
  /\ swnd <= RecWin
  /\ \A t \in Goroutines : read[t] => pc[t] # "idle"
  /\ \A t \in Goroutines : pc[t] # "idle" => event[t] # "none"
  /\ alone => \E t \in Goroutines : Solitary(t)
  /\ races = 0 => Unraced

-----------------------------------------------------------------------------
LEMMA CongInit == CInit => CInv
<1> SUFFICES ASSUME CInit PROVE CInv
  OBVIOUS
<1>1. DefCong \in Nat /\ DefCong >= 1 /\ DefCong <= RecWin /\ MaxRaces \in Nat
  BY CongAssumption
<1>2. CTypeOK
  <2>1. cwnd \in Int /\ swnd \in Int /\ races \in 0 .. MaxRaces /\ reg \in [Goroutines -> Int]
    BY <1>1 DEF CInit
  <2>2. read \in [Goroutines -> BOOLEAN] /\ alone \in BOOLEAN
    BY DEF CInit
  <2>3. /\ event \in [Goroutines -> {"none", "end", "resend"}]
        /\ pc \in [Goroutines -> {"idle", "change", "limit", "window"}]
    BY DEF CInit
  <2> QED BY <2>1, <2>2, <2>3 DEF CTypeOK
<1>3. Unraced /\ swnd <= RecWin /\ ~alone
  BY <1>1 DEF CInit, Unraced
<1> QED BY <1>2, <1>3 DEF CInit, CInv

LEMMA CongType == CTypeOK /\ swnd <= RecWin /\ CongStep => CTypeOK' /\ swnd' <= RecWin
<1> SUFFICES ASSUME CTypeOK, swnd <= RecWin, CongStep PROVE CTypeOK' /\ swnd' <= RecWin
  OBVIOUS
<1> USE CongAssumption, SeqAssumption DEF CTypeOK
<1>1. ASSUME NEW t \in Goroutines, NEW e \in {"end", "resend"}, EventStart(t, e)
      PROVE  CTypeOK' /\ swnd' <= RecWin
  <2>1. races' \in 0 .. MaxRaces
    BY <1>1 DEF EventStart
  <2>2. alone' \in BOOLEAN
    BY <1>1 DEF EventStart
  <2>3. /\ event' \in [Goroutines -> {"none", "end", "resend"}]
        /\ pc' \in [Goroutines -> {"idle", "change", "limit", "window"}]
        /\ read' \in [Goroutines -> BOOLEAN]
    BY <1>1 DEF EventStart
  <2>4. reg' \in [Goroutines -> Int] /\ cwnd' \in Int /\ swnd' \in Int /\ swnd' <= RecWin
    BY <1>1 DEF EventStart
  <2> QED BY <2>1, <2>2, <2>3, <2>4
<1>2. ASSUME NEW t \in Goroutines, EventRead(t) PROVE CTypeOK' /\ swnd' <= RecWin
  BY <1>2 DEF EventRead
<1>3. ASSUME NEW t \in Goroutines, Change(t) PROVE CTypeOK' /\ swnd' <= RecWin
  <2>1. cwnd' \in Int
    BY <1>3 DEF Change, Changed
  <2> QED BY <1>3, <2>1 DEF Change, EventWrite
<1>4. ASSUME NEW t \in Goroutines, Limit(t) PROVE CTypeOK' /\ swnd' <= RecWin
  <2>1. cwnd' \in Int
    BY <1>4 DEF Limit, Limited, Lesser, Larger
  <2> QED BY <1>4, <2>1 DEF Limit, EventWrite
<1>5. ASSUME NEW t \in Goroutines, Window(t) PROVE CTypeOK' /\ swnd' <= RecWin
  <2>1. swnd' \in Int /\ swnd' <= RecWin
    BY <1>5 DEF Window, SendWinSize, Lesser
  <2>2. /\ event' \in [Goroutines -> {"none", "end", "resend"}]
        /\ pc' \in [Goroutines -> {"idle", "change", "limit", "window"}]
    BY <1>5 DEF Window, EventWrite
  <2>3. read' \in [Goroutines -> BOOLEAN] /\ alone' \in BOOLEAN
    BY <1>5 DEF Window, EventWrite
  <2>4. reg' \in [Goroutines -> Int] /\ cwnd' \in Int /\ races' \in 0 .. MaxRaces
    BY <1>5 DEF Window, EventWrite
  <2> QED BY <2>1, <2>2, <2>3, <2>4
<1> QED BY <1>1, <1>2, <1>3, <1>4, <1>5 DEF CongStep, EventStep

\* The event that is alone is the only one that takes steps.
LEMMA OnlyOne ==
  ASSUME CInv, alone, NEW t \in Goroutines, pc[t] # "idle"
  PROVE  Solitary(t)
BY DEF CInv, Solitary

\* While nothing has been raced, what is under way is alone.
LEMMA AloneIfUnraced ==
  ASSUME CInv, races = 0, NEW t \in Goroutines, pc[t] # "idle"
  PROVE  alone /\ Solitary(t)
BY OnlyOne DEF CInv, Unraced

LEMMA LimitInRange ==
  ASSUME NEW e, NEW c \in Int
  PROVE  InRange(e, Limited(e, c))
BY CongAssumption DEF InRange, Limited, Lesser, Larger

LEMMA CongInductive == CInv /\ CongStep => CInv'
<1> SUFFICES ASSUME CInv, CongStep PROVE CInv'
  OBVIOUS
<1>0. CTypeOK' /\ swnd' <= RecWin /\ CTypeOK
  BY CongType DEF CInv
<1> USE <1>0 DEF CTypeOK
<1>1. ASSUME NEW t \in Goroutines, NEW e \in {"end", "resend"}, EventStart(t, e) PROVE CInv'
  <2>1. \A u \in Goroutines : read'[u] => pc'[u] # "idle"
    BY <1>1 DEF EventStart, CInv
  <2>4. \A u \in Goroutines : pc'[u] # "idle" => event'[u] # "none"
    BY <1>1 DEF EventStart, CInv
  <2>2. ASSUME alone' PROVE Solitary(t)'
    <3>1. \A u \in Goroutines : pc[u] = "idle"
      BY <1>1, <2>2 DEF EventStart, UnderWay
    <3> QED BY <1>1, <3>1 DEF EventStart, Solitary
  <2>3. ASSUME races' = 0 PROVE Unraced'
    <3>0. UnderWay = {} /\ races = 0
      BY <1>1, <2>3 DEF EventStart
    <3>1. UnderWay = {} /\ races = 0 /\ alone'
      BY <1>1, <3>0 DEF EventStart
    <3>2. \A u \in Goroutines : pc[u] = "idle"
      BY <3>1 DEF UnderWay
    <3>3. swnd >= 1 /\ cwnd >= 1
      BY <3>1, <3>2 DEF CInv, Unraced
    <3> QED BY <1>1, <3>1, <3>3 DEF EventStart, Unraced
  <2> QED BY <1>0, <2>1, <2>2, <2>3, <2>4 DEF CInv
<1>2. ASSUME NEW t \in Goroutines, EventRead(t) PROVE CInv'
  <2>1. \A u \in Goroutines : read'[u] => pc'[u] # "idle"
    BY <1>2 DEF EventRead, CInv
  <2>4. \A u \in Goroutines : pc'[u] # "idle" => event'[u] # "none"
    BY <1>2 DEF EventRead, CInv
  <2>2. ASSUME alone' PROVE Solitary(t)'
    <3>1. Solitary(t)
      BY <1>2, <2>2, OnlyOne DEF EventRead
    <3> QED BY <1>2, <3>1 DEF EventRead, Solitary, InRange
  <2>3. ASSUME races' = 0 PROVE Unraced'
    BY <1>2, <2>3 DEF EventRead, CInv, Unraced
  <2> QED BY <1>0, <2>1, <2>2, <2>3, <2>4 DEF CInv
<1>3. ASSUME NEW t \in Goroutines, Change(t) PROVE CInv'
  <2>1. \A u \in Goroutines : read'[u] => pc'[u] # "idle"
    BY <1>3 DEF Change, EventWrite, CInv
  <2>4. \A u \in Goroutines : pc'[u] # "idle" => event'[u] # "none"
    BY <1>3 DEF Change, EventWrite, CInv
  <2>2. ASSUME alone' PROVE Solitary(t)'
    <3>1. Solitary(t)
      BY <1>3, <2>2, OnlyOne DEF Change, EventWrite
    <3> QED BY <1>3, <3>1 DEF Change, EventWrite, Solitary
  <2>3. ASSUME races' = 0 PROVE Unraced'
    <3>1. pc[t] = "change" /\ races = 0
      BY <1>3, <2>3 DEF Change, EventWrite
    <3>2. alone /\ Solitary(t) /\ swnd >= 1
      BY <2>3, <3>1, AloneIfUnraced DEF CInv, Unraced
    <3>3. cwnd >= 1
      <4>1. \A u \in Goroutines : pc[u] # "limit"
        BY <3>1, <3>2 DEF Solitary
      <4> QED BY <3>1, <4>1 DEF CInv, Unraced
    <3>4. reg[t] = cwnd
      BY <1>3, <3>2 DEF Change, EventWrite, Solitary
    <3>5. pc'[t] = "limit" /\ event' = event /\ event[t] \in {"none", "end", "resend"}
      BY <1>3 DEF Change, EventWrite
    <3>6. CASE event[t] = "resend"
      BY <1>3, <3>2, <3>5, <3>6 DEF Change, EventWrite, Unraced
    <3>7. CASE event[t] # "resend"
      <4>1. event[t] = "end" \/ event[t] = "none"
        BY <3>5, <3>7
      <4>2. event[t] # "none"
        BY <3>1 DEF CInv
      <4>3. cwnd' >= 1
        BY <1>3, <3>3, <3>4, <4>1, <4>2 DEF Change, Changed
      <4> QED BY <1>3, <3>2, <4>3 DEF Change, EventWrite, Unraced
    <3> QED BY <3>6, <3>7
  <2> QED BY <1>0, <2>1, <2>2, <2>3, <2>4 DEF CInv
<1>4. ASSUME NEW t \in Goroutines, Limit(t) PROVE CInv'
  <2>1. \A u \in Goroutines : read'[u] => pc'[u] # "idle"
    BY <1>4 DEF Limit, EventWrite, CInv
  <2>4. \A u \in Goroutines : pc'[u] # "idle" => event'[u] # "none"
    BY <1>4 DEF Limit, EventWrite, CInv
  <2>2. ASSUME alone' PROVE Solitary(t)'
    <3>1. Solitary(t)
      BY <1>4, <2>2, OnlyOne DEF Limit, EventWrite
    <3>2. InRange(event[t], cwnd')
      BY <1>4, LimitInRange DEF Limit
    <3>3. InRange(event[t], cwnd)'
      BY <1>4, <3>2 DEF Limit, InRange
    <3> QED BY <1>4, <3>1, <3>3 DEF Limit, EventWrite, Solitary
  <2>3. ASSUME races' = 0 PROVE Unraced'
    <3>1. pc[t] = "limit" /\ races = 0
      BY <1>4, <2>3 DEF Limit, EventWrite
    <3>2. alone /\ Solitary(t) /\ swnd >= 1
      BY <2>3, <3>1, AloneIfUnraced DEF CInv, Unraced
    <3>3. reg[t] = cwnd
      BY <1>4, <3>2 DEF Limit, EventWrite, Solitary
    <3>4. event[t] = "resend" \/ cwnd >= 1
      BY <3>1, <3>2 DEF CInv, Unraced, Solitary
    <3>5. cwnd' >= 1
      BY <1>4, <3>3, <3>4, CongAssumption DEF Limit, Limited, Lesser, Larger
    <3> QED BY <1>4, <3>2, <3>5 DEF Limit, EventWrite, Unraced
  <2> QED BY <1>0, <2>1, <2>2, <2>3, <2>4 DEF CInv
<1>5. ASSUME NEW t \in Goroutines, Window(t) PROVE CInv'
  <2>1. \A u \in Goroutines : read'[u] => pc'[u] # "idle"
    BY <1>5 DEF Window, EventWrite, CInv
  <2>4. \A u \in Goroutines : pc'[u] # "idle" => event'[u] # "none"
    BY <1>5 DEF Window, EventWrite, CInv
  <2>2. ~alone'
    BY <1>5 DEF Window
  <2>3. ASSUME races' = 0 PROVE Unraced'
    <3>1. pc[t] = "window" /\ races = 0
      BY <1>5, <2>3 DEF Window, EventWrite
    <3>2. Solitary(t)
      BY <2>3, <3>1, AloneIfUnraced
    <3>3. reg[t] = cwnd
      BY <1>5, <3>2 DEF Window, EventWrite, Solitary
    <3>4. cwnd >= 1
      <4>1. \A u \in Goroutines : pc[u] # "limit"
        BY <3>1, <3>2 DEF Solitary
      <4> QED BY <3>1, <4>1 DEF CInv, Unraced
    <3>5. swnd' >= 1
      BY <1>5, <3>3, <3>4, SeqAssumption DEF Window, SendWinSize, Lesser
    <3>6. \A u \in Goroutines : pc'[u] = "idle"
      BY <1>5, <3>2 DEF Window, EventWrite, Solitary
    <3> QED BY <1>5, <3>4, <3>5, <3>6 DEF Window, Unraced
  <2> QED BY <1>0, <2>1, <2>2, <2>3, <2>4 DEF CInv
<1> QED BY <1>1, <1>2, <1>3, <1>4, <1>5 DEF CongStep, EventStep

\* What the invariant says of an event that ends alone.
LEMMA RepairsStep == CInv /\ CongStep /\ alone /\ UnderWay' = {} =>
                       \A e \in {event[t] : t \in UnderWay} : Repaired(e)'
<1> SUFFICES ASSUME CInv, CongStep, alone, UnderWay' = {},
                    NEW u \in UnderWay, NEW ev, ev = event[u]
             PROVE  Repaired(ev)'
  OBVIOUS
<1>0. CTypeOK /\ u \in Goroutines /\ pc[u] # "idle" /\ Solitary(u) /\ pc'[u] = "idle"
  <2>1. u \in Goroutines /\ pc[u] # "idle" /\ pc'[u] = "idle"
    BY DEF UnderWay
  <2> QED BY <2>1, OnlyOne DEF CInv
<1> USE <1>0 DEF CTypeOK
<1>1. ASSUME NEW t \in Goroutines, NEW e \in {"end", "resend"}, EventStart(t, e) PROVE FALSE
  BY <1>1 DEF EventStart
<1>2. ASSUME NEW t \in Goroutines, EventRead(t) PROVE FALSE
  BY <1>2 DEF EventRead
<1>3. ASSUME NEW t \in Goroutines, Change(t) PROVE FALSE
  BY <1>3 DEF Change, EventWrite
<1>4. ASSUME NEW t \in Goroutines, Limit(t) PROVE FALSE
  BY <1>4 DEF Limit, EventWrite
<1>5. ASSUME NEW t \in Goroutines, Window(t) PROVE Repaired(ev)'
  <2>1. t = u
    BY <1>5 DEF Window, EventWrite
  <2>2. reg[u] = cwnd /\ InRange(event[u], cwnd)
    BY <1>5, <2>1 DEF Window, EventWrite, Solitary
  <2>3. swnd' = Lesser(RecWin, cwnd) /\ cwnd' = cwnd
    BY <1>5, <2>1, <2>2 DEF Window, SendWinSize
  <2>4. swnd' = Lesser(RecWin, cwnd')
    BY <2>3
  <2> QED BY <2>2, <2>3, <2>4 DEF Repaired, InRange
<1> QED BY <1>1, <1>2, <1>3, <1>4, <1>5 DEF CongStep, EventStep

-----------------------------------------------------------------------------
(* The send window with the events. *)

RInv ==
  /\ SInv
  /\ BytesInv
  /\ written <= MaxWritten
  /\ acking = Nobody \/ acking \in (hSeq .. tSeq - 1) \cap dataNet
  /\ CInv

\* A segment in flight has a resender.
LEMMA ResenderOf ==
  ASSUME RInv, NEW n \in hSeq .. tSeq - 1
  PROVE  n \in Goroutines
<1>1. /\ hSeq \in Nat /\ tSeq \in Nat /\ appBuffer \in Nat /\ wrest \in Nat /\ written \in Nat
      /\ MaxWritten \in Nat /\ tSeq + appBuffer + wrest <= written /\ written <= MaxWritten
  BY SendAssumption DEF RInv, SInv, STypeOK, BytesInv, BytesAccounted
<1> QED BY <1>1, RacingAssumption

\* Whatever a send sees, it is a window SendWindow allows.
LEMMA SizesAllowed ==
  ASSUME RInv
  PROVE  Sizes = Windows
BY SeqAssumption DEF RInv, CInv, CTypeOK, Sizes, Windows, Larger

LEMMA StepAllowed ==
  ASSUME RInv, [RNext]_rvars
  PROVE  [SNext]_svars
<1>0. Sizes = Windows
  BY SizesAllowed
<1>1. ASSUME NEW n \in Live, ResendEvent(n) \/ EndEvent(n) PROVE Local
  BY <1>1 DEF ResendEvent, EndEvent, Local, Segments
<1>2. ASSUME Event PROVE UNCHANGED svars
  BY <1>2 DEF Event
<1>3. ASSUME AckEnd PROVE SNext
  <2>1. acking \in dataNet
    BY <1>3 DEF AckEnd, RInv
  <2> QED BY <1>0, <1>3, <2>1 DEF AckEnd, SNext
<1>4. ASSUME NEW n \in dataNet, AckBegin(n) PROVE UNCHANGED svars
  BY <1>4 DEF AckBegin
<1>5. ASSUME NEW n \in dataNet, AckAgain(n) PROVE SNext
  BY <1>0, <1>5 DEF AckAgain, SNext
<1>6. ASSUME PushEvent PROVE Local
  BY <1>0, <1>6 DEF PushEvent, Local
<1>7. ASSUME FlusherLocks PROVE Local
  BY <1>7 DEF Local, Flusher
<1>8. ASSUME FlusherSends \/ LastStart \/ WriteCalls \/ Waiting PROVE Local
  BY <1>8 DEF Local, Flusher
<1>9. ASSUME UNCHANGED rvars PROVE UNCHANGED svars
  BY <1>9 DEF rvars
<1> QED BY <1>1, <1>2, <1>3, <1>4, <1>5, <1>6, <1>7, <1>8, <1>9 DEF RNext, Acks, SNext

LEMMA CongAllowed ==
  ASSUME RInv, [RNext]_rvars
  PROVE  CongStep \/ UNCHANGED cvars
<1>0. \A n \in Live : n \in Goroutines
  BY ResenderOf DEF Live
<1>1. ASSUME NEW n \in Live, ResendEvent(n) \/ EndEvent(n) \/ AckBegin(n) PROVE CongStep
  BY <1>0, <1>1 DEF ResendEvent, EndEvent, AckBegin, CongStep
<1>2. ASSUME NEW n \in dataNet, AckBegin(n) PROVE CongStep
  BY <1>0, <1>2 DEF AckBegin, CongStep
<1>3. ASSUME Event PROVE CongStep
  BY <1>3 DEF Event, CongStep
<1>4. ASSUME AckEnd \/ PushEvent \/ \E n \in dataNet : AckAgain(n) PROVE UNCHANGED cvars
  BY <1>4 DEF AckEnd, AckAgain, PushEvent, Quiet
<1>5. ASSUME Quiet PROVE UNCHANGED cvars
  BY <1>5 DEF Quiet
<1>6. ASSUME UNCHANGED rvars PROVE UNCHANGED cvars
  BY <1>6 DEF rvars
<1> QED BY <1>1, <1>2, <1>3, <1>4, <1>5, <1>6 DEF RNext, Acks

LEMMA CInvStep ==
  ASSUME RInv, [RNext]_rvars
  PROVE  CInv'
<1>1. CASE CongStep
  BY <1>1, CongInductive DEF RInv
<1>2. CASE UNCHANGED cvars
  BY <1>2 DEF RInv, CInv, CTypeOK, Solitary, Unraced, InRange, cvars
<1> QED BY <1>1, <1>2, CongAllowed

LEMMA WrittenStep ==
  ASSUME SInv, written <= MaxWritten, [SNext]_svars
  PROVE  written' <= MaxWritten
<1>1. ASSUME NEW n \in 1 .. MaxWritten, WriteCall(n) PROVE written' <= MaxWritten
  BY <1>1 DEF WriteCall
<1>2. ASSUME WritePush \/ WriteFail \/ \E w \in Windows : WriteEvent(w) PROVE written' = written
  BY <1>2 DEF WritePush, WriteFail, WriteEvent
<1>3. ASSUME Segments PROVE written' = written
  BY <1>3 DEF Segments, Ticker, GiveUp, wvars
<1>4. ASSUME NEW at, NEW goto, FlushStep(at, goto) \/ FlusherGoes(at, goto) PROVE written' = written
  BY <1>4 DEF FlushStep, FlusherGoes, wvars
<1>5. ASSUME TimerFire \/ FlushTick \/ Finish \/ Close \/ CloseReturn PROVE written' = written
  BY <1>5 DEF TimerFire, FlushTick, Finish, Close, CloseReturn, wvars
<1>6. ASSUME NEW n \in dataNet, NEW w \in Windows, RecvAck(n, w) PROVE written' = written
  BY <1>6 DEF RecvAck, wvars
<1>7. ASSUME UNCHANGED svars PROVE written' = written
  BY <1>7 DEF svars, wvars
<1> QED
  BY <1>1, <1>2, <1>3, <1>4, <1>5, <1>6, <1>7
     DEF SNext, Local, WriteCalls, Flusher, FlusherLocks, FlusherSends, Waiting, FlushLock,
         FlushEnd, LastStart, LastLock, LastEnd, LastEmpty, LastTimeout, WaitAcked, WaitTimeout

\* While RecvAck waits for the resender nobody moves the head: the lock is held.
InFlight(n) == n \in (hSeq .. tSeq - 1) \cap dataNet

LEMMA AckingStep ==
  ASSUME RInv, [RNext]_rvars
  PROVE  acking' = Nobody \/ InFlight(acking)'
<1> DEFINE Kept == hSeq' = hSeq /\ tSeq' \in Nat /\ tSeq <= tSeq' /\ dataNet \subseteq dataNet'
<1>0. hSeq \in Nat /\ tSeq \in Nat /\ (acking = Nobody \/ InFlight(acking))
  BY DEF RInv, SInv, STypeOK, InFlight
<1>1. ASSUME acking' = acking, Kept PROVE acking' = Nobody \/ InFlight(acking)'
  BY <1>0, <1>1 DEF InFlight
<1>2. ASSUME acking' = acking, acking = Nobody PROVE acking' = Nobody \/ InFlight(acking)'
  BY <1>2
<1>3. ASSUME NEW n \in Live, ResendEvent(n) \/ EndEvent(n) PROVE acking' = acking /\ Kept
  BY <1>0, <1>3 DEF ResendEvent, EndEvent, Ticker, GiveUp
<1>4. ASSUME Event PROVE acking' = acking /\ Kept
  BY <1>0, <1>4 DEF Event, svars
<1>5. ASSUME AckEnd PROVE acking' = Nobody
  BY <1>5 DEF AckEnd
<1>6. ASSUME NEW n \in dataNet, AckBegin(n) PROVE acking' = n /\ InFlight(n)'
  <2>1. n \in hSeq .. tSeq - 1 /\ UNCHANGED <<hSeq, tSeq, dataNet>> /\ acking' = n
    BY <1>6 DEF AckBegin, Live, svars
  <2> QED BY <2>1 DEF InFlight
<1>7. ASSUME PushEvent \/ (\E n \in dataNet : AckAgain(n)) \/ (Unlocked /\ FlusherLocks /\ Quiet)
      PROVE  acking' = acking /\ acking = Nobody
  BY <1>7 DEF PushEvent, AckAgain, Unlocked, Quiet
<1>8. ASSUME FlusherSends PROVE Kept
  <2>1. ASSUME NEW at, NEW goto, FlushStep(at, goto) PROVE Kept
    BY <1>0, <2>1 DEF FlushStep, Enqueue
  <2>2. ASSUME NEW from, NEW to, FlusherGoes(from, to) PROVE Kept
    BY <1>0, <2>2 DEF FlusherGoes
  <2> QED BY <1>8, <2>1, <2>2 DEF FlusherSends, FlushEnd, LastEnd
<1>9. ASSUME LastStart \/ WriteCalls \/ Waiting PROVE Kept
  BY <1>0, <1>9 DEF LastStart, FlusherGoes, WriteCalls, WriteCall, WritePush, WriteFail, Waiting,
     TimerFire, FlushTick, Close, CloseReturn, LastTimeout, WaitAcked, WaitTimeout, Finish
<1>10. ASSUME UNCHANGED rvars PROVE acking' = acking /\ Kept
  BY <1>0, <1>10 DEF rvars, svars
<1>11. ASSUME Quiet PROVE acking' = acking
  BY <1>11 DEF Quiet
<1> HIDE DEF Kept
<1> QED
  BY <1>1, <1>2, <1>3, <1>4, <1>5, <1>6, <1>7, <1>8, <1>9, <1>10, <1>11 DEF RNext, Acks

LEMMA RInvStep == RInv /\ [RNext]_rvars => RInv'
<1> SUFFICES ASSUME RInv, [RNext]_rvars PROVE RInv'
  OBVIOUS
<1>1. [SNext]_svars
  BY StepAllowed
<1>2. SInv'
  BY <1>1, SInvInductive DEF RInv
<1>3. BytesInv'
  BY <1>1, BytesStep DEF RInv
<1>4. written' <= MaxWritten
  BY <1>1, WrittenStep DEF RInv
<1>5. acking' = Nobody \/ acking' \in (hSeq' .. tSeq' - 1) \cap dataNet'
  BY AckingStep DEF InFlight
<1>6. CInv'
  BY CInvStep
<1> QED BY <1>2, <1>3, <1>4, <1>5, <1>6 DEF RInv, Nobody

LEMMA RInvInit == RInit => RInv
<1> SUFFICES ASSUME RInit PROVE RInv
  OBVIOUS
<1>1. SInv /\ CInv
  BY SInvInitially, CongInit DEF RInit
<1>2. BytesInv /\ written <= MaxWritten
  BY SendAssumption DEF RInit, SInit, BytesInv, BytesAccounted
<1> QED BY <1>1, <1>2 DEF RInit, RInv

LEMMA RInvCorrect == RSpec => []RInv
BY RInvInit, RInvStep, PTL DEF RSpec

-----------------------------------------------------------------------------
\* A send is shut only if swnd leaves no room: what other events write to swnd
\* after its first segment comes too late.
LEMMA ShutFindsNoRoom ==
  ASSUME RInv, NEW w \in Sizes, Seen(w), shut',
         WriteEvent(w) \/ \E n : RecvAck(n, w)
  PROVE  swnd <= 0
<1>1. /\ hSeq \in Nat /\ tSeq \in Nat /\ hSeq <= tSeq /\ swnd \in Int
      /\ RecWin \in Nat /\ w \in Windows
  BY SizesAllowed, SeqAssumption DEF RInv, SInv, STypeOK, CInv, CTypeOK
<1>2. hSeq' \in hSeq .. tSeq
  <2>1. ASSUME WriteEvent(w) PROVE hSeq' = hSeq
    BY <2>1 DEF WriteEvent
  <2>2. ASSUME NEW n, RecvAck(n, w) PROVE hSeq' \in hSeq .. tSeq
    BY <2>2 DEF RecvAck
  <2> QED BY <1>1, <2>1, <2>2
<1>3. \E h, again : SendAll(h, w, again) \/ SendAborted(h, w)
  BY DEF WriteEvent, RecvAck
<1>4. w = 0
  BY <1>3 DEF SendAll, SendAborted
<1>5. ~(w \in tSeq + 1 - hSeq' .. RecWin)
  <2> DEFINE h == hSeq'
  <2>1. h \in Int /\ h <= tSeq
    BY <1>1, <1>2
  <2> HIDE DEF h
  <2>2. ~(0 \in tSeq + 1 - h .. RecWin)
    BY <1>1, <2>1
  <2> QED BY <1>4, <2>2 DEF h
<1>6. Larger(0, swnd) = 0
  BY <1>4, <1>5 DEF Seen, Room
<1> QED BY <1>1, <1>6 DEF Larger

LEMMA ShutStep ==
  ASSUME RInv, [RNext]_rvars, shut'
  PROVE  shut \/ swnd <= 0
<1>1. ASSUME NEW n \in Live, ResendEvent(n) \/ EndEvent(n) PROVE shut' = shut
  BY <1>1 DEF ResendEvent, EndEvent, Ticker, GiveUp
<1>2. ASSUME Event \/ \E n \in dataNet : AckBegin(n) PROVE shut' = shut
  BY <1>2 DEF Event, AckBegin, svars
<1>3. ASSUME AckEnd \/ PushEvent \/ \E n \in dataNet : AckAgain(n) PROVE swnd <= 0
  BY <1>3, ShutFindsNoRoom DEF AckEnd, PushEvent, AckAgain
<1>4. ASSUME FlusherLocks \/ FlusherSends PROVE shut' = shut \/ shut' = FALSE
  BY <1>4 DEF FlusherLocks, FlusherSends, FlushLock, FlushEnd, LastLock, LastEnd, LastEmpty,
     FlusherGoes, FlushStep
<1>5. ASSUME LastStart \/ WriteCalls \/ Waiting PROVE shut' = shut
  BY <1>5 DEF LastStart, FlusherGoes, WriteCalls, WriteCall, WritePush, WriteFail, Waiting,
     TimerFire, FlushTick, Close, CloseReturn, LastTimeout, WaitAcked, WaitTimeout, Finish
<1>6. ASSUME UNCHANGED rvars PROVE shut' = shut
  BY <1>6 DEF rvars, svars
<1> QED BY <1>1, <1>2, <1>3, <1>4, <1>5, <1>6 DEF RNext, Acks

LEMMA RacesCounted ==
  ASSUME CInv, CongStep \/ UNCHANGED cvars, races > 0
  PROVE  races' > 0
<1> USE DEF CInv, CTypeOK
<1>1. ASSUME NEW t \in Goroutines, NEW e \in {"end", "resend"}, EventStart(t, e) PROVE races' > 0
  BY <1>1 DEF EventStart
<1>2. ASSUME NEW t \in Goroutines, EventStep(t) PROVE races' = races
  BY <1>2 DEF EventStep, EventRead, Change, Limit, Window, EventWrite
<1>3. ASSUME UNCHANGED cvars PROVE races' = races
  BY <1>3 DEF cvars
<1> QED BY <1>1, <1>2, <1>3 DEF CongStep

LEMMA ShutByRacesStep == RInv /\ ShutByRaces /\ [RNext]_rvars => ShutByRaces'
<1> SUFFICES ASSUME RInv, ShutByRaces, [RNext]_rvars, shut' PROVE races' > 0
  BY DEF ShutByRaces
<1>1. races > 0
  <2>1. CASE shut
    BY <2>1 DEF ShutByRaces
  <2>2. CASE swnd <= 0
    BY <2>2 DEF RInv, CInv, CTypeOK, Unraced
  <2> QED BY <2>1, <2>2, ShutStep
<1> QED BY <1>1, CongAllowed, RacesCounted DEF RInv

-----------------------------------------------------------------------------
\* Variables keep their types, with the races of the events; cwnd has no bounds,
\* and the segment whose AckIi waits for its resender stays in flight.
THEOREM RacingTypeCorrect == RSpec => []RTypeOK
<1>1. RInv => RTypeOK
  BY DEF RInv, SInv, CInv, RTypeOK
<1> QED BY <1>1, RInvCorrect, PTL

\* AnyWindow: whatever the races leave in swnd, the send window does what
\* SendWindow allows with some window of at most RecWin.
THEOREM SendsUnderAnyWindow == RSpec => AnyWindow
<1>1. RInit => SInit
  BY DEF RInit
<1>2. RInv /\ [RNext]_rvars => [SNext]_svars
  BY StepAllowed
<1> QED BY <1>1, <1>2, RInvCorrect, PTL DEF RSpec, AnyWindow

\* ShutByRaces: without two overlapping events no send finds the window shut.
THEOREM ShutOnlyByRaces == RSpec => []ShutByRaces
<1>1. RInit => ShutByRaces
  BY DEF RInit, SInit, ShutByRaces
<1> QED BY <1>1, ShutByRacesStep, RInvCorrect, PTL DEF RSpec

\* Repairs: an event that overlaps with no other leaves cwnd within its limit and
\* swnd the minimum of both windows, whatever races have left in them.
THEOREM RacesAreRepaired == RSpec => Repairs
<1>1. RInv /\ [RNext]_rvars =>
        [alone /\ UnderWay' = {} => \A e \in {event[t] : t \in UnderWay} : Repaired(e)']_cvars
  <2> SUFFICES ASSUME RInv, [RNext]_rvars, alone, UnderWay' = {}, cvars' # cvars
               PROVE  \A e \in {event[t] : t \in UnderWay} : Repaired(e)'
    OBVIOUS
  <2> QED BY CongAllowed, RepairsStep DEF RInv
<1> QED BY <1>1, RInvCorrect, PTL DEF RSpec, Repairs

\* Bytes are left without a flush (Stranded) only after two events have overlapped:
\* the code strands data by that race, and in no other way.
THEOREM StrandedOnlyByRaces == RSpec => [](Stranded => races > 0)
<1>1. RInv /\ ShutByRaces => (Stranded => races > 0)
  BY DEF RInv, SInv, NoStrandedData, ShutByRaces
<1> QED BY <1>1, ShutOnlyByRaces, RInvCorrect, PTL
=============================================================================
