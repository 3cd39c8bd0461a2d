-------------------------- MODULE SendWindowProofs --------------------------
(***************************************************************************)
(* Proofs about SendWindow, for every size of segments, buffers and        *)
(* windows.  Each property is inductive relative to the types; the lemmas  *)
(* about send(readMSS) carry the arithmetic.  At the end, the bytes: none  *)
(* is lost before it is in a segment, and no segment is empty.             *)
(***************************************************************************)
EXTENDS SendWindow, TLAPS

\* Division, as readMSS uses it.
LEMMA DivMod ==
  ASSUME NEW a \in Nat, NEW m \in Nat \ {0}
  PROVE  a \div m \in Nat /\ a = m * (a \div m) + (a % m) /\ a % m \in 0 .. m - 1
<1>1. a \div m \in Nat /\ a % m \in 0 .. m - 1
  OBVIOUS
<1>2. a = m * (a \div m) + (a % m)
  OBVIOUS
<1> QED BY <1>1, <1>2

LEMMA FullSegmentsFit ==
  ASSUME NEW a \in Nat, NEW m \in Nat \ {0}, NEW n \in 0 .. (a \div m)
  PROVE  n * m \in Nat /\ n * m <= a
<1>1. n * m <= (a \div m) * m
  OBVIOUS
<1>2. n * m \in Nat
  OBVIOUS
<1> QED BY <1>1, <1>2, DivMod

LEMMA NoFullSegment ==
  ASSUME NEW a \in Nat, NEW m \in Nat \ {0}, a \div m = 0
  PROVE  a < m
OBVIOUS

\* A set of ordinals stays in a range that grows at its end.
LEMMA RangeGrows ==
  ASSUME NEW a \in Int, NEW b \in Int, NEW c \in Int, b <= c, NEW S, S \subseteq a .. b - 1
  PROVE  S \subseteq a .. c - 1
BY Z3

\* How much send(readMSS) takes, from the head h under the window w.
LEMMA SendableFacts ==
  ASSUME STypeOK, NEW h \in hSeq .. tSeq, NEW w \in Windows
  PROVE  /\ Sendable(h, w) \in 0 .. (appBuffer \div MSS)
          /\ \A n \in 0 .. Sendable(h, w) : n * MSS \in 0 .. appBuffer
         /\ h = tSeq /\ Sendable(h, w) = 0 /\ w > 0 => appBuffer < MSS
<1>1. /\ appBuffer \in Nat /\ MSS \in Nat \ {0} /\ tSeq \in Nat /\ h \in Nat /\ h <= tSeq
      /\ w \in 0 .. RecWin /\ RecWin \in Nat
  BY SendAssumption, SeqAssumption DEF STypeOK, Windows
<1> DEFINE q == appBuffer \div MSS
<1>2. q \in Nat
  BY <1>1, DivMod
<1>3. Sendable(h, w) = Larger(0, Lesser(q, w - (tSeq - h)))
  BY DEF Sendable
<1> HIDE DEF q
<1>4. Sendable(h, w) \in 0 .. q
  BY <1>1, <1>2, <1>3 DEF Larger, Lesser
<1>5. ASSUME NEW n \in 0 .. Sendable(h, w) PROVE n * MSS \in 0 .. appBuffer
  <2>1. n \in 0 .. (appBuffer \div MSS)
    BY <1>2, <1>4 DEF q
  <2>2. n * MSS \in Nat /\ n * MSS <= appBuffer
    BY <1>1, <2>1, FullSegmentsFit
  <2> QED BY <2>2, <1>1
<1>6. ASSUME h = tSeq, Sendable(h, w) = 0, w > 0 PROVE appBuffer < MSS
  <2>1. q = 0
    BY <1>1, <1>2, <1>3, <1>6 DEF Larger, Lesser
  <2> QED BY <1>1, <2>1, NoFullSegment DEF q
<1> QED BY <1>4, <1>5, <1>6 DEF q

\* What send(readMSS) does to the state, and what it leaves behind: if nothing
\* is in flight afterwards and bytes remain, flushTimer is armed, unless it was shut.
LEMMA SendFacts ==
  ASSUME STypeOK, NEW h \in hSeq .. tSeq, NEW w \in Windows,
         NEW again \in SUBSET (hSeq .. tSeq - 1),
         SendAll(h, w, again) \/ SendAborted(h, w)
  PROVE  /\ appBuffer' \in 0 .. AppBuffer
         /\ tSeq' \in Nat /\ tSeq <= tSeq'
         /\ dataNet' \subseteq 0 .. tSeq' - 1
         /\ flushTimer' \in BOOLEAN
         /\ shut' \in BOOLEAN
         /\ appBuffer' > 0 /\ h = tSeq' => flushTimer' \/ shut'
<1> DEFINE k == Sendable(h, w)
<1>1. /\ appBuffer \in 0 .. AppBuffer /\ tSeq \in Nat /\ hSeq \in Nat /\ h \in Nat /\ h <= tSeq
      /\ w \in 0 .. RecWin /\ RecWin \in Nat /\ AppBuffer \in Nat /\ MSS \in Nat \ {0}
      /\ dataNet \subseteq 0 .. tSeq - 1 /\ flushTimer \in BOOLEAN
  BY SendAssumption, SeqAssumption DEF STypeOK, Windows
<1>2. /\ k \in Nat
      /\ \A n \in 0 .. k : n * MSS \in 0 .. appBuffer
      /\ h = tSeq /\ k = 0 /\ w > 0 => appBuffer < MSS
  <2>1. appBuffer \in Nat
    BY <1>1
  <2>2. appBuffer \div MSS \in Nat
    BY <1>1, <2>1, DivMod
  <2> QED BY <2>2, SendableFacts
<1>3. CASE SendAll(h, w, again)
  <2>1. /\ appBuffer' = appBuffer - k * MSS
        /\ tSeq' = tSeq + k
        /\ dataNet' = dataNet \cup (again \cup (tSeq .. tSeq + k - 1))
        /\ flushTimer' = TimerAfter(h, w, k, appBuffer - k * MSS)
        /\ shut' = (w = 0 /\ h = tSeq /\ appBuffer > 0)
    BY <1>3 DEF SendAll, Enqueue
  <2> HIDE DEF k
  <2>2. k * MSS \in 0 .. appBuffer /\ k * MSS \in Nat
    BY <1>1, <1>2
  <2>3. appBuffer' \in 0 .. AppBuffer
    BY <1>1, <2>1, <2>2
  <2>4. dataNet' \subseteq 0 .. tSeq' - 1
    BY <1>1, <1>2, <2>1
  <2>5. flushTimer' \in BOOLEAN
    BY <1>1, <2>1 DEF TimerAfter, TimerStopped
  <2>6. ASSUME appBuffer' > 0, h = tSeq', ~shut' PROVE flushTimer'
    <3>1. k = 0 /\ h = tSeq
      BY <1>1, <1>2, <2>1, <2>6
    <3>2. 0 * MSS = 0
      BY <1>1
    <3>3. appBuffer - k * MSS = appBuffer /\ appBuffer' = appBuffer
      BY <1>1, <2>1, <3>1, <3>2
    <3>4. 0 < appBuffer /\ appBuffer < MSS /\ tSeq + k - h < w
      <4>1. ~(w = 0 /\ h = tSeq /\ appBuffer > 0)
        BY <2>1, <2>6, Zenon
      <4>2. 0 < appBuffer /\ w > 0
        BY <1>1, <2>6, <3>1, <3>3, <4>1
      <4> QED BY <1>1, <1>2, <3>1, <4>2
    <3> QED BY <2>1, <3>3, <3>4 DEF TimerAfter
  <2>7. tSeq' \in Nat /\ tSeq <= tSeq' /\ shut' \in BOOLEAN
    BY <1>1, <1>2, <2>1
  <2> QED BY <2>3, <2>4, <2>5, <2>6, <2>7
<1>4. CASE SendAborted(h, w)
  <2> HIDE DEF k
  <2>1. PICK n \in 1 .. k : /\ appBuffer' = appBuffer - n * MSS
                            /\ tSeq' = tSeq + n
                            /\ dataNet' = dataNet \cup (tSeq .. tSeq + n - 2)
                            /\ flushTimer' = FALSE
                            /\ shut' = FALSE
    BY <1>4 DEF SendAborted, Enqueue, k
  <2>2. n \in Nat /\ n >= 1 /\ n <= k /\ n * MSS \in 0 .. appBuffer
    BY <1>2, <2>1
  <2>3. appBuffer' \in 0 .. AppBuffer
    BY <1>1, <2>1, <2>2
  <2>4. dataNet' \subseteq 0 .. tSeq' - 1
    BY <1>1, <2>1, <2>2
  <2>5. tSeq' \in Nat /\ tSeq <= tSeq' /\ h # tSeq'
    BY <1>1, <1>2, <2>1, <2>2
  <2>6. flushTimer' \in BOOLEAN /\ shut' \in BOOLEAN
    BY <2>1
  <2> QED BY <2>3, <2>4, <2>5, <2>6
<1> QED BY <1>3, <1>4

-----------------------------------------------------------------------------
\* The two halves of the type invariant, for different provers.
SNumbers ==
  /\ appBuffer \in 0 .. AppBuffer
  /\ written \in Nat /\ wrest \in Nat
  /\ hSeq \in Nat /\ tSeq \in Nat /\ hSeq <= tSeq
  /\ done \subseteq hSeq .. tSeq - 1
  /\ dataNet \subseteq 0 .. tSeq - 1
SFlags ==
  /\ shut \in BOOLEAN
  /\ wpc \in {"idle", "push", "event"}
  /\ gaveUp \in BOOLEAN
  /\ flushTimer \in BOOLEAN
  /\ flushTick \in BOOLEAN
  /\ fpc \in {"select", "lock", "flush", "last", "lastflush", "waitack", "done"}
  /\ closed \in BOOLEAN
  /\ cpc \in {"idle", "wait", "nil", "errCloseTimeout"}

LEMMA TypeParts ==
  /\ STypeOK <=> SNumbers /\ SFlags
  /\ STypeOK' <=> SNumbers' /\ SFlags'
BY DEF STypeOK, SNumbers, SFlags

\* The goroutine of loopFlush leaves its loop only once closeSignal is closed.
LeftLoopClosed == fpc \in {"last", "lastflush", "waitack", "done"} => closed

SInv == STypeOK /\ NoStrandedData /\ HeadUnacked /\ LeftLoopClosed

\* RecvAck preserves the invariants.
LEMMA AckStep ==
  ASSUME SInv, NEW n, NEW w \in Windows, RecvAck(n, w)
  PROVE  SInv'
<1> DEFINE d == done \cup {n}
<1> USE DEF SInv
<1>1. /\ n \in hSeq .. tSeq - 1 /\ LockFree
      /\ UNCHANGED <<wvars, gaveUp, flushTick, fvars>>
  BY DEF RecvAck
<1>2. PICK h \in hSeq .. tSeq :
        /\ Trims(h, d)
        /\ hSeq' = h
        /\ done' = d \ (hSeq .. h - 1)
        /\ \/ SendAborted(h, w)
           \/ \E again \in SUBSET Skipped(h, n, d) : SendAll(h, w, again)
  BY DEF RecvAck
<1>4. hSeq \in Nat /\ tSeq \in Nat /\ done \subseteq hSeq .. tSeq - 1
  BY DEF STypeOK
<1>5. Skipped(h, n, d) \subseteq hSeq .. tSeq - 1
  BY <1>1, <1>4, SendAssumption DEF Skipped
<1>6. PICK again \in SUBSET (hSeq .. tSeq - 1) : SendAll(h, w, again) \/ SendAborted(h, w)
  BY <1>2, <1>5
<1>7. /\ appBuffer' \in 0 .. AppBuffer
      /\ tSeq' \in Nat /\ tSeq <= tSeq'
      /\ dataNet' \subseteq 0 .. tSeq' - 1
      /\ flushTimer' \in BOOLEAN
      /\ shut' \in BOOLEAN
      /\ appBuffer' > 0 /\ h = tSeq' => flushTimer' \/ shut'
  BY <1>6, SendFacts
<1>8. hSeq' \in Nat /\ hSeq' <= tSeq' /\ done' \subseteq hSeq' .. tSeq' - 1
  <2>1. hSeq' \in Nat /\ hSeq' <= tSeq'
    BY <1>2, <1>4, <1>7
  <2>2. ASSUME NEW x \in done' PROVE x \in hSeq' .. tSeq' - 1
    <3>1. x \in d /\ x \notin hSeq .. h - 1
      BY <1>2, <2>2
    <3>2. x \in Int /\ hSeq <= x /\ x < tSeq
      BY <1>1, <1>4, <3>1
    <3>3. h \in Int /\ hSeq' = h /\ hSeq \in Int /\ hSeq' \in Int
      BY <1>2, <1>4
    <3>4. h <= x
      BY <1>4, <3>1, <3>2, <3>3
    <3> HIDE DEF d
    <3>5. x < tSeq' /\ tSeq' \in Int
      BY <1>4, <1>7, <3>2
    <3>6. hSeq' <= x
      BY <3>3, <3>4
    <3>7. \A e, a, t \in Int : a <= e /\ e < t => e \in a .. t - 1
      OBVIOUS
    <3> QED BY <3>2, <3>3, <3>5, <3>6, <3>7, Zenon
  <2> QED BY <2>1, <2>2
<1>9. SNumbers'
  BY <1>1, <1>7, <1>8 DEF STypeOK, SNumbers, wvars
<1>10. SFlags'
  BY <1>1, <1>7 DEF STypeOK, SFlags, wvars, fvars
<1>11. HeadUnacked'
  <2>1. h \notin done'
    BY <1>1, <1>2, <1>4 DEF Trims
  <2> QED BY <1>2, <2>1 DEF HeadUnacked
<1>12. NoStrandedData'
  BY <1>2, <1>7 DEF NoStrandedData, Stranded, FlushComes
<1>13. LeftLoopClosed'
  BY <1>1 DEF LeftLoopClosed, fvars
<1> QED BY <1>9, <1>10, <1>11, <1>12, <1>13, TypeParts

\* So does every other step.
LEMMA LocalStep ==
  ASSUME SInv, Local
  PROVE  SInv'
<1> DEFINE Goal == SInv'
<1> USE DEF SInv
<1>0. /\ tSeq \in Nat /\ hSeq \in Nat /\ appBuffer \in 0 .. AppBuffer /\ wrest \in Nat
      /\ AppBuffer \in Nat /\ MSS \in Nat \ {0} /\ MaxWritten \in Nat
  BY SendAssumption DEF STypeOK
<1>1. ASSUME NEW n \in 1 .. MaxWritten, WriteCall(n) PROVE Goal
  BY <1>0, <1>1 DEF WriteCall, STypeOK, NoStrandedData, Stranded, FlushComes, HeadUnacked, LeftLoopClosed, fvars
<1>2. ASSUME WritePush PROVE Goal
  <2>1. Lesser(AppBuffer - appBuffer, wrest) \in 1 .. wrest
    BY <1>0, <1>2 DEF WritePush, Lesser
  <2>2. appBuffer' \in 0 .. AppBuffer /\ wrest' \in Nat
    BY <1>0, <1>2, <2>1 DEF WritePush, Lesser
  <2> QED BY <1>0, <1>2, <2>2 DEF WritePush, STypeOK, NoStrandedData, Stranded, FlushComes, HeadUnacked, LeftLoopClosed, fvars
<1>3. ASSUME WriteFail PROVE Goal
  BY <1>0, <1>3 DEF WriteFail, STypeOK, NoStrandedData, Stranded, FlushComes, HeadUnacked, LeftLoopClosed, fvars
<1>4. ASSUME NEW w \in Windows, WriteEvent(w) PROVE Goal
  <2>1. /\ hSeq \in hSeq .. tSeq
        /\ {} \in SUBSET (hSeq .. tSeq - 1)
    BY <1>0 DEF STypeOK
  <2>2. SendAll(hSeq, w, {}) \/ SendAborted(hSeq, w)
    BY <1>4 DEF WriteEvent
  <2>3. /\ appBuffer' \in 0 .. AppBuffer
        /\ tSeq' \in Nat /\ tSeq <= tSeq'
        /\ dataNet' \subseteq 0 .. tSeq' - 1
        /\ flushTimer' \in BOOLEAN
        /\ shut' \in BOOLEAN
        /\ appBuffer' > 0 /\ hSeq = tSeq' => flushTimer' \/ shut'
    BY <2>1, <2>2, SendFacts
  <2>4. /\ UNCHANGED <<written, wrest, hSeq, done, gaveUp, flushTick, fvars>>
        /\ wpc' \in {"idle", "push"}
    BY <1>4 DEF WriteEvent
  <2>5. SNumbers'
    <3>1. hSeq \in Int /\ tSeq \in Int /\ tSeq' \in Int /\ tSeq <= tSeq' /\ hSeq <= tSeq'
      BY <1>0, <2>3 DEF STypeOK
    <3>2. done \subseteq hSeq .. tSeq - 1
      BY DEF STypeOK
    <3>3. done \subseteq hSeq .. tSeq' - 1
      BY <3>1, <3>2, RangeGrows
    <3> QED BY <1>0, <2>3, <2>4, <3>1, <3>3 DEF STypeOK, SNumbers
  <2>6. SFlags'
    BY <2>3, <2>4 DEF STypeOK, SFlags, fvars
  <2>7. NoStrandedData' /\ HeadUnacked' /\ LeftLoopClosed'
    BY <2>3, <2>4 DEF NoStrandedData, Stranded, FlushComes, HeadUnacked, LeftLoopClosed, fvars
  <2> QED BY <2>3, <2>4, <2>5, <2>6, <2>7, TypeParts
<1>5. ASSUME NEW n \in Live, Ticker(n) PROVE Goal
  <2>1. n \in hSeq .. tSeq - 1
    BY DEF Live
  <2>3. dataNet' \subseteq 0 .. tSeq - 1
    BY <1>0, <1>5, <2>1 DEF Ticker, STypeOK
  <2> QED BY <1>0, <1>5, <2>3 DEF Ticker, STypeOK, NoStrandedData, Stranded, FlushComes, HeadUnacked, LeftLoopClosed, wvars, fvars
<1>6. ASSUME NEW n \in Live, GiveUp(n) PROVE Goal
  <2>1. n \in hSeq .. tSeq - 1
    BY DEF Live
  <2> QED BY <1>0, <1>6, <2>1 DEF GiveUp, STypeOK, NoStrandedData, Stranded, FlushComes, HeadUnacked, LeftLoopClosed, wvars, fvars
<1>7. ASSUME TimerFire \/ FlushTick PROVE Goal
  <2>1. /\ UNCHANGED <<appBuffer, wvars, hSeq, tSeq, done, gaveUp, shut, closed, cpc, dataNet>>
        /\ \/ fpc' = fpc /\ flushTimer' = FALSE /\ flushTick' = TRUE
           \/ fpc' = "lock" /\ flushTimer' = flushTimer /\ flushTick' = FALSE
    BY <1>7 DEF TimerFire, FlushTick, fvars
  <2>2. SNumbers'
    BY <2>1 DEF STypeOK, SNumbers, wvars
  <2>3. SFlags'
    BY <2>1 DEF STypeOK, SFlags, wvars
  <2>4. NoStrandedData' /\ HeadUnacked' /\ LeftLoopClosed'
    BY <2>1 DEF NoStrandedData, Stranded, FlushComes, HeadUnacked, LeftLoopClosed, wvars
  <2> QED BY <1>0, <2>2, <2>3, <2>4, TypeParts
<1>8. ASSUME NEW at, NEW goto, FlushStep(at, goto),
             <<at, goto>> \in {<<"flush", "select">>, <<"lastflush", "waitack">>}
      PROVE  Goal
  <2> DEFINE l == Lesser(MSS, appBuffer)
  <2>1. PICK sn \in {{}, {tSeq}} :
          /\ appBuffer' = appBuffer - l
          /\ tSeq' = tSeq + 1
          /\ dataNet' = dataNet \cup sn
          /\ fpc' \in {at, goto}
    BY <1>8 DEF FlushStep, Enqueue
  <2>2. /\ fpc = at /\ appBuffer > 0
        /\ UNCHANGED <<wvars, hSeq, done, gaveUp, flushTimer, flushTick, closed, cpc>> /\ shut' = FALSE
    BY <1>8 DEF FlushStep
  <2>3. l \in 1 .. appBuffer
    BY <1>0, <2>1, <2>2 DEF Lesser
  <2> HIDE DEF l
  <2>4. /\ appBuffer' \in 0 .. AppBuffer /\ tSeq' \in Nat /\ hSeq < tSeq'
        /\ dataNet' \subseteq 0 .. tSeq' - 1 /\ done \subseteq hSeq .. tSeq' - 1
    <3>1. appBuffer' \in 0 .. AppBuffer /\ tSeq' \in Nat /\ hSeq < tSeq'
      BY <1>0, <2>1, <2>3 DEF STypeOK
    <3>2. /\ hSeq \in Int /\ tSeq \in Int /\ tSeq' \in Int /\ tSeq <= tSeq' /\ 0 \in Int
          /\ tSeq \in 0 .. tSeq' - 1
      BY <1>0, <2>1
    <3>3. dataNet \subseteq 0 .. tSeq - 1 /\ done \subseteq hSeq .. tSeq - 1
      BY DEF STypeOK
    <3>4. dataNet \subseteq 0 .. tSeq' - 1
      BY <3>2, <3>3, RangeGrows
    <3>5. done \subseteq hSeq .. tSeq' - 1
      BY <3>2, <3>3, RangeGrows
    <3>6. dataNet' \subseteq 0 .. tSeq' - 1
      BY <2>1, <3>2, <3>4
    <3> QED BY <3>1, <3>5, <3>6
  <2>5. fpc' \in {"flush", "select", "lastflush", "waitack"} /\ ~LockFree
    BY <1>8, <2>1, <2>2 DEF LockFree
  <2>6. SNumbers'
    <3>1. /\ written' = written /\ wrest' = wrest /\ hSeq' = hSeq /\ done' = done
          /\ written \in Nat /\ hSeq \in Nat /\ hSeq <= tSeq'
      BY <1>0, <2>2, <2>4 DEF STypeOK, wvars
    <3> QED BY <1>0, <2>4, <3>1 DEF SNumbers
  <2>7. SFlags'
    BY <2>2, <2>5 DEF STypeOK, SFlags, wvars
  <2>8. NoStrandedData' /\ HeadUnacked'
    BY <1>0, <2>2, <2>4 DEF NoStrandedData, Stranded, FlushComes, HeadUnacked
  <2>9. LeftLoopClosed'
    BY <1>8, <2>1, <2>2 DEF LeftLoopClosed
  <2> QED BY <2>5, <2>6, <2>7, <2>8, <2>9, TypeParts
<1>9. ASSUME NEW from, NEW to, FlusherGoes(from, to),
             to \in {"flush", "select", "last", "lastflush", "waitack"},
             from \in {"lock", "flush"} => to = "flush" \/ appBuffer = 0,
             to \in {"last", "lastflush", "waitack"} => closed
      PROVE  Goal
  BY <1>0, <1>9 DEF FlusherGoes, STypeOK, NoStrandedData, Stranded, FlushComes, HeadUnacked, LeftLoopClosed, wvars
<1>10. ASSUME Finish PROVE Goal
  <2>1. /\ closed /\ fpc' = "done" /\ flushTimer' = FALSE
        /\ UNCHANGED <<appBuffer, wvars, hSeq, tSeq, done, gaveUp, shut, flushTick, closed, cpc, dataNet>>
    BY <1>10 DEF Finish, LeftLoopClosed
  <2>2. SNumbers'
    BY <2>1 DEF STypeOK, SNumbers, wvars
  <2>3. SFlags'
    BY <2>1 DEF STypeOK, SFlags, wvars
  <2>4. NoStrandedData' /\ HeadUnacked' /\ LeftLoopClosed'
    BY <2>1 DEF NoStrandedData, Stranded, FlushComes, HeadUnacked, LeftLoopClosed, wvars
  <2> QED BY <1>0, <2>2, <2>3, <2>4, TypeParts
<1>11. ASSUME Close PROVE Goal
  BY <1>0, <1>11 DEF Close, STypeOK, NoStrandedData, Stranded, FlushComes, HeadUnacked, LeftLoopClosed, wvars
<1>12. ASSUME CloseReturn PROVE Goal
  BY <1>0, <1>12 DEF CloseReturn, STypeOK, NoStrandedData, Stranded, FlushComes, HeadUnacked, LeftLoopClosed, wvars
<1>13. ASSUME Flusher \/ LastTimeout PROVE Goal
  <2>1. CASE FlushLock
    BY <1>9, <2>1 DEF FlushLock
  <2>2. CASE FlushStep("flush", "select")
    BY <1>8, <2>2
  <2>3. CASE FlushEnd
    BY <1>9, <2>3 DEF FlushEnd
  <2>4. CASE LastStart
    BY <1>9, <2>4 DEF LastStart
  <2>5. CASE LastLock
    BY <1>9, <2>5 DEF LastLock, FlusherGoes, LeftLoopClosed
  <2>6. CASE FlushStep("lastflush", "waitack")
    BY <1>8, <2>6
  <2>7. CASE LastEnd
    BY <1>9, <2>7 DEF LastEnd, FlusherGoes, LeftLoopClosed
  <2>8. CASE LastEmpty \/ LastTimeout
    BY <1>9, <2>8 DEF LastEmpty, LastTimeout, FlusherGoes, LeftLoopClosed
  <2> QED BY <1>13, <2>1, <2>2, <2>3, <2>4, <2>5, <2>6, <2>7, <2>8 DEF Flusher, FlusherLocks, FlusherSends
<1> QED
  BY <1>1, <1>2, <1>3, <1>4, <1>5, <1>6, <1>7, <1>10, <1>11, <1>12, <1>13
     DEF Local, WriteCalls, Segments, Waiting, WaitAcked, WaitTimeout

-----------------------------------------------------------------------------
LEMMA SInvInductive == SInv /\ [SNext]_svars => SInv'
<1> SUFFICES ASSUME SInv, [SNext]_svars PROVE SInv'
  OBVIOUS
<1>1. CASE Local
  BY <1>1, LocalStep
<1>2. ASSUME NEW n \in dataNet, NEW w \in Windows, RecvAck(n, w) PROVE SInv'
  BY <1>2, AckStep
<1>3. CASE UNCHANGED svars
  <2>1. STypeOK'
    <3>1. SNumbers'
      BY <1>3 DEF SInv, STypeOK, SNumbers, svars, wvars
    <3>2. SFlags'
      BY <1>3 DEF SInv, STypeOK, SFlags, svars, wvars, fvars
    <3> QED BY <3>1, <3>2, TypeParts
  <2>2. NoStrandedData' /\ HeadUnacked' /\ LeftLoopClosed'
    BY <1>3 DEF SInv, NoStrandedData, Stranded, FlushComes, HeadUnacked, LeftLoopClosed, svars, wvars, fvars
  <2> QED BY <2>1, <2>2 DEF SInv
<1> QED BY <1>1, <1>2, <1>3 DEF SNext

LEMMA SInvInitially == SInit => SInv
<1> SUFFICES ASSUME SInit PROVE SInv
  OBVIOUS
<1>1. SNumbers
  BY SendAssumption DEF SInit, SNumbers
<1>2. SFlags
  BY DEF SInit, SFlags
<1>3. NoStrandedData /\ HeadUnacked /\ LeftLoopClosed
  BY DEF SInit, NoStrandedData, Stranded, HeadUnacked, LeftLoopClosed
<1> QED BY <1>1, <1>2, <1>3, TypeParts DEF SInv

LEMMA SInvCorrect == SSpec => []SInv
BY SInvInitially, SInvInductive, PTL DEF SSpec

\* Variables keep their types, whatever the window; the head never overtakes the
\* tail, appBuffer never holds more than its size, only what is in `sent` is done.
THEOREM SendTypeCorrect == SSpec => []STypeOK
<1>1. SInv => STypeOK
  BY DEF SInv
<1> QED BY <1>1, SInvCorrect, PTL

\* Whatever the sends find in swnd: bytes are left in appBuffer with nothing in
\* flight and no flush coming only after a send that found no window at all.
THEOREM NothingStranded == SSpec => []NoStrandedData
<1>1. SInv => NoStrandedData
  BY DEF SInv
<1> QED BY <1>1, SInvCorrect, PTL

\* Acknowledged segments do not hold the head of the window.
THEOREM HeadIsUnacked == SSpec => []HeadUnacked
<1>1. SInv => HeadUnacked
  BY DEF SInv
<1> QED BY <1>1, SInvCorrect, PTL

-----------------------------------------------------------------------------
(* The bytes. *)

\* No segment is empty, and no byte gets lost before it is in a segment: until the
\* close, what was written is still to be pushed, or in appBuffer, or in a segment.
BytesAccounted ==
  /\ tSeq + appBuffer + wrest <= written
  /\ ~closed => written <= wrest + appBuffer + tSeq * MSS

BytesInv == BytesAccounted /\ (wpc = "idle" => wrest = 0)

\* k segments carry l bytes, none of them empty and none longer than MSS.
Cut(k, l) ==
  /\ k \in Nat /\ l \in Nat /\ k <= l /\ l <= k * MSS
  /\ appBuffer' = appBuffer - l /\ tSeq' = tSeq + k
  /\ UNCHANGED <<written, wrest, closed>>

LEMMA CutKeepsBytes ==
  ASSUME STypeOK, BytesInv, NEW k, NEW l, Cut(k, l), wpc' = "idle" => wpc = "idle" \/ wrest = 0
  PROVE  BytesInv'
<1>1. /\ tSeq \in Nat /\ appBuffer \in Nat /\ wrest \in Nat /\ written \in Nat /\ MSS \in Nat
      /\ k \in Nat /\ l \in Nat /\ k <= l /\ l <= k * MSS
  BY SendAssumption DEF STypeOK, Cut
<1>2. (tSeq + k) * MSS = tSeq * MSS + k * MSS
  BY <1>1
<1>3. tSeq' + appBuffer' + wrest' <= written'
  BY <1>1 DEF BytesInv, BytesAccounted, Cut
<1>4. ASSUME ~closed PROVE written <= wrest + (appBuffer - l) + (tSeq + k) * MSS
  <2>1. written <= wrest + appBuffer + tSeq * MSS
    BY <1>4 DEF BytesInv, BytesAccounted
  <2> DEFINE x == tSeq * MSS
             y == k * MSS
  <2>2. x \in Nat /\ y \in Nat
    BY <1>1
  <2> HIDE DEF x, y
  <2>3. l <= y /\ written <= wrest + appBuffer + x
    BY <1>1, <2>1 DEF x, y
  <2>4. written <= wrest + (appBuffer - l) + (x + y)
    BY <1>1, <2>2, <2>3
  <2> QED BY <1>2, <2>4 DEF x, y
<1>5. ~closed' => written' <= wrest' + appBuffer' + tSeq' * MSS
  BY <1>4 DEF Cut
<1>6. wpc' = "idle" => wrest' = 0
  BY DEF Cut, BytesInv
<1> QED BY <1>3, <1>5, <1>6 DEF BytesInv, BytesAccounted

\* send(readMSS) cuts full segments.
LEMMA SendCuts ==
  ASSUME STypeOK, NEW h \in hSeq .. tSeq, NEW w \in Windows, NEW again,
         SendAll(h, w, again) \/ SendAborted(h, w), UNCHANGED <<written, wrest, closed>>
  PROVE  \E k, l : Cut(k, l)
<1>1. PICK n \in 0 .. Sendable(h, w) : appBuffer' = appBuffer - n * MSS /\ tSeq' = tSeq + n
  <2>1. Sendable(h, w) \in Nat
    <3>1. appBuffer \in Nat /\ MSS \in Nat \ {0}
      BY SendAssumption DEF STypeOK
    <3>2. appBuffer \div MSS \in Nat
      BY <3>1, DivMod
    <3> QED BY <3>2, SendableFacts
  <2>2. CASE SendAll(h, w, again)
    BY <2>1, <2>2 DEF SendAll, Enqueue
  <2>3. CASE SendAborted(h, w)
    BY <2>1, <2>3 DEF SendAborted, Enqueue
  <2> QED BY <2>2, <2>3
<1>2. n \in Nat /\ n * MSS \in Nat /\ n <= n * MSS
  <2>1. n \in Nat /\ MSS \in Nat \ {0}
    BY <1>1, SendAssumption
  <2> QED BY <2>1
<1> QED BY <1>1, <1>2 DEF Cut

LEMMA BytesStep == SInv /\ BytesInv /\ [SNext]_svars => BytesInv'
<1> SUFFICES ASSUME SInv, BytesInv, [SNext]_svars PROVE BytesInv'
  OBVIOUS
<1>0. /\ STypeOK /\ tSeq \in Nat /\ hSeq \in Nat /\ appBuffer \in 0 .. AppBuffer /\ wrest \in Nat
      /\ AppBuffer \in Nat /\ MSS \in Nat \ {0} /\ MaxWritten \in Nat /\ written \in Nat
  BY SendAssumption DEF SInv, STypeOK
<1> DEFINE inSegments == tSeq * MSS
<1>a. inSegments \in Nat
  BY <1>0
<1>b. /\ wpc = "idle" => wrest = 0
      /\ tSeq + appBuffer + wrest <= written
      /\ ~closed => written <= wrest + appBuffer + inSegments
  BY DEF BytesInv, BytesAccounted
<1>c. ASSUME /\ tSeq' = tSeq /\ (closed' \/ ~closed)
             /\ wpc' = "idle" => wrest' = 0
             /\ tSeq + appBuffer' + wrest' <= written'
             /\ ~closed' => written' <= wrest' + appBuffer' + inSegments
      PROVE  BytesInv'
  BY <1>c DEF BytesInv, BytesAccounted
<1> HIDE DEF inSegments
<1>1. ASSUME NEW n \in 1 .. MaxWritten, WriteCall(n) PROVE BytesInv'
  BY <1>0, <1>a, <1>b, <1>c, <1>1 DEF WriteCall, fvars
<1>2. CASE WritePush
  <2>1. Lesser(AppBuffer - appBuffer, wrest) \in Nat
    BY <1>0, <1>2 DEF WritePush, Lesser
  <2> QED BY <1>0, <1>a, <1>b, <1>c, <1>2, <2>1 DEF WritePush, fvars
<1>3. CASE WriteFail
  BY <1>0, <1>a, <1>b, <1>c, <1>3 DEF WriteFail, fvars
<1>4. ASSUME NEW w \in Windows, WriteEvent(w) PROVE BytesInv'
  <2>1. hSeq \in hSeq .. tSeq
    BY <1>0 DEF STypeOK
  <2>2. PICK k, l : Cut(k, l)
    BY <1>0, <1>4, <2>1, SendCuts DEF WriteEvent, fvars
  <2> QED BY <1>0, <1>4, <2>2, CutKeepsBytes DEF WriteEvent
<1>5. ASSUME NEW n \in dataNet, NEW w \in Windows, RecvAck(n, w) PROVE BytesInv'
  <2> DEFINE d == done \cup {n}
  <2>2. PICK h \in hSeq .. tSeq :
          SendAborted(h, w) \/ \E again \in SUBSET Skipped(h, n, d) : SendAll(h, w, again)
    BY <1>5 DEF RecvAck
  <2>3. UNCHANGED <<written, wrest, closed, wpc>>
    BY <1>5 DEF RecvAck, wvars, fvars
  <2> HIDE DEF d
  <2>4. PICK k, l : Cut(k, l)
    BY <1>0, <2>2, <2>3, SendCuts
  <2> QED BY <1>0, <2>3, <2>4, CutKeepsBytes
<1>6. ASSUME NEW at, NEW goto, FlushStep(at, goto) PROVE BytesInv'
  <2> DEFINE l == Lesser(MSS, appBuffer)
  <2>1. l \in Nat /\ 1 <= l /\ l <= 1 * MSS
    BY <1>0, <1>6 DEF FlushStep, Lesser
  <2>2. appBuffer' = appBuffer - l /\ tSeq' = tSeq + 1 /\ UNCHANGED <<written, wrest, wpc, closed>>
    BY <1>6 DEF FlushStep, Enqueue, wvars
  <2> HIDE DEF l
  <2>3. Cut(1, l)
    BY <2>1, <2>2 DEF Cut
  <2> QED BY <1>0, <2>2, <2>3, CutKeepsBytes
<1>7. ASSUME UNCHANGED <<appBuffer, wvars, tSeq>>, closed' = closed \/ closed' PROVE BytesInv'
  BY <1>0, <1>a, <1>b, <1>c, <1>7 DEF wvars
<1>8. CASE Segments \/ TimerFire \/ FlushTick
  BY <1>7, <1>8 DEF Segments, Ticker, GiveUp, TimerFire, FlushTick, fvars
<1>9. CASE Flusher \/ LastTimeout
  BY <1>6, <1>7, <1>9 DEF Flusher, FlusherLocks, FlusherSends, FlushLock, FlushEnd, LastStart, LastLock, LastEnd,
    LastEmpty, LastTimeout, FlusherGoes
<1>10. CASE Close \/ CloseReturn \/ WaitAcked \/ WaitTimeout
  BY <1>7, <1>10 DEF Close, CloseReturn, WaitAcked, WaitTimeout, Finish
<1>11. CASE UNCHANGED svars
  BY <1>7, <1>11 DEF svars, fvars
<1> QED BY <1>1, <1>2, <1>3, <1>4, <1>5, <1>8, <1>9, <1>10, <1>11 DEF SNext, Local, WriteCalls, Waiting

\* BytesAccounted: however Write, the flushes, the acks and failing sends interleave.
THEOREM BytesAreAccounted == SSpec => []BytesAccounted
<1>1. SInit => BytesInv
  BY SendAssumption DEF SInit, BytesInv, BytesAccounted
<1>2. BytesInv => BytesAccounted
  BY DEF BytesInv
<1> QED BY <1>1, <1>2, SInvInitially, SInvInductive, BytesStep, PTL DEF SSpec
=============================================================================
