--------------------------- MODULE TransportProofs ---------------------------
(***************************************************************************)
(* Proofs about Transport, for every size of the sequence space, of the    *)
(* windows and of the buffers: as long as the stream is not broken, it is  *)
(* a reliable stream.                                                      *)
(*                                                                         *)
(* The invariant says where a segment is: dropped by the sender only if it *)
(* was acknowledged, acknowledged only if the receiver has it, stored by   *)
(* the receiver only under its own number and within the window.           *)
(***************************************************************************)
EXTENDS Transport, SendWindowProofs

\* Two ordinals less than SeqMod apart have different numbers on the wire.
LEMMA WireInjective ==
  ASSUME NEW a \in Nat, NEW b \in Nat, Wire(a) = Wire(b), a - b < SeqMod, b - a < SeqMod
  PROVE  a = b
<1>1. \A x, y \in Nat : x <= y /\ y - x < SeqMod /\ x % SeqMod = y % SeqMod => x = y
  <2> SUFFICES ASSUME NEW x \in Nat, NEW y \in Nat,
                      x <= y, y - x < SeqMod, x % SeqMod = y % SeqMod
               PROVE  x = y
    OBVIOUS
  <2> DEFINE p == x \div SeqMod
             q == y \div SeqMod
             r == x % SeqMod
  <2>1. /\ p \in Nat /\ q \in Nat /\ r \in 0 .. SeqMod - 1
        /\ x = SeqMod * p + r /\ y = SeqMod * q + (y % SeqMod)
    BY DivMod, SeqAssumption
  <2>2. y = SeqMod * q + r
    BY <2>1
  <2>3. SeqMod \in Nat \ {0}
    BY SeqAssumption
  <2> HIDE DEF p, q, r
  <2>4. y - x = SeqMod * (q - p)
    BY <2>1, <2>2, <2>3
  <2>5. q - p < 1
    BY <2>1, <2>3, <2>4
  <2>6. q - p >= 0
    BY <2>1, <2>3, <2>4
  <2>7. q = p
    BY <2>1, <2>5, <2>6
  <2> QED BY <2>1, <2>2, <2>7
<1>2. a <= b \/ b <= a
  OBVIOUS
<1> QED BY <1>1, <1>2 DEF Wire

LEMMA NotMore ==
  ASSUME NEW a \in Int, NEW b \in Int, NEW c \in Int, ~(a - b > c)
  PROVE  a - b <= c
OBVIOUS

LEMMA BelowOrBetween ==
  ASSUME NEW a \in Int, NEW b \in Int, NEW c \in Int, a < c
  PROVE  a < b \/ a \in b .. c - 1
OBVIOUS

LEMMA WireRange ==
  ASSUME NEW a \in Nat
  PROVE  Wire(a) \in Seqs
BY SeqAssumption DEF Wire, Seqs

-----------------------------------------------------------------------------
\* What a step of the sender alone does, if it gives no segment up.
LEMMA LocalKeeps ==
  ASSUME SInv, Local, ~gaveUp'
  PROVE  hSeq' = hSeq /\ done' = done /\ tSeq' \in Nat /\ tSeq <= tSeq' /\ ~gaveUp
<1>0. tSeq \in Nat /\ gaveUp \in BOOLEAN
  BY DEF SInv, STypeOK
<1>1. ASSUME NEW n \in 1 .. MaxWritten, WriteCall(n) PROVE UNCHANGED <<hSeq, tSeq, done, gaveUp>>
  BY <1>1 DEF WriteCall
<1>2. ASSUME WritePush \/ WriteFail PROVE UNCHANGED <<hSeq, tSeq, done, gaveUp>>
  BY <1>2 DEF WritePush, WriteFail
<1>3. ASSUME NEW w \in Windows, WriteEvent(w)
      PROVE  UNCHANGED <<hSeq, done, gaveUp>> /\ tSeq' \in Nat /\ tSeq <= tSeq'
  <2>1. hSeq \in hSeq .. tSeq /\ {} \in SUBSET (hSeq .. tSeq - 1)
    BY DEF SInv, STypeOK
  <2>2. SendAll(hSeq, w, {}) \/ SendAborted(hSeq, w)
    BY <1>3 DEF WriteEvent
  <2>3. tSeq' \in Nat /\ tSeq <= tSeq'
    BY <2>1, <2>2, SendFacts DEF SInv
  <2> QED BY <1>3, <2>3 DEF WriteEvent
<1>4. ASSUME NEW n \in Live, Ticker(n) PROVE UNCHANGED <<hSeq, tSeq, done, gaveUp>>
  BY <1>4 DEF Ticker
<1>5. ASSUME NEW n \in Live, GiveUp(n) PROVE FALSE
  BY <1>5 DEF GiveUp
<1>6. ASSUME NEW at, NEW goto, FlushStep(at, goto)
      PROVE  UNCHANGED <<hSeq, done, gaveUp>> /\ tSeq' = tSeq + 1
  BY <1>6 DEF FlushStep, Enqueue
<1>7. ASSUME NEW from, NEW to, FlusherGoes(from, to) PROVE UNCHANGED <<hSeq, tSeq, done, gaveUp>>
  BY <1>7 DEF FlusherGoes
<1>8. ASSUME TimerFire \/ FlushTick \/ Finish \/ Close \/ CloseReturn
      PROVE  UNCHANGED <<hSeq, tSeq, done, gaveUp>>
  BY <1>8 DEF TimerFire, FlushTick, Finish, Close, CloseReturn
<1> QED
  BY <1>0, <1>1, <1>2, <1>3, <1>4, <1>5, <1>6, <1>7, <1>8
     DEF Local, WriteCalls, Segments, Flusher, FlusherLocks, FlusherSends, Waiting,
         FlushLock, FlushEnd, LastStart, LastLock, LastEnd, LastEmpty, LastTimeout,
         WaitAcked, WaitTimeout

\* What an ack drops: segments that were done, and the one it is for.
LEMMA AckKeeps ==
  ASSUME SInv, NEW n, NEW w \in Windows, RecvAck(n, w)
  PROVE  /\ n \in hSeq .. tSeq - 1 /\ gaveUp' = gaveUp
         /\ hSeq' \in hSeq .. tSeq /\ done' \subseteq done \cup {n}
         /\ hSeq .. hSeq' - 1 \subseteq done \cup {n}
         /\ tSeq' \in Nat /\ tSeq <= tSeq'
<1> DEFINE d == done \cup {n}
<1>1. n \in hSeq .. tSeq - 1 /\ gaveUp' = gaveUp
  BY DEF RecvAck
<1>2. PICK h \in hSeq .. tSeq :
        /\ Trims(h, d)
        /\ hSeq' = h
        /\ done' = d \ (hSeq .. h - 1)
        /\ \/ SendAborted(h, w)
           \/ \E again \in SUBSET Skipped(h, n, d) : SendAll(h, w, again)
  BY DEF RecvAck
<1>3. hSeq \in Nat /\ tSeq \in Nat
  BY DEF SInv, STypeOK
<1>4. Skipped(h, n, d) \subseteq hSeq .. tSeq - 1
  BY <1>1, <1>3, SendAssumption DEF Skipped
<1>5. PICK again \in SUBSET (hSeq .. tSeq - 1) : SendAll(h, w, again) \/ SendAborted(h, w)
  BY <1>2, <1>4
<1>6. tSeq' \in Nat /\ tSeq <= tSeq'
  BY <1>5, SendFacts DEF SInv
<1>7. hSeq .. hSeq' - 1 \subseteq d
  BY <1>2 DEF Trims
<1> QED BY <1>1, <1>2, <1>6, <1>7

-----------------------------------------------------------------------------
\* The receiver's types.
LEMMA RTypeInit ==
  ASSUME RInit
  PROVE  RTypeOK
<1>1. delivered \in Seq(Nat) /\ Len(delivered) = 0
  BY DEF RInit
<1>2. consumed \in 0 .. Len(delivered) /\ Buffered <= ReadBuffer
  BY <1>1, ReadAssumption DEF RInit, Buffered
<1>3. recved \in [Seqs -> Nat \cup {Nil}]
  BY DEF RInit
<1> QED BY <1>1, <1>2, <1>3 DEF RInit, RTypeOK

LEMMA RecvType ==
  ASSUME RTypeOK, NEW n \in Nat, Recv(n)
  PROVE  RTypeOK'
<1>1. Wire(n) \in Seqs
  BY WireRange
<1>2. recved' \in [Seqs -> Nat \cup {Nil}] /\ ackNet' \subseteq Nat /\ cur' \in Nat
      /\ rpc' \in {"idle", "drain"}
  BY <1>1 DEF Recv, RTypeOK
<1> QED BY <1>2 DEF Recv, RTypeOK, Buffered

LEMMA RLocalType ==
  ASSUME RTypeOK, RLocal
  PROVE  RTypeOK'
<1> USE DEF RTypeOK
<1>1. CASE Push
  <2> DEFINE s == Wire(tailSeq)
  <2>1. s \in Seqs /\ recved[s] \in Nat
    BY <1>1, WireRange DEF Push
  <2>2. recved' \in [Seqs -> Nat \cup {Nil}] /\ tailSeq' \in Nat
    BY <1>1, <2>1 DEF Push
  <2>3. delivered' \in Seq(Nat) /\ Len(delivered') = Len(delivered) + 1
    BY <1>1, <2>1 DEF Push
  <2>4. consumed' \in 0 .. Len(delivered') /\ Len(delivered') - consumed' <= ReadBuffer
    BY <1>1, <2>3, ReadAssumption DEF Push, Room, Buffered
  <2> QED BY <1>1, <2>2, <2>3, <2>4 DEF Push, Buffered
<1>2. CASE Ack
  BY <1>2 DEF Ack, Buffered
<1>3. CASE Read
  <2>1. Len(delivered) \in Nat
    OBVIOUS
  <2>2. consumed' \in 0 .. Len(delivered') /\ Len(delivered') - consumed' <= ReadBuffer
    BY <1>3, <2>1, ReadAssumption DEF Read, Buffered
  <2> QED BY <1>3, <2>2 DEF Read, Buffered
<1>4. CASE ReadEOF \/ RClose
  BY <1>4 DEF ReadEOF, RClose, Buffered
<1> QED BY <1>1, <1>2, <1>3, <1>4 DEF RLocal, Receiving

-----------------------------------------------------------------------------
\* The invariant of an unbroken stream.
Stored ==
  \A s \in Seqs : recved[s] # Nil =>
    /\ Wire(recved[s]) = s
    /\ tailSeq <= recved[s] /\ recved[s] < tailSeq + RecWin /\ recved[s] < tSeq
Delivered ==
  Len(delivered) = tailSeq /\ \A i \in 1 .. Len(delivered) : delivered[i] = i - 1
AckedIsHeld == \A a \in ackNet : a < tSeq /\ Has(a)
CurIsHeld == rpc = "drain" => cur < tSeq /\ Has(cur)
DroppedIsAcked == \A n \in 0 .. tSeq - 1 : Dropped(n) => n \in ackNet

\* While the receiver is open, the segment it waits for is missing, except in
\* the loop of recv that was started by that segment, not acknowledged yet.
Missing == recved[Wire(tailSeq)] = Nil
NextIsMissing ==
  ~rclosed => Missing \/ (rpc = "drain" /\ cur \notin ackNet /\ cur <= tailSeq)

Unharmed ==
  /\ tSeq - hSeq <= RecWin
  /\ tailSeq <= tSeq
  /\ Stored /\ Delivered
  /\ AckedIsHeld /\ CurIsHeld /\ DroppedIsAcked
  /\ NextIsMissing

TInv ==
  /\ SInv
  /\ RTypeOK
  /\ overrun \in BOOLEAN
  /\ ~Broken => Unharmed

\* An open receiver is never passed by the head of the sender.
LEMMA HeadBehindTail ==
  ASSUME STypeOK, RTypeOK, Unharmed, ~rclosed
  PROVE  hSeq <= tailSeq
<1>0. hSeq \in Nat /\ tSeq \in Nat /\ hSeq <= tSeq /\ tailSeq \in Nat /\ cur \in Nat
  BY DEF STypeOK, RTypeOK
<1>1. CASE Missing
  <2> SUFFICES ASSUME tailSeq < hSeq PROVE FALSE
    BY <1>0
  <2>1. tailSeq \in 0 .. tSeq - 1 /\ Dropped(tailSeq)
    BY <1>0 DEF Dropped
  <2>2. Has(tailSeq)
    BY <2>1 DEF Unharmed, DroppedIsAcked, AckedIsHeld
  <2> QED BY <1>0, <1>1, <2>2 DEF Missing, Has, Nil
<1>2. CASE rpc = "drain" /\ cur \notin ackNet /\ cur <= tailSeq
  <2>1. cur \in 0 .. tSeq - 1
    BY <1>0, <1>2 DEF Unharmed, CurIsHeld
  <2>2. ~Dropped(cur)
    BY <1>2, <2>1 DEF Unharmed, DroppedIsAcked
  <2> QED BY <1>0, <1>2, <2>2 DEF Dropped
<1> QED BY <1>1, <1>2 DEF Unharmed, NextIsMissing

\* The number of an arriving segment tells it from every other that is possible.
LEMMA LegalIsInWindow ==
  ASSUME STypeOK, RTypeOK, Unharmed, ~rclosed, NEW n \in Nat, n < tSeq, Young(n)
  PROVE  /\ LegalSeqN(Wire(n)) => tailSeq <= n /\ n < tailSeq + RecWin
         /\ ~LegalSeqN(Wire(n)) => n < tailSeq
<1>0. /\ hSeq \in Nat /\ tSeq \in Nat /\ tailSeq \in Nat /\ hSeq <= tailSeq /\ tailSeq <= tSeq
      /\ tSeq - hSeq <= RecWin /\ tSeq - n <= SeqMod - RecWin
      /\ SeqMod \in Nat /\ RecWin \in Nat /\ RecWin < SeqMod
  BY HeadBehindTail, SeqAssumption, NetworkAssumption DEF STypeOK, RTypeOK, Unharmed, Young
<1>1. ASSUME LegalSeqN(Wire(n)) PROVE tailSeq <= n /\ n < tailSeq + RecWin
  <2>1. PICK i \in 0 .. RecWin - 1 : Wire(n) = Wire(tailSeq + i)
    BY <1>1 DEF LegalSeqN
  <2>2. /\ tailSeq + i \in Nat
        /\ n - (tailSeq + i) < SeqMod /\ (tailSeq + i) - n < SeqMod
    BY <1>0
  <2>3. n = tailSeq + i
    BY <2>1, <2>2, WireInjective
  <2> QED BY <1>0, <2>3
<1>2. ASSUME ~LegalSeqN(Wire(n)) PROVE n < tailSeq
  <2> SUFFICES ASSUME tailSeq <= n PROVE LegalSeqN(Wire(n))
    BY <1>0, <1>2
  <2>1. n - tailSeq \in 0 .. RecWin - 1 /\ tailSeq + (n - tailSeq) = n
    BY <1>0
  <2> QED BY <2>1 DEF LegalSeqN
<1> QED BY <1>1, <1>2
-----------------------------------------------------------------------------
LEMMA TInvInitially ==
  ASSUME TInit
  PROVE  TInv
<1>1. SInv
  BY SInvInitially DEF TInit
<1>2. RTypeOK
  BY RTypeInit DEF TInit
<1>3. /\ hSeq = 0 /\ tSeq = 0 /\ done = {} /\ tailSeq = 0 /\ rpc = "idle" /\ ackNet = {}
      /\ recved = [s \in Seqs |-> Nil] /\ delivered = <<>> /\ overrun = FALSE
  BY DEF TInit, SInit, RInit
<1>4. Stored /\ AckedIsHeld /\ CurIsHeld /\ DroppedIsAcked
  BY <1>3 DEF Stored, AckedIsHeld, CurIsHeld, DroppedIsAcked
<1>5. Delivered
  BY <1>3 DEF Delivered
<1>6. NextIsMissing
  BY <1>3, WireRange DEF NextIsMissing, Missing
<1>7. tSeq - hSeq <= RecWin /\ tailSeq <= tSeq
  BY <1>3, SeqAssumption
<1> QED BY <1>1, <1>2, <1>3, <1>4, <1>5, <1>6, <1>7 DEF TInv, Unharmed

\* What the sender does to the invariant: the tail may grow, and what is newly
\* dropped was acknowledged.
LEMMA SenderKeeps ==
  ASSUME STypeOK, RTypeOK, Unharmed, UNCHANGED rvars,
         tSeq' \in Nat, tSeq <= tSeq', tSeq' - hSeq' <= RecWin,
         \A n \in 0 .. tSeq' - 1 : Dropped(n)' => Dropped(n) \/ n \in ackNet
  PROVE  Unharmed'
<1>0. /\ tSeq \in Nat /\ tailSeq \in Nat /\ ackNet \subseteq Nat /\ cur \in Nat /\ hSeq \in Nat
      /\ hSeq <= tSeq /\ done \subseteq hSeq .. tSeq - 1
      /\ recved \in [Seqs -> Nat \cup {Nil}]
  BY DEF STypeOK, RTypeOK
<1>1. UNCHANGED <<tailSeq, recved, delivered, rclosed, rpc, cur, ackNet>>
  BY DEF rvars
<1>2. Stored'
  <2> SUFFICES ASSUME NEW s \in Seqs, recved[s] # Nil
               PROVE  /\ Wire(recved[s]) = s
                      /\ tailSeq <= recved[s] /\ recved[s] < tailSeq + RecWin /\ recved[s] < tSeq'
    BY <1>1 DEF Stored
  <2>1. recved[s] \in Nat
    BY <1>0
  <2> QED BY <1>0, <2>1 DEF Unharmed, Stored
<1>3. Delivered' /\ NextIsMissing'
  BY <1>1 DEF Unharmed, Delivered, NextIsMissing, Missing
<1>4. AckedIsHeld' /\ CurIsHeld'
  <2>1. \A a \in Nat : a < tSeq => a < tSeq'
    BY <1>0
  <2>2. \A a : Has(a)' <=> Has(a)
    BY <1>1 DEF Has
  <2> QED BY <1>0, <1>1, <2>1, <2>2 DEF Unharmed, AckedIsHeld, CurIsHeld
<1>5. DroppedIsAcked'
  <2> SUFFICES ASSUME NEW n \in 0 .. tSeq' - 1, Dropped(n)' PROVE n \in ackNet
    BY <1>1 DEF DroppedIsAcked
  <2>1. CASE Dropped(n)
    <3>1. n \in 0 .. tSeq - 1
      BY <1>0, <2>1 DEF Dropped
    <3> QED BY <2>1, <3>1 DEF Unharmed, DroppedIsAcked
  <2> QED BY <2>1
<1>6. tailSeq' <= tSeq'
  BY <1>0, <1>1 DEF Unharmed
<1> QED BY <1>2, <1>3, <1>4, <1>5, <1>6 DEF Unharmed
LEMMA SenderStepKeeps ==
  ASSUME TInv, SenderStep
  PROVE  TInv'
<1>1. SInv'
  BY LocalStep DEF TInv, SenderStep
<1>2. RTypeOK'
  BY DEF TInv, SenderStep, rvars, RTypeOK, Buffered
<1>3. overrun' \in BOOLEAN
  BY DEF SenderStep, Overruns, TInv
<1>4. ASSUME ~Broken' PROVE Unharmed'
  <2>1. /\ hSeq' = hSeq /\ done' = done /\ tSeq' \in Nat /\ tSeq <= tSeq' /\ ~gaveUp
    BY <1>4, LocalKeeps DEF TInv, SenderStep, Broken
  <2>2. ~overrun /\ ~(tSeq' - hSeq' > RecWin)
    BY <1>4 DEF SenderStep, Overruns, Broken
  <2>3. tSeq' - hSeq' <= RecWin
    <3>1. tSeq' \in Int /\ hSeq' \in Int /\ RecWin \in Int
      BY <1>1, SeqAssumption DEF SInv, STypeOK
    <3> QED BY <2>2, <3>1, NotMore
  <2>4. STypeOK /\ RTypeOK /\ Unharmed /\ UNCHANGED rvars
    BY <2>1, <2>2 DEF TInv, SInv, Broken, SenderStep
  <2>5. \A n : Dropped(n)' <=> Dropped(n)
    BY <2>1 DEF Dropped
  <2> QED BY <2>1, <2>3, <2>4, <2>5, SenderKeeps
<1> QED BY <1>1, <1>2, <1>3, <1>4 DEF TInv

\* An ack carries 16 bits, and still is for the segment it was sent for.
LEMMA AckArrivesKeeps ==
  ASSUME TInv, NEW a \in ackNet, AckArrives(a)
  PROVE  TInv'
<1>1. PICK n \in hSeq .. tSeq - 1, w \in Windows : Wire(n) = Wire(a) /\ RecvAck(n, w)
  BY DEF AckArrives
<1>2. SInv'
  BY <1>1, AckStep DEF TInv
<1>3. RTypeOK'
  BY DEF TInv, AckArrives, rvars, RTypeOK, Buffered
<1>4. overrun' \in BOOLEAN
  BY DEF AckArrives, Overruns, TInv
<1>5. ASSUME ~Broken' PROVE Unharmed'
  <2>1. /\ gaveUp' = gaveUp /\ hSeq' \in hSeq .. tSeq /\ done' \subseteq done \cup {n}
        /\ hSeq .. hSeq' - 1 \subseteq done \cup {n}
        /\ tSeq' \in Nat /\ tSeq <= tSeq'
    BY <1>1, AckKeeps DEF TInv
  <2>2. ~gaveUp /\ ~overrun /\ ~(tSeq' - hSeq' > RecWin)
    BY <1>5, <2>1 DEF AckArrives, Overruns, Broken
  <2>3. tSeq' - hSeq' <= RecWin
    <3>1. tSeq' \in Int /\ hSeq' \in Int /\ RecWin \in Int
      BY <1>2, SeqAssumption DEF SInv, STypeOK
    <3> QED BY <2>2, <3>1, NotMore
  <2>4. STypeOK /\ RTypeOK /\ Unharmed /\ UNCHANGED rvars
    BY <2>2 DEF TInv, SInv, Broken, AckArrives
  <2>5. /\ hSeq \in Nat /\ tSeq \in Nat /\ a \in Nat /\ a < tSeq /\ n \in Nat
        /\ tSeq - hSeq <= RecWin /\ tSeq - a <= SeqMod - RecWin
        /\ SeqMod \in Nat /\ RecWin \in Nat \ {0} /\ RecWin < SeqMod
    BY <2>4, SeqAssumption, NetworkAssumption
       DEF STypeOK, RTypeOK, Unharmed, AckedIsHeld, AckArrives, Young
  <2>6. n - a < SeqMod /\ a - n < SeqMod
    BY <2>5
  <2>7. n = a
    BY <1>1, <2>5, <2>6, WireInjective
  <2>8. ASSUME NEW m \in 0 .. tSeq' - 1, Dropped(m)' PROVE Dropped(m) \/ m \in ackNet
    <3>1. m < hSeq' => m < hSeq \/ m \in hSeq .. hSeq' - 1
      <4>1. m \in Int /\ hSeq \in Int /\ hSeq' \in Int
        BY <1>2, <2>5 DEF SInv, STypeOK
      <4> QED BY <4>1, BelowOrBetween
    <3>2. m < hSeq \/ m \in done \cup {n}
      BY <2>1, <2>8, <3>1 DEF Dropped
    <3> QED BY <2>7, <3>2 DEF Dropped
  <2> QED BY <2>1, <2>3, <2>4, <2>8, SenderKeeps
<1> QED BY <1>2, <1>3, <1>4, <1>5 DEF TInv

\* A stored segment has its number for itself.
LEMMA StoredIsUnique ==
  ASSUME RTypeOK, Unharmed, NEW n \in Nat, tailSeq <= n, n < tailSeq + RecWin,
         recved[Wire(n)] # Nil
  PROVE  recved[Wire(n)] = n
<1> DEFINE m == recved[Wire(n)]
<1>1. Wire(n) \in Seqs
  BY WireRange
<1>2. m \in Nat /\ Wire(m) = Wire(n) /\ tailSeq <= m /\ m < tailSeq + RecWin
  BY <1>1 DEF Unharmed, Stored, RTypeOK
<1> HIDE DEF m
<1>3. m - n < SeqMod /\ n - m < SeqMod
  BY <1>2, SeqAssumption DEF RTypeOK
<1>4. m = n
  BY <1>2, <1>3, WireInjective
<1> QED BY <1>4 DEF m

LEMMA ReceiverKeeps ==
  ASSUME TInv, UNCHANGED svars, UNCHANGED overrun, RTypeOK',
         STypeOK /\ RTypeOK /\ Unharmed => Unharmed'
  PROVE  TInv'
<1>1. SInv'
  BY SInvInductive DEF TInv
<1>2. Broken' <=> Broken
  BY DEF Broken, svars
<1> QED BY <1>1, <1>2 DEF TInv, SInv

LEMMA DataArrivesKeeps ==
  ASSUME TInv, NEW n \in dataNet, DataArrives(n)
  PROVE  TInv'
<1>1. n \in Nat /\ n < tSeq
  BY DEF TInv, SInv, STypeOK
<1>2. UNCHANGED svars /\ UNCHANGED overrun /\ Recv(n) /\ Young(n)
  BY DEF DataArrives
<1>3. RTypeOK'
  BY <1>1, <1>2, RecvType DEF TInv
<1>4. UNCHANGED <<hSeq, tSeq, done>>
  BY <1>2 DEF svars
<1>5. ASSUME STypeOK, RTypeOK, Unharmed PROVE Unharmed'
  <2>1. /\ rpc = "idle" /\ ~rclosed
        /\ UNCHANGED <<tailSeq, delivered, rclosed>>
        /\ Missing
    BY <1>2, <1>5 DEF Recv, Unharmed, NextIsMissing
  <2>2. /\ LegalSeqN(Wire(n)) => tailSeq <= n /\ n < tailSeq + RecWin
        /\ ~LegalSeqN(Wire(n)) => n < tailSeq
    BY <1>1, <1>2, <1>5, <2>1, LegalIsInWindow
  <2>3. Wire(n) \in Seqs /\ Nil \notin Nat /\ tailSeq \in Nat
        /\ recved \in [Seqs -> Nat \cup {Nil}] /\ ackNet \subseteq Nat
    BY <1>1, <1>5, WireRange DEF RTypeOK, Nil
  <2>4. Delivered' /\ tSeq' - hSeq' <= RecWin /\ tailSeq' <= tSeq'
    BY <1>4, <1>5, <2>1 DEF Unharmed, Delivered
  <2>5. CASE ~LegalSeqN(Wire(n))
    <3>1. ackNet' = ackNet \cup {n} /\ UNCHANGED <<recved, rpc, cur>>
      BY <1>2, <2>5 DEF Recv
    <3>2. Has(n) /\ \A a : Has(a)' <=> Has(a)
      BY <2>1, <2>2, <2>5, <3>1 DEF Has
    <3>3. AckedIsHeld'
      BY <1>1, <1>4, <1>5, <3>1, <3>2 DEF Unharmed, AckedIsHeld
    <3>4. Stored'
      BY <1>4, <1>5, <2>1, <3>1 DEF Unharmed, Stored
    <3>5. CurIsHeld' /\ NextIsMissing'
      BY <2>1, <3>1 DEF CurIsHeld, NextIsMissing, Missing
    <3>6. DroppedIsAcked'
      BY <1>4, <1>5, <3>1 DEF Unharmed, DroppedIsAcked, Dropped
    <3> QED BY <2>4, <3>3, <3>4, <3>5, <3>6 DEF Unharmed
  <2>6. CASE LegalSeqN(Wire(n))
    <3>1. /\ recved' = [recved EXCEPT ![Wire(n)] = n]
          /\ rpc' = "drain" /\ cur' = n /\ ackNet' = ackNet
      BY <1>2, <2>6 DEF Recv
    <3>2. recved'[Wire(n)] = n /\ \A s \in Seqs : s # Wire(n) => recved'[s] = recved[s]
      BY <2>3, <3>1
    <3>3. ASSUME NEW a \in Nat, Has(a) PROVE Has(a)'
      <4>1. CASE a < tailSeq
        BY <2>1, <4>1 DEF Has
      <4>2. CASE recved[Wire(a)] = a /\ Wire(a) = Wire(n)
        <5>1. recved[Wire(n)] = n
          BY <1>1, <1>5, <2>2, <2>3, <2>6, <4>2, StoredIsUnique
        <5> QED BY <3>2, <4>2, <5>1 DEF Has
      <4>3. CASE recved[Wire(a)] = a /\ Wire(a) # Wire(n)
        <5>1. Wire(a) \in Seqs
          BY WireRange
        <5> QED BY <3>2, <4>3, <5>1 DEF Has
      <4> QED BY <3>3, <4>1, <4>2, <4>3 DEF Has
    <3>4. AckedIsHeld'
      BY <1>4, <1>5, <2>3, <3>1, <3>3 DEF Unharmed, AckedIsHeld
    <3>5. CurIsHeld'
      BY <1>1, <1>4, <3>1, <3>2 DEF CurIsHeld, Has
    <3>6. DroppedIsAcked'
      BY <1>4, <1>5, <3>1 DEF Unharmed, DroppedIsAcked, Dropped
    <3>7. Stored'
      <4> SUFFICES ASSUME NEW s \in Seqs, recved'[s] # Nil
                   PROVE  /\ Wire(recved'[s]) = s
                          /\ tailSeq <= recved'[s] /\ recved'[s] < tailSeq + RecWin
                          /\ recved'[s] < tSeq
        BY <1>4, <2>1 DEF Stored
      <4>1. CASE s = Wire(n)
        BY <1>1, <2>2, <2>6, <3>2, <4>1
      <4>2. CASE s # Wire(n)
        BY <1>5, <3>2, <4>2 DEF Unharmed, Stored
      <4> QED BY <4>1, <4>2
    <3>8. NextIsMissing'
      <4>1. CASE n = tailSeq
        <5>1. n \notin ackNet
          BY <1>5, <2>1, <2>3, <4>1 DEF Unharmed, AckedIsHeld, Has, Missing
        <5> QED BY <2>1, <2>3, <3>1, <4>1, <5>1 DEF NextIsMissing
      <4>2. CASE n # tailSeq
        <5>1. n - tailSeq < SeqMod /\ tailSeq - n < SeqMod
          BY <1>1, <2>2, <2>3, <2>6, SeqAssumption
        <5>2. Wire(n) # Wire(tailSeq)
          BY <1>1, <2>3, <4>2, <5>1, WireInjective
        <5>3. Wire(tailSeq) \in Seqs
          BY <2>3, WireRange
        <5> QED BY <2>1, <3>2, <5>2, <5>3 DEF NextIsMissing, Missing
      <4> QED BY <4>1, <4>2
    <3> QED BY <2>4, <3>4, <3>5, <3>6, <3>7, <3>8 DEF Unharmed
  <2> QED BY <2>5, <2>6
<1> QED BY <1>2, <1>3, <1>5, ReceiverKeeps
\* recv pushes the segment it waits for, and no other.
LEMMA PushFacts ==
  ASSUME RTypeOK, Unharmed, Push
  PROVE  recved[Wire(tailSeq)] = tailSeq /\ tailSeq < tSeq
<1>0. tailSeq \in Nat /\ RecWin \in Nat \ {0} /\ recved[Wire(tailSeq)] # Nil
  BY SeqAssumption DEF RTypeOK, Push
<1>1. tailSeq < tailSeq + RecWin /\ tailSeq <= tailSeq
  BY <1>0
<1>2. recved[Wire(tailSeq)] = tailSeq
  BY <1>0, <1>1, StoredIsUnique
<1>3. Wire(tailSeq) \in Seqs
  BY <1>0, WireRange
<1> QED BY <1>0, <1>2, <1>3 DEF Unharmed, Stored

LEMMA PushKeeps ==
  ASSUME STypeOK, RTypeOK, Unharmed, Push, UNCHANGED svars
  PROVE  Unharmed'
<1> DEFINE s == Wire(tailSeq)
<1>0. /\ recved[s] = tailSeq /\ tailSeq < tSeq /\ tailSeq \in Nat /\ tSeq \in Nat
      /\ s \in Seqs /\ Nil \notin Nat /\ recved \in [Seqs -> Nat \cup {Nil}]
      /\ RecWin \in Nat /\ ackNet \subseteq Nat /\ cur \in Nat /\ delivered \in Seq(Nat)
  BY PushFacts, WireRange, SeqAssumption DEF RTypeOK, STypeOK, Nil
<1>1. UNCHANGED <<hSeq, tSeq, done, rclosed, rpc, cur, ackNet>>
  BY DEF svars, Push
<1>2. /\ rpc = "drain" /\ tailSeq' = tailSeq + 1
      /\ delivered' = Append(delivered, tailSeq)
      /\ recved' = [recved EXCEPT ![s] = Nil]
  BY <1>0 DEF Push
<1>3. recved'[s] = Nil /\ \A r \in Seqs : r # s => recved'[r] = recved[r]
  BY <1>0, <1>2
<1> HIDE DEF s
<1>4. ASSUME NEW a \in Nat, Has(a) PROVE Has(a)'
  <2>1. CASE a < tailSeq
    BY <1>0, <1>2, <2>1 DEF Has
  <2>2. CASE recved[Wire(a)] = a /\ Wire(a) = s
    BY <1>0, <1>2, <2>2 DEF Has
  <2>3. CASE recved[Wire(a)] = a /\ Wire(a) # s
    <3>1. Wire(a) \in Seqs
      BY WireRange
    <3> QED BY <1>3, <2>3, <3>1 DEF Has
  <2> QED BY <1>4, <2>1, <2>2, <2>3 DEF Has
<1>5. AckedIsHeld' /\ CurIsHeld' /\ DroppedIsAcked'
  BY <1>0, <1>1, <1>4 DEF Unharmed, AckedIsHeld, CurIsHeld, DroppedIsAcked, Dropped
<1>6. Stored'
  <2> SUFFICES ASSUME NEW r \in Seqs, recved'[r] # Nil
               PROVE  /\ Wire(recved'[r]) = r
                      /\ tailSeq + 1 <= recved'[r] /\ recved'[r] < tailSeq + 1 + RecWin
                      /\ recved'[r] < tSeq
    BY <1>1, <1>2 DEF Stored
  <2>1. r # s /\ recved'[r] = recved[r]
    BY <1>3
  <2>2. /\ Wire(recved[r]) = r /\ recved[r] \in Nat
        /\ tailSeq <= recved[r] /\ recved[r] < tailSeq + RecWin /\ recved[r] < tSeq
    BY <1>0, <2>1 DEF Unharmed, Stored
  <2>3. recved[r] # tailSeq
    BY <2>1, <2>2 DEF s
  <2> QED BY <1>0, <2>1, <2>2, <2>3
<1>7. Delivered'
  <2>1. Len(delivered) = tailSeq /\ \A i \in 1 .. Len(delivered) : delivered[i] = i - 1
    BY DEF Unharmed, Delivered
  <2>2. /\ Len(delivered') = tailSeq + 1 /\ delivered'[tailSeq + 1] = tailSeq
        /\ \A i \in 1 .. tailSeq : delivered'[i] = delivered[i]
    BY <1>0, <1>2, <2>1
  <2>3. \A i \in 1 .. tailSeq + 1 : i \in 1 .. tailSeq \/ i = tailSeq + 1
    BY <1>0
  <2>4. \A i \in 1 .. tailSeq + 1 : delivered'[i] = i - 1
    BY <1>0, <2>1, <2>2, <2>3
  <2> QED BY <1>2, <2>2, <2>4 DEF Delivered
<1>8. NextIsMissing'
  <2>1. ASSUME ~rclosed PROVE cur \notin ackNet /\ cur <= tailSeq
    BY <1>0, <2>1 DEF Unharmed, NextIsMissing, Missing, s
  <2>2. cur <= tailSeq => cur <= tailSeq'
    BY <1>0, <1>2
  <2> QED BY <1>1, <1>2, <2>1, <2>2 DEF NextIsMissing
<1>9. tSeq' - hSeq' <= RecWin /\ tailSeq' <= tSeq'
  BY <1>0, <1>1, <1>2 DEF Unharmed
<1> QED BY <1>5, <1>6, <1>7, <1>8, <1>9 DEF Unharmed

LEMMA ReceiverStepKeeps ==
  ASSUME TInv, ReceiverStep
  PROVE  TInv'
<1>1. RLocal /\ UNCHANGED svars /\ UNCHANGED overrun
  BY DEF ReceiverStep
<1>2. RTypeOK'
  BY <1>1, RLocalType DEF TInv
<1>3. UNCHANGED <<hSeq, tSeq, done>>
  BY <1>1 DEF svars
<1>4. ASSUME STypeOK, RTypeOK, Unharmed PROVE Unharmed'
  <2>1. CASE Push
    BY <1>1, <1>4, <2>1, PushKeeps
  <2>2. CASE Ack
    <3>1. /\ ackNet' = ackNet \cup {cur} /\ rpc' = "idle" /\ rpc = "drain"
          /\ recved[Wire(tailSeq)] = Nil \/ rclosed
          /\ UNCHANGED <<tailSeq, recved, delivered, rclosed, cur>>
      BY <2>2 DEF Ack, LoopEnds
    <3>2. Stored' /\ Delivered'
      BY <1>3, <1>4, <3>1 DEF Unharmed, Stored, Delivered
    <3>3. AckedIsHeld' /\ CurIsHeld' /\ DroppedIsAcked'
      BY <1>3, <1>4, <3>1 DEF Unharmed, AckedIsHeld, CurIsHeld, DroppedIsAcked, Dropped, Has
    <3>4. NextIsMissing'
      BY <3>1 DEF NextIsMissing, Missing
    <3>5. tSeq' - hSeq' <= RecWin /\ tailSeq' <= tSeq'
      BY <1>3, <1>4, <3>1 DEF Unharmed
    <3> QED BY <3>2, <3>3, <3>4, <3>5 DEF Unharmed
  <2>3. CASE Read \/ ReadEOF \/ RClose
    <3>1. /\ UNCHANGED <<tailSeq, recved, delivered, rpc, cur, ackNet>>
          /\ rclosed' \in {rclosed, TRUE}
      BY <2>3 DEF Read, ReadEOF, RClose
    <3>2. Stored' /\ Delivered'
      BY <1>3, <1>4, <3>1 DEF Unharmed, Stored, Delivered
    <3>3. AckedIsHeld' /\ CurIsHeld' /\ DroppedIsAcked'
      BY <1>3, <1>4, <3>1 DEF Unharmed, AckedIsHeld, CurIsHeld, DroppedIsAcked, Dropped, Has
    <3>4. NextIsMissing'
      BY <1>4, <3>1 DEF Unharmed, NextIsMissing, Missing
    <3>5. tSeq' - hSeq' <= RecWin /\ tailSeq' <= tSeq'
      BY <1>3, <1>4, <3>1 DEF Unharmed
    <3> QED BY <3>2, <3>3, <3>4, <3>5 DEF Unharmed
  <2> QED BY <1>1, <2>1, <2>2, <2>3 DEF RLocal, Receiving
<1> QED BY <1>1, <1>2, <1>4, ReceiverKeeps

LEMMA TInvInductive == TInv /\ [TNext]_tvars => TInv'
<1> SUFFICES ASSUME TInv, [TNext]_tvars PROVE TInv'
  OBVIOUS
<1>1. CASE SenderStep
  BY <1>1, SenderStepKeeps
<1>2. ASSUME NEW a \in ackNet, AckArrives(a) PROVE TInv'
  BY <1>2, AckArrivesKeeps
<1>3. ASSUME NEW n \in dataNet, DataArrives(n) PROVE TInv'
  BY <1>3, DataArrivesKeeps
<1>4. CASE ReceiverStep
  BY <1>4, ReceiverStepKeeps
<1>5. CASE UNCHANGED tvars
  <2>1. UNCHANGED svars /\ UNCHANGED rvars /\ UNCHANGED overrun
    BY <1>5 DEF tvars
  <2>2. RTypeOK'
    BY <2>1 DEF TInv, rvars, RTypeOK, Buffered
  <2>3. UNCHANGED <<hSeq, tSeq, done, tailSeq, recved, delivered, rclosed, rpc, cur, ackNet>>
    BY <2>1 DEF svars, rvars
  <2>4. Unharmed => Unharmed'
    BY <2>3 DEF Unharmed, Stored, Delivered, AckedIsHeld, CurIsHeld, DroppedIsAcked, Dropped,
                Has, NextIsMissing, Missing
  <2> QED BY <2>1, <2>2, <2>4, ReceiverKeeps
<1> QED BY <1>1, <1>2, <1>3, <1>4, <1>5 DEF TNext

LEMMA TInvCorrect == TSpec => []TInv
<1>1. TInit => TInv
  BY TInvInitially
<1> QED BY <1>1, TInvInductive, PTL DEF TSpec
-----------------------------------------------------------------------------
\* The receiver keeps its types, and appBuffer its bound, for any ReadBuffer.
THEOREM ReceiverTypeCorrect == TSpec => []RTypeOK
<1>1. TInv => RTypeOK
  BY DEF TInv
<1> QED BY <1>1, TInvCorrect, PTL

\* The segments reach the application in order, none twice and none left out,
\* though only their numbers modulo SeqMod do.
THEOREM DeliveredInOrder == TSpec => []SegmentsInOrder
<1>1. TInv => SegmentsInOrder
  BY DEF TInv, Unharmed, Delivered, SegmentsInOrder
<1> QED BY <1>1, TInvCorrect, PTL

\* The sender drops from its window only what the receiver has.
THEOREM DroppedOnlyIfReceived == TSpec => []DroppedIsReceived
<1>1. TInv => DroppedIsReceived
  <2> SUFFICES ASSUME TInv, ~Broken, NEW n \in 0 .. tSeq - 1, Dropped(n) PROVE Has(n)
    BY DEF DroppedIsReceived
  <2> QED BY DEF TInv, Unharmed, DroppedIsAcked, AckedIsHeld
<1> QED BY <1>1, TInvCorrect, PTL

\* The windows of both sides overlap: the sender never runs past what an open
\* receiver waits for, nor the receiver past what was sent.
THEOREM WindowsAlwaysOverlap == TSpec => []WindowsOverlap
<1>1. TInv => WindowsOverlap
  <2> SUFFICES ASSUME TInv, ~Broken PROVE tailSeq <= tSeq /\ (~rclosed => hSeq <= tailSeq)
    BY DEF WindowsOverlap
  <2>1. STypeOK /\ RTypeOK /\ Unharmed
    BY DEF TInv, SInv
  <2> QED BY <2>1, HeadBehindTail DEF Unharmed
<1> QED BY <1>1, TInvCorrect, PTL

-----------------------------------------------------------------------------
\* Every step of the two windows is one of ReliableStream, or a stutter.
LEMMA StepImplementsStream ==
  ASSUME TInv, TInv', [TNext]_tvars
  PROVE  [Stream!Next]_Stream!vars
<1>0. Broken' \in BOOLEAN /\ (~Broken => Broken = FALSE)
  BY DEF TInv, SInv, STypeOK, Broken
<1>1. CASE Broken'
  BY <1>0, <1>1 DEF Stream!Next, Stream!Break
<1>2. CASE ~Broken' /\ SenderStep
  <2>1. /\ tSeq' \in Nat /\ tSeq <= tSeq' /\ tSeq \in Nat /\ ~gaveUp /\ ~overrun
    BY <1>2, LocalKeeps DEF TInv, SInv, STypeOK, SenderStep, Overruns, Broken
  <2>2. delivered' = delivered /\ ~Broken /\ Broken' = Broken
    BY <1>0, <1>2, <2>1 DEF SenderStep, rvars, Broken
  <2>3. tSeq' = tSeq \/ tSeq' > tSeq
    BY <2>1
  <2> QED BY <2>2, <2>3 DEF Stream!Next, Stream!Send, Stream!vars
<1>3. ASSUME ~Broken', NEW a \in ackNet, AckArrives(a)
      PROVE  [Stream!Next]_Stream!vars
  <2>1. /\ tSeq' \in Nat /\ tSeq <= tSeq' /\ tSeq \in Nat /\ ~gaveUp /\ ~overrun
    <3>1. PICK n \in hSeq .. tSeq - 1, w \in Windows : RecvAck(n, w)
      BY <1>3 DEF AckArrives
    <3> QED BY <1>3, <3>1, AckKeeps DEF TInv, SInv, STypeOK, AckArrives, Overruns, Broken
  <2>2. delivered' = delivered /\ ~Broken /\ Broken' = Broken
    BY <1>0, <1>3, <2>1 DEF AckArrives, rvars, Broken
  <2>3. tSeq' = tSeq \/ tSeq' > tSeq
    BY <2>1
  <2> QED BY <2>2, <2>3 DEF Stream!Next, Stream!Send, Stream!vars
<1>4. CASE ~Broken' /\ (ReceiverStep \/ \E n \in dataNet : DataArrives(n))
  <2>1. UNCHANGED svars /\ UNCHANGED overrun
    BY <1>4 DEF ReceiverStep, DataArrives
  <2>2. tSeq' = tSeq /\ Broken' = Broken /\ ~Broken
    BY <1>4, <2>1 DEF svars, Broken
  <2>3. CASE ReceiverStep /\ Push
    <3>1. RTypeOK /\ Unharmed
      BY <2>2 DEF TInv
    <3>2. recved[Wire(tailSeq)] = tailSeq /\ tailSeq < tSeq
      BY <2>3, <3>1, PushFacts
    <3>3. Len(delivered) = tailSeq
      BY <3>1 DEF Unharmed, Delivered
    <3>4. delivered' = Append(delivered, Len(delivered))
      BY <2>3, <3>2, <3>3 DEF Push
    <3> QED BY <2>2, <3>2, <3>3, <3>4 DEF Stream!Next, Stream!Deliver
  <2>4. CASE (ReceiverStep /\ ~Push) \/ \E n \in dataNet : DataArrives(n)
    <3>1. delivered' = delivered
      BY <2>4 DEF ReceiverStep, RLocal, Receiving, Ack, Read, ReadEOF, RClose, DataArrives, Recv
    <3> QED BY <2>2, <3>1 DEF Stream!vars
  <2> QED BY <1>4, <2>3, <2>4
<1>5. CASE UNCHANGED tvars
  <2>1. UNCHANGED <<tSeq, delivered, gaveUp, overrun>>
    BY <1>5 DEF tvars, svars, rvars
  <2> QED BY <2>1 DEF Stream!vars, Broken
<1> QED BY <1>1, <1>2, <1>3, <1>4, <1>5 DEF TNext

\* The windows and the network between them are a reliable stream, until it is
\* broken: for any sizes of the windows, the buffers and the sequence space.
THEOREM TransportIsReliable == TSpec => ImplementsStream
<1>1. TInit => Stream!Init
  <2> SUFFICES ASSUME TInit PROVE Stream!Init
    OBVIOUS
  <2>1. tSeq = 0 /\ delivered = <<>> /\ Broken = FALSE
    BY DEF TInit, SInit, RInit, Broken
  <2> QED BY <2>1 DEF Stream!Init
<1>2. TInv /\ TInv' /\ [TNext]_tvars => [Stream!Next]_Stream!vars
  BY StepImplementsStream
<1> QED BY <1>1, <1>2, TInvCorrect, PTL DEF TSpec, ImplementsStream, Stream!Spec
=============================================================================
