----------------------------- MODULE RecvWindow -----------------------------
(***************************************************************************)
(* win/rwnd.go: the receive window.                                        *)
(*                                                                         *)
(* Recv stores a segment under its 16-bit sequence number and, while the   *)
(* next one in order is there, pushes it into appBuffer; the push blocks   *)
(* while the application does not read, and the mutex of the window is     *)
(* held all the time.  The ack goes out when Recv is through.  A segment   *)
(* outside the window is acknowledged and thrown away.                     *)
(*                                                                         *)
(* A segment is its ordinal, which stands for its payload: what recved and *)
(* delivered hold is whose bytes they are, whatever their number on the    *)
(* wire.  ackNet is every ack sent; the network may lose, repeat and       *)
(* reorder them.                                                           *)
(***************************************************************************)
EXTENDS SeqNumbers, Sequences

CONSTANT ReadBuffer     \* segments that fit in appBuffer (appBufferMSS)

ASSUME ReadAssumption == ReadBuffer \in Nat \ {0}

VARIABLES
  tailSeq,      \* how many segments were pushed to appBuffer
  recved,       \* the map, by sequence number
  delivered,    \* history: the segments pushed to appBuffer, in order
  consumed,     \* how many of them the application has read
  eof,          \* has Read returned io.EOF?
  rclosed,      \* is closeSignal closed?
  rpc,          \* idle, or in the loop of recv, under the mutex
  cur,          \* the segment recv is going to acknowledge
  ackNet

rvars == <<tailSeq, recved, delivered, consumed, eof, rclosed, rpc, cur, ackNet>>

Nil == -1
Seqs == 0 .. SeqMod - 1
Buffered == Len(delivered) - consumed

RInit ==
  /\ tailSeq = 0
  /\ recved = [s \in Seqs |-> Nil]
  /\ delivered = <<>>
  /\ consumed = 0
  /\ eof = FALSE
  /\ rclosed = FALSE
  /\ rpc = "idle"
  /\ cur = 0
  /\ ackNet = {}

-----------------------------------------------------------------------------
\* legalSeqN: the loop over the window from tailSeq on.
OldToo(s) == \E i \in -1 .. RecWin - 1 : s = Wire(tailSeq + i)
LegalSeqN(s) == \E i \in 0 .. RecWin - 1 : s = Wire(tailSeq + i)

\* Recv of segment n.  After closeSignal it returns errRClosed, without an ack.
Recv(n) ==
  /\ rpc = "idle"
  /\ ~rclosed
  /\ \/ /\ ~LegalSeqN(Wire(n))
        /\ ackNet' = ackNet \cup {n}
        /\ UNCHANGED <<recved, rpc, cur>>
     \/ /\ LegalSeqN(Wire(n))
        /\ recved' = [recved EXCEPT ![Wire(n)] = n]
        /\ rpc' = "drain"
        /\ cur' = n
        /\ UNCHANGED ackNet
  /\ UNCHANGED <<tailSeq, delivered, consumed, eof, rclosed>>

\* recved2AppBuffer.  The mutated form pushes without room.
RoomAlways == TRUE
Room == Buffered < ReadBuffer

Push ==
  LET s == Wire(tailSeq) IN
  /\ rpc = "drain"
  /\ recved[s] # Nil
  /\ Room
  /\ delivered' = Append(delivered, recved[s])
  /\ recved' = [recved EXCEPT ![s] = Nil]
  /\ tailSeq' = tailSeq + 1
  /\ UNCHANGED <<consumed, eof, rclosed, rpc, cur, ackNet>>

\* The loop of recv ends: there is no next segment, or the push was stopped by
\* closeSignal.  The deferred ack goes out in both cases.
StopEarly(s) == TRUE
LoopEnds(s) == recved[s] = Nil \/ rclosed

Ack ==
  /\ rpc = "drain"
  /\ LoopEnds(Wire(tailSeq))
  /\ ackNet' = ackNet \cup {cur}
  /\ rpc' = "idle"
  /\ UNCHANGED <<tailSeq, recved, delivered, consumed, eof, rclosed, cur>>

\* Read: io.EOF once closeSignal is closed; else at least a part of what is
\* there, here in whole segments.
Read ==
  /\ ~rclosed
  /\ Buffered > 0
  /\ consumed' \in consumed + 1 .. Len(delivered)
  /\ UNCHANGED <<tailSeq, recved, delivered, eof, rclosed, rpc, cur, ackNet>>

ReadEOF ==
  /\ rclosed
  /\ eof' = TRUE
  /\ UNCHANGED <<tailSeq, recved, delivered, consumed, rclosed, rpc, cur, ackNet>>

RClose ==
  /\ rclosed' = TRUE
  /\ UNCHANGED <<tailSeq, recved, delivered, consumed, eof, rpc, cur, ackNet>>

Receiving == Push \/ Ack
RLocal == Receiving \/ Read \/ ReadEOF \/ RClose

-----------------------------------------------------------------------------
\* Type invariant.
RTypeOK ==
  /\ tailSeq \in Nat
  /\ recved \in [Seqs -> Nat \cup {Nil}]
  /\ delivered \in Seq(Nat)
  /\ consumed \in 0 .. Len(delivered)
  /\ Buffered <= ReadBuffer
  /\ eof \in BOOLEAN
  /\ rclosed \in BOOLEAN
  /\ rpc \in {"idle", "drain"}
  /\ cur \in Nat
  /\ ackNet \subseteq Nat
=============================================================================
