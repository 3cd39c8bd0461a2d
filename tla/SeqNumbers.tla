----------------------------- MODULE SeqNumbers -----------------------------
(***************************************************************************)
(* The sequence numbers both windows of a connection share.  The code      *)
(* keeps 16 bits of them (a uint16, which wraps by itself); a specification*)
(* keeps the ordinal of the segment and says Wire where the code compares  *)
(* or indexes with what goes over the wire.                                *)
(***************************************************************************)
EXTENDS Integers

CONSTANTS
  SeqMod,       \* maxSeqN + 1
  RecWin        \* defRecWinSize, of either side

\* Checked by init() in swnd.go: defRecWinSize <= maxSeqN.
ASSUME SeqAssumption ==
  /\ SeqMod \in Nat \ {0}
  /\ RecWin \in Nat \ {0}
  /\ RecWin < SeqMod

Wire(n) == n % SeqMod

Lesser(a, b) == IF a < b THEN a ELSE b
Larger(a, b) == IF a > b THEN a ELSE b
=============================================================================
