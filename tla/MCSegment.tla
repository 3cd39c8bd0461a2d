----------------------------- MODULE MCSegment ------------------------------
(* Segment with the ticker count of the code cut down, for TLC. *)
EXTENDS Segment
=============================================================================
