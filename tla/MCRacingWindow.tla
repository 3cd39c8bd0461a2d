--------------------------- MODULE MCRacingWindow ---------------------------
(* Small instances of RacingWindow for TLC. *)
EXTENDS RacingWindow

\* Bound: races and the close are explored apart, not together.
RacedOrClosed == races > 0 => ~closed

\* Bound: nothing was closed or given up, and no timer fired yet.
Unhurried == ~closed /\ ~gaveUp /\ ~flushTick
=============================================================================
