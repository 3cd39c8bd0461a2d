---------------------------- MODULE MCBlockQueue ----------------------------
(* Small instances of BlockQueue for TLC. *)
EXTENDS BlockQueue
=============================================================================
