----------------------------- MODULE MCListener -----------------------------
(* Small instances of Listener for TLC. *)
EXTENDS Listener

(* The peers are alike: call the one that connects first the first one. *)
FirstIsFirst == made > 0 => addrOf[1] = Anywhere
=============================================================================
