---------------------------- MODULE MCTransport -----------------------------
(* Small instances of Transport for TLC. *)
EXTENDS Transport

\* The invariants promise nothing once Broken, which lasts: explore no further.
Unbroken == ~Broken
=============================================================================
