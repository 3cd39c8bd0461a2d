--------------------------- MODULE ReliableStream ---------------------------
(***************************************************************************)
(* What one direction of a connection promises ("a reliable transport      *)
(* layer protocol", readme.md:3): the receiver gets the segments of the    *)
(* sender, all of them, once, in the order in which they were sent.  Once  *)
(* the stream is broken it promises nothing.                               *)
(***************************************************************************)
EXTENDS Naturals, Sequences

VARIABLES
  sent,         \* how many segments were cut from the stream
  got,          \* the segments handed to the receiving application
  broken

vars == <<sent, got, broken>>

Init == sent = 0 /\ got = <<>> /\ broken = FALSE

Send ==
  /\ ~broken
  /\ sent' > sent
  /\ UNCHANGED <<got, broken>>

\* The next segment, which is the number of those before it.
Deliver ==
  /\ ~broken
  /\ Len(got) < sent
  /\ got' = Append(got, Len(got))
  /\ UNCHANGED <<sent, broken>>

Break == broken' = TRUE

Next == Send \/ Deliver \/ Break

Spec == Init /\ [][Next]_vars
=============================================================================
