------------------------------ MODULE Session ------------------------------
(***************************************************************************)
(* What a connection promises of its life, at both ends: each end is open  *)
(* at most once and closed for good, the dialer is open only if the        *)
(* listener's end has been, and a close that was answered means that the   *)
(* other end is closed too.                                                *)
(***************************************************************************)
VARIABLE
  phase         \* of an end: none, open, closing, answered, closed

Peers == {"cli", "ser"}
Other(p) == IF p = "cli" THEN "ser" ELSE "cli"

Init == phase = [p \in Peers |-> "none"]

Trans(p, from, to) ==
  /\ phase[p] = from
  /\ phase' = [phase EXCEPT ![p] = to]

\* The listener's end comes first.
Open(p) == Trans(p, "none", "open") /\ (p = "cli" => phase["ser"] # "none")

\* A dial that got no answer.
Fail == Trans("cli", "none", "closed")

\* Close, its answer, and its end, with the answer or without.
Close(p) == Trans(p, "open", "closing")
Answer(p) == Trans(p, "closing", "answered") /\ phase[Other(p)] = "closed"
End(p) == Trans(p, "closing", "closed") \/ Trans(p, "answered", "closed")

\* The other end closes, or the socket fails.
Drop(p) == Trans(p, "open", "closed")

Next ==
  \/ Fail
  \/ \E p \in Peers : Open(p) \/ Close(p) \/ Answer(p) \/ End(p) \/ Drop(p)

Spec == Init /\ [][Next]_phase

-----------------------------------------------------------------------------
\* The dialer's end is not used before the listener's end is open, and an end that got
\* its answer has nobody left to send to it.
ListenerFirst == phase["cli"] \in {"open", "closing", "answered"} => phase["ser"] # "none"
AnsweredIsClosed == \A p \in Peers : phase[p] = "answered" => phase[Other(p)] = "closed"
Promises == ListenerFirst /\ AnsweredIsClosed
=============================================================================
