----------------------------- MODULE CongWindow -----------------------------
(***************************************************************************)
(* segmentEvent of win/swnd.go, statement by statement.                    *)
(*                                                                         *)
(* EventEnd doubles the congestion window and limits it to the maximum,    *)
(* EventResend decrements it and limits it to the minimum; both then       *)
(* recompute the send window.  They run in the goroutines of the segments  *)
(* and take no lock, so every statement is a read and a write between      *)
(* which the others run: a data race on cwnd and swnd, 64-bit words that   *)
(* are not torn.  Module RacingWindow says when an event starts.           *)
(***************************************************************************)
EXTENDS SeqNumbers

CONSTANTS
  Goroutines,   \* the resenders, one for each segment
  DefCong,      \* defCongWinSize
  MinCong,      \* minCongWinSize
  MaxCong,      \* maxCongWinSize
  MaxRaces      \* bound: how many events start while another is under way

ASSUME CongAssumption ==
  /\ {DefCong, MinCong, MaxCong} \subseteq Nat \ {0}
  /\ MinCong <= DefCong /\ DefCong <= MaxCong /\ DefCong <= RecWin
  /\ MaxRaces \in Nat

VARIABLES
  cwnd, swnd,
  event,        \* the event a goroutine sends: end, resend, none
  pc,           \* the statement it is at
  read,         \* has that statement read cwnd?
  reg,          \* what it read
  alone,        \* history: has the one event under way overlapped with no other?
  races         \* history: how many events started while another was under way

cvars == <<cwnd, swnd, event, pc, read, reg, alone, races>>

\* The two windows as the init() of a SWND leaves them.
CInit ==
  /\ cwnd = DefCong
  /\ swnd = DefCong
  /\ event = [t \in Goroutines |-> "none"]
  /\ pc = [t \in Goroutines |-> "idle"]
  /\ read = [t \in Goroutines |-> FALSE]
  /\ reg = [t \in Goroutines |-> 0]
  /\ alone = FALSE
  /\ races = 0

\* The goroutines that are in segmentEvent.
UnderWay == {t \in Goroutines : pc[t] # "idle"}

\* segmentEvent(e) is called by t, which sends one event at a time, and its first
\* statement reads cwnd.
EventStart(t, e) ==
  /\ pc[t] = "idle"
  /\ event' = [event EXCEPT ![t] = e]
  /\ pc' = [pc EXCEPT ![t] = "change"]
  /\ read' = [read EXCEPT ![t] = TRUE]
  /\ reg' = [reg EXCEPT ![t] = cwnd]
  /\ alone' = (UnderWay = {})
  /\ races' = IF UnderWay = {} THEN races ELSE races + 1
  /\ races' <= MaxRaces
  /\ UNCHANGED <<cwnd, swnd>>

\* The first half of a later statement.
EventRead(t) ==
  /\ pc[t] # "idle"
  /\ ~read[t]
  /\ read' = [read EXCEPT ![t] = TRUE]
  /\ reg' = [reg EXCEPT ![t] = cwnd]
  /\ UNCHANGED <<cwnd, swnd, event, pc, alone, races>>

\* What a goroutine writes to cwnd, and then writes to limit it.  The mutated forms
\* limit both to the maximum, and neither.
Changed(e, c) == IF e = "end" THEN 2 * c ELSE c - 1
LimitedAbove(e, c) == Lesser(c, MaxCong)
Unlimited(e, c) == c
Limited(e, c) == IF e = "end" THEN Lesser(c, MaxCong) ELSE Larger(c, MinCong)

\* comSendWinSize.  The mutated form leaves out the receive window.
CongestionOnly(c) == c
SendWinSize(c) == Lesser(RecWin, c)

EventWrite(t, from, to) ==
  /\ pc[t] = from
  /\ read[t]
  /\ read' = [read EXCEPT ![t] = FALSE]
  /\ reg' = [reg EXCEPT ![t] = 0]
  /\ pc' = [pc EXCEPT ![t] = to]
  /\ UNCHANGED races

Change(t) ==
  /\ EventWrite(t, "change", "limit")
  /\ cwnd' = Changed(event[t], reg[t])
  /\ UNCHANGED <<swnd, event, alone>>

Limit(t) ==
  /\ EventWrite(t, "limit", "window")
  /\ cwnd' = Limited(event[t], reg[t])
  /\ UNCHANGED <<swnd, event, alone>>

Window(t) ==
  /\ EventWrite(t, "window", "idle")
  /\ swnd' = SendWinSize(reg[t])
  /\ event' = [event EXCEPT ![t] = "none"]
  /\ alone' = FALSE
  /\ UNCHANGED cwnd

EventStep(t) == EventRead(t) \/ Change(t) \/ Limit(t) \/ Window(t)

-----------------------------------------------------------------------------
\* Types, for the invariant of RacingWindow.
CTypeOK ==
  /\ cwnd \in Int
  /\ swnd \in Int
  /\ event \in [Goroutines -> {"none", "end", "resend"}]
  /\ pc \in [Goroutines -> {"idle", "change", "limit", "window"}]
  /\ read \in [Goroutines -> BOOLEAN]
  /\ reg \in [Goroutines -> Int]
  /\ alone \in BOOLEAN
  /\ races \in 0 .. MaxRaces

\* Races leave the windows anywhere, but one event that overlaps with no other
\* repairs them: whatever cwnd was, after its last step the limit of that event
\* holds and swnd is the minimum of both windows.  So the damage is not for good,
\* as long as events of both kinds still come.
Repaired(e) ==
  /\ swnd = Lesser(RecWin, cwnd)
  /\ e = "end" => cwnd <= MaxCong
  /\ e = "resend" => cwnd >= MinCong
Repairs ==
  [][alone /\ UnderWay' = {} => \A e \in {event[t] : t \in UnderWay} : Repaired(e)']_cvars
=============================================================================
