-------------------------- MODULE ConnectionProofs --------------------------
(* TypeOK, NoNilWindow, FinAfterWindow, ClosedOnce and the refinement of     *)
(* Session, for any number of resends, of goroutines of fin1MessageHandler,  *)
(* and with a socket that fails or not; then that nobody who waits is        *)
(* forgotten and nothing is left open, and what follows from being a session.*)
EXTENDS Connection, TLAPS

\* Which callback runs in which status, and when its answer is waited for.
CallbackInv(p) ==
  /\ callback[p] = "SYN1" => p = "cli" /\ status[p] = "SynSent"
  /\ callback[p] \in {"closewin", "FIN1"} => status[p] = "FinWait1"
  /\ callback[p] \in {"fin", "force"} => status[p] = "Closed"
  /\ callback[p] = "fin" => fins[p] > 0
  /\ callback[p] = "accept" => status[p] \in Est
  /\ outcome[p] # "none" => callback[p] = "none" /\ status[p] \in {"SynSent", "FinWait1"}

\* What the windows are in which status.
WindowInv(p) ==
  /\ status[p] \in {"Init", "SynSent"} => sendWin[p] = "none"
  /\ status[p] \in Est => sendWin[p] = "open" /\ recvWin[p] = "open"
  /\ callback[p] \in {"closewin", "fin", "force"} => sendWin[p] = "open"
  /\ status[p] = "FinWait1" /\ callback[p] # "closewin" => sendWin[p] = "closed"

\* What an answer says about the other end.
Begun == status["ser"] \notin {"Init", "SynSent"}
AnswerInv ==
  /\ dial = "event" => status["cli"] = "Init"
  /\ status["ser"] # "SynSent"
  /\ Msg("SYN2", "cli") \in net => Begun
  /\ outcome["cli"] = "ok" /\ status["cli"] = "SynSent" => Begun
  /\ \A p \in Peers : outcome[p] = "ok" /\ status[p] = "FinWait1" => status[Other(p)] = "Closed"

Inv ==
  /\ TypeOK
  /\ \A p \in Peers : CallbackInv(p) /\ WindowInv(p)
  /\ FinAfterWindow
  /\ AnswerInv

LEMMA InvInit == Init => Inv
<1> SUFFICES ASSUME Init PROVE Inv
  OBVIOUS
<1>1. TypeOK
  <2>1. udp \in [Peers -> BOOLEAN] /\ linger \in [Peers -> BOOLEAN] /\ accepted \in BOOLEAN
    BY DEF Init
  <2>2. 0 \in 0 .. ResendCount /\ 0 \in 0 .. MaxFins
    BY ConnAssumption
  <2>3. resends \in [Peers -> 0 .. ResendCount] /\ fins \in [Peers -> 0 .. MaxFins]
    BY <2>2 DEF Init
  <2> QED BY <2>1, <2>3 DEF Init, TypeOK, Est, Closers
<1>2. \A p \in Peers : CallbackInv(p) /\ WindowInv(p)
  BY DEF Init, CallbackInv, WindowInv, Est
<1>3. FinAfterWindow /\ AnswerInv
  BY DEF Init, FinAfterWindow, AnswerInv, Peers
<1> QED BY <1>1, <1>2, <1>3 DEF Inv

LEMMA DialStartStep ==
  ASSUME Inv, DialStart
  PROVE  Inv'
<1> USE DEF DialStart, Unlocked, machine, calls, windows, timers
<1>1. TypeOK'
  BY ConnAssumption DEF Inv, TypeOK, Peers, Other, Est, Closers, Msg, CallbackInv
<1>2. \A q \in Peers : CallbackInv(q)'
  BY DEF Inv, TypeOK, CallbackInv, AnswerInv, Peers, Est
<1>3. \A q \in Peers : WindowInv(q)'
  BY DEF Inv, TypeOK, CallbackInv, WindowInv, AnswerInv, Peers, Est
<1>4. FinAfterWindow'
  BY DEF Inv, TypeOK, CallbackInv, WindowInv, FinAfterWindow, AnswerInv, Peers, Other, Msg, Est
<1>5. AnswerInv'
  BY DEF Inv, TypeOK, CallbackInv, AnswerInv, FinAfterWindow, Begun, Peers, Other, Msg, Est
<1> QED BY <1>1, <1>2, <1>3, <1>4, <1>5 DEF Inv

LEMMA DialEndStep ==
  ASSUME Inv, DialEnd
  PROVE  Inv'
<1> USE DEF DialEnd, InitWin, Keepalive, Unlocked, machine, calls, windows, timers
<1>1. TypeOK'
  <2> USE DEF TypeOK
  <2>1. TypeOK /\ "cli" \in Peers
    BY DEF Inv, Peers
  <2>2. CASE outcome["cli"] = "ok"
    BY <2>1, <2>2 DEF Est
  <2>3. CASE outcome["cli"] = "err"
    <3>1. udp' \in [Peers -> BOOLEAN]
      BY <2>1, <2>3
    <3>2. status' \in [Peers -> {"Init", "SynSent", "FinWait1", "Closed"} \cup Est]
      BY <2>1, <2>3 DEF Est
    <3>3. outcome' \in [Peers -> {"none", "ok", "err"}] /\ dial' \in {"event", "running", "returned"}
      BY <2>1
    <3>4. UNCHANGED <<callback, loop, resends, accepted, waiting, owner, fins, reader, net, windows, timers>>
      BY <2>3
    <3> QED BY <2>1, <3>1, <3>2, <3>3, <3>4
  <2> QED BY <2>2, <2>3
<1>2. \A q \in Peers : CallbackInv(q)'
  BY DEF Inv, TypeOK, CallbackInv, Peers, Est
<1>3. \A q \in Peers : WindowInv(q)'
  BY DEF Inv, TypeOK, CallbackInv, WindowInv, Peers, Est
<1>4. FinAfterWindow'
  BY DEF Inv, TypeOK, CallbackInv, WindowInv, FinAfterWindow, Peers, Other, Msg, Est
<1>5. AnswerInv'
  BY DEF Inv, TypeOK, CallbackInv, AnswerInv, FinAfterWindow, Begun, Peers, Other, Msg, Est
<1> QED BY <1>1, <1>2, <1>3, <1>4, <1>5 DEF Inv

LEMMA AcceptStep ==
  ASSUME Inv, Accept
  PROVE  Inv'
<1> USE DEF Accept, Unlocked, machine, calls, windows, timers
<1>1. TypeOK'
  BY ConnAssumption DEF Inv, TypeOK, Peers, Other, Est, Closers, Msg, CallbackInv
<1>2. \A q \in Peers : CallbackInv(q)'
  BY DEF Inv, TypeOK, CallbackInv, Peers, Est
<1>3. \A q \in Peers : WindowInv(q)'
  BY DEF Inv, TypeOK, CallbackInv, WindowInv, Peers, Est
<1>4. FinAfterWindow'
  BY DEF Inv, TypeOK, CallbackInv, WindowInv, FinAfterWindow, Peers, Other, Msg, Est
<1>5. AnswerInv'
  BY DEF Inv, TypeOK, CallbackInv, AnswerInv, FinAfterWindow, Begun, Peers, Other, Msg, Est
<1> QED BY <1>1, <1>2, <1>3, <1>4, <1>5 DEF Inv

LEMMA RecvSyn1Step ==
  ASSUME Inv, RecvSyn1
  PROVE  Inv'
<1> USE DEF RecvSyn1, Unlocked, machine, calls, windows, timers
<1>1. TypeOK'
  BY ConnAssumption DEF Inv, TypeOK, Peers, Other, Est, Closers, Msg, CallbackInv
<1>2. \A q \in Peers : CallbackInv(q)'
  BY DEF Inv, TypeOK, CallbackInv, Peers, Est
<1>3. \A q \in Peers : WindowInv(q)'
  BY DEF Inv, TypeOK, CallbackInv, WindowInv, Peers, Est
<1>4. FinAfterWindow'
  BY DEF Inv, TypeOK, CallbackInv, WindowInv, FinAfterWindow, Peers, Other, Msg, Est
<1>5. AnswerInv'
  BY DEF Inv, TypeOK, CallbackInv, AnswerInv, FinAfterWindow, Begun, Peers, Other, Msg, Est
<1> QED BY <1>1, <1>2, <1>3, <1>4, <1>5 DEF Inv

LEMMA Syn1EventStep ==
  ASSUME Inv, Syn1Event
  PROVE  Inv'
<1> USE DEF Syn1Event, InitWin, Keepalive, Unlocked, machine, calls, windows, timers
<1>1. TypeOK'
  BY ConnAssumption DEF Inv, TypeOK, Peers, Other, Est, Closers, Msg, CallbackInv
<1>2. \A q \in Peers : CallbackInv(q)'
  BY DEF Inv, TypeOK, CallbackInv, Peers, Est
<1>3. \A q \in Peers : WindowInv(q)'
  BY DEF Inv, TypeOK, CallbackInv, WindowInv, Peers, Est
<1>4. FinAfterWindow'
  BY DEF Inv, TypeOK, CallbackInv, WindowInv, FinAfterWindow, Peers, Other, Msg, Est
<1>5. AnswerInv'
  BY DEF Inv, TypeOK, CallbackInv, AnswerInv, FinAfterWindow, Begun, Peers, Other, Msg, Est
<1> QED BY <1>1, <1>2, <1>3, <1>4, <1>5 DEF Inv

LEMMA AskStep ==
  ASSUME Inv, NEW p \in Peers, Ask(p)
  PROVE  Inv'
<1> USE DEF Ask, Asks, Unlocked, machine, calls, windows, timers
<1>1. TypeOK'
  BY ConnAssumption DEF Inv, TypeOK, Peers, Other, Est, Closers, Msg, CallbackInv
<1>2. \A q \in Peers : CallbackInv(q)'
  BY DEF Inv, TypeOK, CallbackInv, Peers, Est
<1>3. \A q \in Peers : WindowInv(q)'
  BY DEF Inv, TypeOK, CallbackInv, WindowInv, Peers, Est
<1>4. FinAfterWindow'
  BY DEF Inv, TypeOK, CallbackInv, WindowInv, FinAfterWindow, Peers, Other, Msg, Est
<1>5. AnswerInv'
  BY DEF Inv, TypeOK, CallbackInv, AnswerInv, FinAfterWindow, Begun, Peers, Other, Msg, Est
<1> QED BY <1>1, <1>2, <1>3, <1>4, <1>5 DEF Inv

LEMMA AskFailsStep ==
  ASSUME Inv, NEW p \in Peers, AskFails(p)
  PROVE  Inv'
<1> USE DEF AskFails, Asks, CallbackEnds, Unlocked, machine, calls, windows, timers
<1>1. TypeOK'
  BY ConnAssumption DEF Inv, TypeOK, Peers, Other, Est, Closers, Msg, CallbackInv
<1>2. \A q \in Peers : CallbackInv(q)'
  BY DEF Inv, TypeOK, CallbackInv, Peers, Est
<1>3. \A q \in Peers : WindowInv(q)'
  BY DEF Inv, TypeOK, CallbackInv, WindowInv, Peers, Est
<1>4. FinAfterWindow'
  BY DEF Inv, TypeOK, CallbackInv, WindowInv, FinAfterWindow, Peers, Other, Msg, Est
<1>5. AnswerInv'
  BY DEF Inv, TypeOK, CallbackInv, AnswerInv, FinAfterWindow, Begun, Peers, Other, Msg, Est
<1> QED BY <1>1, <1>2, <1>3, <1>4, <1>5 DEF Inv

LEMMA ExhaustedStep ==
  ASSUME Inv, NEW p \in Peers, Exhausted(p)
  PROVE  Inv'
<1> USE DEF Exhausted, Asks, CallbackEnds, ResendsLeft, Unlocked, machine, calls, windows, timers
<1>1. TypeOK'
  BY ConnAssumption DEF Inv, TypeOK, Peers, Other, Est, Closers, Msg, CallbackInv
<1>2. \A q \in Peers : CallbackInv(q)'
  BY DEF Inv, TypeOK, CallbackInv, Peers, Est
<1>3. \A q \in Peers : WindowInv(q)'
  BY DEF Inv, TypeOK, CallbackInv, WindowInv, Peers, Est
<1>4. FinAfterWindow'
  BY DEF Inv, TypeOK, CallbackInv, WindowInv, FinAfterWindow, Peers, Other, Msg, Est
<1>5. AnswerInv'
  BY DEF Inv, TypeOK, CallbackInv, AnswerInv, FinAfterWindow, Begun, Peers, Other, Msg, Est
<1> QED BY <1>1, <1>2, <1>3, <1>4, <1>5 DEF Inv

LEMMA AskTimeoutStep ==
  ASSUME Inv, NEW p \in Peers, AskTimeout(p)
  PROVE  Inv'
<1> USE DEF AskTimeout, Asks, Selects, ResendsLeft, Unlocked, machine, calls, windows, timers
<1>1. TypeOK'
  BY ConnAssumption DEF Inv, TypeOK, Peers, Other, Est, Closers, Msg, CallbackInv
<1>2. \A q \in Peers : CallbackInv(q)'
  BY DEF Inv, TypeOK, CallbackInv, Peers, Est
<1>3. \A q \in Peers : WindowInv(q)'
  BY DEF Inv, TypeOK, CallbackInv, WindowInv, Peers, Est
<1>4. FinAfterWindow'
  BY DEF Inv, TypeOK, CallbackInv, WindowInv, FinAfterWindow, Peers, Other, Msg, Est
<1>5. AnswerInv'
  BY DEF Inv, TypeOK, CallbackInv, AnswerInv, FinAfterWindow, Begun, Peers, Other, Msg, Est
<1> QED BY <1>1, <1>2, <1>3, <1>4, <1>5 DEF Inv

LEMMA SendWinClosedStep ==
  ASSUME Inv, NEW p \in Peers, SendWinClosed(p)
  PROVE  Inv'
<1> USE DEF SendWinClosed, Unlocked, machine, calls, windows, timers
<1>1. TypeOK'
  BY ConnAssumption DEF Inv, TypeOK, Peers, Other, Est, Closers, Msg, CallbackInv
<1>2. \A q \in Peers : CallbackInv(q)'
  BY DEF Inv, TypeOK, CallbackInv, Peers, Est
<1>3. \A q \in Peers : WindowInv(q)'
  BY DEF Inv, TypeOK, CallbackInv, WindowInv, Peers, Est
<1>4. FinAfterWindow'
  BY DEF Inv, TypeOK, CallbackInv, WindowInv, FinAfterWindow, Peers, Other, Msg, Est
<1>5. AnswerInv'
  BY DEF Inv, TypeOK, CallbackInv, AnswerInv, FinAfterWindow, Begun, Peers, Other, Msg, Est
<1> QED BY <1>1, <1>2, <1>3, <1>4, <1>5 DEF Inv

LEMMA CloseEndStep ==
  ASSUME Inv, NEW p \in Peers, CloseEnd(p)
  PROVE  Inv'
<1> USE DEF CloseEnd, Back, Unlocked, machine, calls, windows, timers
<1>1. TypeOK'
  BY ConnAssumption DEF Inv, TypeOK, Peers, Other, Est, Closers, Msg, CallbackInv
<1>2. \A q \in Peers : CallbackInv(q)'
  BY DEF Inv, TypeOK, CallbackInv, Peers, Est
<1>3. \A q \in Peers : WindowInv(q)'
  BY DEF Inv, TypeOK, CallbackInv, WindowInv, Peers, Est
<1>4. FinAfterWindow'
  BY DEF Inv, TypeOK, CallbackInv, WindowInv, FinAfterWindow, Peers, Other, Msg, Est
<1>5. AnswerInv'
  BY DEF Inv, TypeOK, CallbackInv, AnswerInv, FinAfterWindow, Begun, Peers, Other, Msg, Est
<1> QED BY <1>1, <1>2, <1>3, <1>4, <1>5 DEF Inv

LEMMA CloseStartStep ==
  ASSUME Inv, NEW p \in Peers, NEW c \in Closers, CloseStart(p, c)
  PROVE  Inv'
<1> USE DEF CloseStart, CloseWinFirst, Unlocked, machine, calls, windows, timers
<1>1. TypeOK'
  BY ConnAssumption DEF Inv, TypeOK, Peers, Other, Est, Closers, Msg, CallbackInv
<1>2. \A q \in Peers : CallbackInv(q)'
  BY DEF Inv, TypeOK, CallbackInv, Peers, Est
<1>3. \A q \in Peers : WindowInv(q)'
  BY DEF Inv, TypeOK, CallbackInv, WindowInv, Peers, Est
<1>4. FinAfterWindow'
  BY DEF Inv, TypeOK, CallbackInv, WindowInv, FinAfterWindow, Peers, Other, Msg, Est
<1>5. AnswerInv'
  BY DEF Inv, TypeOK, CallbackInv, AnswerInv, FinAfterWindow, Begun, Peers, Other, Msg, Est
<1> QED BY <1>1, <1>2, <1>3, <1>4, <1>5 DEF Inv

LEMMA CloseRefusedStep ==
  ASSUME Inv, NEW p \in Peers, NEW c \in Closers, CloseRefused(p, c)
  PROVE  Inv'
<1> USE DEF CloseRefused, Back, Unlocked, machine, calls, windows, timers
<1>1. TypeOK'
  BY ConnAssumption DEF Inv, TypeOK, Peers, Other, Est, Closers, Msg, CallbackInv
<1>2. \A q \in Peers : CallbackInv(q)'
  BY DEF Inv, TypeOK, CallbackInv, Peers, Est
<1>3. \A q \in Peers : WindowInv(q)'
  BY DEF Inv, TypeOK, CallbackInv, WindowInv, Peers, Est
<1>4. FinAfterWindow'
  BY DEF Inv, TypeOK, CallbackInv, WindowInv, FinAfterWindow, Peers, Other, Msg, Est
<1>5. AnswerInv'
  BY DEF Inv, TypeOK, CallbackInv, AnswerInv, FinAfterWindow, Begun, Peers, Other, Msg, Est
<1> QED BY <1>1, <1>2, <1>3, <1>4, <1>5 DEF Inv

LEMMA FinStartStep ==
  ASSUME Inv, NEW p \in Peers, FinStart(p)
  PROVE  Inv'
<1> USE DEF FinStart, FinSources, Unlocked, machine, calls, windows, timers
<1>1. TypeOK'
  BY ConnAssumption DEF Inv, TypeOK, Peers, Other, Est, Closers, Msg, CallbackInv
<1>2. \A q \in Peers : CallbackInv(q)'
  BY DEF Inv, TypeOK, CallbackInv, Peers, Est
<1>3. \A q \in Peers : WindowInv(q)'
  BY DEF Inv, TypeOK, CallbackInv, WindowInv, Peers, Est
<1>4. FinAfterWindow'
  BY DEF Inv, TypeOK, CallbackInv, WindowInv, FinAfterWindow, Peers, Other, Msg, Est
<1>5. AnswerInv'
  BY DEF Inv, TypeOK, CallbackInv, AnswerInv, FinAfterWindow, Begun, Peers, Other, Msg, Est
<1> QED BY <1>1, <1>2, <1>3, <1>4, <1>5 DEF Inv

LEMMA FinEndStep ==
  ASSUME Inv, NEW p \in Peers, FinEnd(p)
  PROVE  Inv'
<1> USE DEF FinEnd, CloseWin, Unlocked, machine, calls, windows, timers
<1>1. TypeOK'
  BY ConnAssumption DEF Inv, TypeOK, Peers, Other, Est, Closers, Msg, CallbackInv
<1>2. \A q \in Peers : CallbackInv(q)'
  BY DEF Inv, TypeOK, CallbackInv, Peers, Est
<1>3. \A q \in Peers : WindowInv(q)'
  BY DEF Inv, TypeOK, CallbackInv, WindowInv, Peers, Est
<1>4. FinAfterWindow'
  BY DEF Inv, TypeOK, CallbackInv, WindowInv, FinAfterWindow, Peers, Other, Msg, Est
<1>5. AnswerInv'
  BY DEF Inv, TypeOK, CallbackInv, AnswerInv, FinAfterWindow, Begun, Peers, Other, Msg, Est
<1> QED BY <1>1, <1>2, <1>3, <1>4, <1>5 DEF Inv

LEMMA FinIgnoredStep ==
  ASSUME Inv, NEW p \in Peers, FinIgnored(p)
  PROVE  Inv'
<1> USE DEF FinIgnored, FinSources, Unlocked, machine, calls, windows, timers
<1>1. TypeOK'
  BY ConnAssumption DEF Inv, TypeOK, Peers, Other, Est, Closers, Msg, CallbackInv
<1>2. \A q \in Peers : CallbackInv(q)'
  BY DEF Inv, TypeOK, CallbackInv, Peers, Est
<1>3. \A q \in Peers : WindowInv(q)'
  BY DEF Inv, TypeOK, CallbackInv, WindowInv, Peers, Est
<1>4. FinAfterWindow'
  BY DEF Inv, TypeOK, CallbackInv, WindowInv, FinAfterWindow, Peers, Other, Msg, Est
<1>5. AnswerInv'
  BY DEF Inv, TypeOK, CallbackInv, AnswerInv, FinAfterWindow, Begun, Peers, Other, Msg, Est
<1> QED BY <1>1, <1>2, <1>3, <1>4, <1>5 DEF Inv

LEMMA ForceStartStep ==
  ASSUME Inv, NEW p \in Peers, ForceStart(p)
  PROVE  Inv'
<1> USE DEF ForceStart, Unlocked, machine, calls, windows, timers
<1>1. TypeOK'
  BY ConnAssumption DEF Inv, TypeOK, Peers, Other, Est, Closers, Msg, CallbackInv
<1>2. \A q \in Peers : CallbackInv(q)'
  BY DEF Inv, TypeOK, CallbackInv, Peers, Est
<1>3. \A q \in Peers : WindowInv(q)'
  BY DEF Inv, TypeOK, CallbackInv, WindowInv, Peers, Est
<1>4. FinAfterWindow'
  BY DEF Inv, TypeOK, CallbackInv, WindowInv, FinAfterWindow, Peers, Other, Msg, Est
<1>5. AnswerInv'
  BY DEF Inv, TypeOK, CallbackInv, AnswerInv, FinAfterWindow, Begun, Peers, Other, Msg, Est
<1> QED BY <1>1, <1>2, <1>3, <1>4, <1>5 DEF Inv

LEMMA ForceEndStep ==
  ASSUME Inv, NEW p \in Peers, ForceEnd(p)
  PROVE  Inv'
<1> USE DEF ForceEnd, CloseWin, Unlocked, machine, calls, windows, timers
<1>1. TypeOK'
  BY ConnAssumption DEF Inv, TypeOK, Peers, Other, Est, Closers, Msg, CallbackInv
<1>2. \A q \in Peers : CallbackInv(q)'
  BY DEF Inv, TypeOK, CallbackInv, Peers, Est
<1>3. \A q \in Peers : WindowInv(q)'
  BY DEF Inv, TypeOK, CallbackInv, WindowInv, Peers, Est
<1>4. FinAfterWindow'
  BY DEF Inv, TypeOK, CallbackInv, WindowInv, FinAfterWindow, Peers, Other, Msg, Est
<1>5. AnswerInv'
  BY DEF Inv, TypeOK, CallbackInv, AnswerInv, FinAfterWindow, Begun, Peers, Other, Msg, Est
<1> QED BY <1>1, <1>2, <1>3, <1>4, <1>5 DEF Inv

LEMMA SendKeepaliveFailsStep ==
  ASSUME Inv, NEW p \in Peers, SendKeepaliveFails(p)
  PROVE  Inv'
<1> USE DEF SendKeepaliveFails, CloseCall, Unlocked, machine, calls, windows, timers
<1>1. TypeOK'
  BY ConnAssumption DEF Inv, TypeOK, Peers, Other, Est, Closers, Msg, CallbackInv
<1>2. \A q \in Peers : CallbackInv(q)'
  BY DEF Inv, TypeOK, CallbackInv, Peers, Est
<1>3. \A q \in Peers : WindowInv(q)'
  BY DEF Inv, TypeOK, CallbackInv, WindowInv, Peers, Est
<1>4. FinAfterWindow'
  BY DEF Inv, TypeOK, CallbackInv, WindowInv, FinAfterWindow, Peers, Other, Msg, Est
<1>5. AnswerInv'
  BY DEF Inv, TypeOK, CallbackInv, AnswerInv, FinAfterWindow, Begun, Peers, Other, Msg, Est
<1> QED BY <1>1, <1>2, <1>3, <1>4, <1>5 DEF Inv

LEMMA KeepaliveTimeoutStep ==
  ASSUME Inv, NEW p \in Peers, KeepaliveTimeout(p)
  PROVE  Inv'
<1> USE DEF KeepaliveTimeout, CloseCall, Unlocked, machine, calls, windows, timers
<1>1. TypeOK'
  BY ConnAssumption DEF Inv, TypeOK, Peers, Other, Est, Closers, Msg, CallbackInv
<1>2. \A q \in Peers : CallbackInv(q)'
  BY DEF Inv, TypeOK, CallbackInv, Peers, Est
<1>3. \A q \in Peers : WindowInv(q)'
  BY DEF Inv, TypeOK, CallbackInv, WindowInv, Peers, Est
<1>4. FinAfterWindow'
  BY DEF Inv, TypeOK, CallbackInv, WindowInv, FinAfterWindow, Peers, Other, Msg, Est
<1>5. AnswerInv'
  BY DEF Inv, TypeOK, CallbackInv, AnswerInv, FinAfterWindow, Begun, Peers, Other, Msg, Est
<1> QED BY <1>1, <1>2, <1>3, <1>4, <1>5 DEF Inv

LEMMA AppCloseStep ==
  ASSUME Inv, NEW p \in Peers, AppClose(p)
  PROVE  Inv'
<1> USE DEF AppClose, CloseCall, Held, Unlocked, machine, calls, windows, timers
<1>1. TypeOK'
  BY ConnAssumption DEF Inv, TypeOK, Peers, Other, Est, Closers, Msg, CallbackInv
<1>2. \A q \in Peers : CallbackInv(q)'
  BY DEF Inv, TypeOK, CallbackInv, Peers, Est
<1>3. \A q \in Peers : WindowInv(q)'
  BY DEF Inv, TypeOK, CallbackInv, WindowInv, Peers, Est
<1>4. FinAfterWindow'
  BY DEF Inv, TypeOK, CallbackInv, WindowInv, FinAfterWindow, Peers, Other, Msg, Est
<1>5. AnswerInv'
  BY DEF Inv, TypeOK, CallbackInv, AnswerInv, FinAfterWindow, Begun, Peers, Other, Msg, Est
<1> QED BY <1>1, <1>2, <1>3, <1>4, <1>5 DEF Inv

LEMMA LingerStep ==
  ASSUME Inv, NEW p \in Peers, Linger(p)
  PROVE  Inv'
<1> USE DEF Linger, Unlocked, machine, calls, windows, timers
<1>1. TypeOK'
  BY ConnAssumption DEF Inv, TypeOK, Peers, Other, Est, Closers, Msg, CallbackInv
<1>2. \A q \in Peers : CallbackInv(q)'
  BY DEF Inv, TypeOK, CallbackInv, Peers, Est
<1>3. \A q \in Peers : WindowInv(q)'
  BY DEF Inv, TypeOK, CallbackInv, WindowInv, Peers, Est
<1>4. FinAfterWindow'
  BY DEF Inv, TypeOK, CallbackInv, WindowInv, FinAfterWindow, Peers, Other, Msg, Est
<1>5. AnswerInv'
  BY DEF Inv, TypeOK, CallbackInv, AnswerInv, FinAfterWindow, Begun, Peers, Other, Msg, Est
<1> QED BY <1>1, <1>2, <1>3, <1>4, <1>5 DEF Inv

LEMMA RecvAnswerStep ==
  ASSUME Inv, NEW p \in Peers, RecvAnswer(p)
  PROVE  Inv'
<1> USE DEF RecvAnswer, Reads, Asks, Selects, ResendsLeft, CallbackEnds, AnswerTo, Unlocked, machine, calls, windows, timers
<1>1. TypeOK'
  BY ConnAssumption DEF Inv, TypeOK, Peers, Other, Est, Closers, Msg, CallbackInv
<1>2. \A q \in Peers : CallbackInv(q)'
  BY DEF Inv, TypeOK, CallbackInv, Peers, Est
<1>3. \A q \in Peers : WindowInv(q)'
  BY DEF Inv, TypeOK, CallbackInv, WindowInv, Peers, Est
<1>4. FinAfterWindow'
  BY DEF Inv, TypeOK, CallbackInv, WindowInv, FinAfterWindow, Peers, Other, Msg, Est
<1>5. AnswerInv'
  BY DEF Inv, TypeOK, CallbackInv, AnswerInv, FinAfterWindow, Begun, Peers, Other, Msg, Est
<1> QED BY <1>1, <1>2, <1>3, <1>4, <1>5 DEF Inv

LEMMA RecvFin1Step ==
  ASSUME Inv, NEW p \in Peers, RecvFin1(p)
  PROVE  Inv'
<1> USE DEF RecvFin1, Reads, Unlocked, machine, calls, windows, timers
<1>1. TypeOK'
  BY ConnAssumption DEF Inv, TypeOK, Peers, Other, Est, Closers, Msg, CallbackInv
<1>2. \A q \in Peers : CallbackInv(q)'
  BY DEF Inv, TypeOK, CallbackInv, Peers, Est
<1>3. \A q \in Peers : WindowInv(q)'
  BY DEF Inv, TypeOK, CallbackInv, WindowInv, Peers, Est
<1>4. FinAfterWindow'
  BY DEF Inv, TypeOK, CallbackInv, WindowInv, FinAfterWindow, Peers, Other, Msg, Est
<1>5. AnswerInv'
  BY DEF Inv, TypeOK, CallbackInv, AnswerInv, FinAfterWindow, Begun, Peers, Other, Msg, Est
<1> QED BY <1>1, <1>2, <1>3, <1>4, <1>5 DEF Inv

LEMMA RecvPayloadStep ==
  ASSUME Inv, NEW p \in Peers, RecvPayload(p)
  PROVE  Inv'
<1> USE DEF RecvPayload, Reads, CloseCall, Held, Unlocked, machine, calls, windows, timers
<1>1. TypeOK'
  BY ConnAssumption DEF Inv, TypeOK, Peers, Other, Est, Closers, Msg, CallbackInv
<1>2. \A q \in Peers : CallbackInv(q)'
  BY DEF Inv, TypeOK, CallbackInv, Peers, Est
<1>3. \A q \in Peers : WindowInv(q)'
  BY DEF Inv, TypeOK, CallbackInv, WindowInv, Peers, Est
<1>4. FinAfterWindow'
  BY DEF Inv, TypeOK, CallbackInv, WindowInv, FinAfterWindow, Peers, Other, Msg, Est
<1>5. AnswerInv'
  BY DEF Inv, TypeOK, CallbackInv, AnswerInv, FinAfterWindow, Begun, Peers, Other, Msg, Est
<1> QED BY <1>1, <1>2, <1>3, <1>4, <1>5 DEF Inv

LEMMA RecvReturnsStep ==
  ASSUME Inv, NEW p \in Peers, RecvReturns(p)
  PROVE  Inv'
<1> USE DEF RecvReturns, Unlocked, machine, calls, windows, timers
<1>1. TypeOK'
  BY ConnAssumption DEF Inv, TypeOK, Peers, Other, Est, Closers, Msg, CallbackInv
<1>2. \A q \in Peers : CallbackInv(q)'
  BY DEF Inv, TypeOK, CallbackInv, Peers, Est
<1>3. \A q \in Peers : WindowInv(q)'
  BY DEF Inv, TypeOK, CallbackInv, WindowInv, Peers, Est
<1>4. FinAfterWindow'
  BY DEF Inv, TypeOK, CallbackInv, WindowInv, FinAfterWindow, Peers, Other, Msg, Est
<1>5. AnswerInv'
  BY DEF Inv, TypeOK, CallbackInv, AnswerInv, FinAfterWindow, Begun, Peers, Other, Msg, Est
<1> QED BY <1>1, <1>2, <1>3, <1>4, <1>5 DEF Inv

LEMMA ReadFailsStep ==
  ASSUME Inv, NEW p \in Peers, ReadFails(p)
  PROVE  Inv'
<1> USE DEF ReadFails, Unlocked, machine, calls, windows, timers
<1>1. TypeOK'
  BY ConnAssumption DEF Inv, TypeOK, Peers, Other, Est, Closers, Msg, CallbackInv
<1>2. \A q \in Peers : CallbackInv(q)'
  BY DEF Inv, TypeOK, CallbackInv, Peers, Est
<1>3. \A q \in Peers : WindowInv(q)'
  BY DEF Inv, TypeOK, CallbackInv, WindowInv, Peers, Est
<1>4. FinAfterWindow'
  BY DEF Inv, TypeOK, CallbackInv, WindowInv, FinAfterWindow, Peers, Other, Msg, Est
<1>5. AnswerInv'
  BY DEF Inv, TypeOK, CallbackInv, AnswerInv, FinAfterWindow, Begun, Peers, Other, Msg, Est
<1> QED BY <1>1, <1>2, <1>3, <1>4, <1>5 DEF Inv

LEMMA InvStep == Inv /\ [Next]_vars => Inv'
<1> SUFFICES ASSUME Inv, [Next]_vars PROVE Inv'
  OBVIOUS
<1>1. CASE UNCHANGED vars
  BY <1>1 DEF vars, machine, calls, windows, timers, Inv, TypeOK, CallbackInv, WindowInv,
    FinAfterWindow, AnswerInv, Begun
<1>2. CASE DialStart \/ DialEnd \/ Accept \/ RecvSyn1 \/ Syn1Event
  BY <1>2, DialStartStep, DialEndStep, AcceptStep, RecvSyn1Step, Syn1EventStep
<1>3. ASSUME NEW p \in Peers, Loops(p) \/ Closing(p) PROVE Inv'
  BY <1>3, AskStep, AskFailsStep, ExhaustedStep, AskTimeoutStep, SendWinClosedStep, CloseEndStep,
    CloseStartStep, CloseRefusedStep DEF Loops, Closing
<1>4. ASSUME NEW p \in Peers, Finning(p) \/ Forcing(p) \/ Keeping(p) PROVE Inv'
  BY <1>4, FinStartStep, FinEndStep, FinIgnoredStep, ForceStartStep, ForceEndStep,
    SendKeepaliveFailsStep, KeepaliveTimeoutStep DEF Finning, Forcing, Keeping
<1>5. ASSUME NEW p \in Peers,
             \/ AppClose(p) \/ Linger(p)
             \/ RecvAnswer(p) \/ RecvFin1(p) \/ RecvPayload(p) \/ RecvReturns(p) \/ ReadFails(p)
      PROVE  Inv'
  BY <1>5, AppCloseStep, LingerStep, RecvAnswerStep, RecvFin1Step, RecvPayloadStep,
    RecvReturnsStep, ReadFailsStep
<1> QED BY <1>1, <1>2, <1>3, <1>4, <1>5 DEF Next

LEMMA Invariance == Spec => []Inv
<1> QED BY InvInit, InvStep, PTL DEF Spec

-----------------------------------------------------------------------------
\* Type correctness, of every handler in every order.
THEOREM Typed == Spec => []TypeOK
<1>1. Inv => TypeOK
  BY DEF Inv
<1> QED BY <1>1, Invariance, PTL

\* Read and Write (conn.go) never meet a nil window: Dial and Accept let go of a
\* connection only after its callback made both.
THEOREM WindowsMade == Spec => []NoNilWindow
<1>1. Inv => NoNilWindow
  BY DEF Inv, WindowInv, NoNilWindow
<1> QED BY <1>1, Invariance, PTL

\* No FIN1 and no FIN2 leaves before the send window of its sender is closed.
THEOREM FinsAfterWindow == Spec => []FinAfterWindow
<1>1. Inv => FinAfterWindow
  BY DEF Inv
<1> QED BY <1>1, Invariance, PTL

\* Whichever of Close, FIN1 and socket error comes first, SWND.Close runs once.
THEOREM WindowClosedOnce == Spec => ClosedOnce
<1>1. Inv => \A p \in Peers :
        callback[p] \in {"closewin", "fin", "force"} /\ callback'[p] # callback[p]
          => sendWin[p] = "open"
  BY DEF Inv, WindowInv
<1> QED BY <1>1, Invariance, PTL DEF ClosedOnce

-----------------------------------------------------------------------------
\* Nothing that the session sees happens.
LEMMA Stutters ==
  ASSUME Inv, UNCHANGED <<status, outcome>>
  PROVE  \A q \in Peers : Phase(q)' = Phase(q)
<1> QED BY DEF Phase

\* One end moves.
LEMMA Moves ==
  ASSUME NEW p \in Peers, NEW to, Phase(p)' = to, \A q \in Peers \ {p} : Phase(q)' = Phase(q)
  PROVE  Abstract!Trans(p, Phase(p), to)
<1> QED BY DEF Abstract!Trans

\* An end whose callback changed alone.
LEMMA OthersStay ==
  ASSUME NEW p \in Peers,
         \A q \in Peers \ {p} : status'[q] = status[q] /\ outcome'[q] = outcome[q]
  PROVE  \A q \in Peers \ {p} : Phase(q)' = Phase(q)
<1> QED BY DEF Phase

\* The dial ends: the session is opened by the dialer, after the listener's end, or
\* it failed.
LEMMA DialEnds ==
  ASSUME Inv, DialEnd
  PROVE  Abstract!Next
<1> DEFINE p == "cli"
<1>1. p \in Peers /\ "ser" \in Peers /\ Phase(p) = "none"
  BY DEF DialEnd, Phase, Peers, Est
<1>2. \A q \in Peers \ {p} : Phase(q)' = Phase(q)
  <2>1. \A q \in Peers \ {p} : status'[q] = status[q] /\ outcome'[q] = outcome[q]
    BY DEF DialEnd, Inv, TypeOK
  <2> QED BY <1>1, <2>1, OthersStay
<1>3. CASE outcome[p] = "ok"
  <2>1. Phase(p)' = "open"
    BY <1>3 DEF DialEnd, Inv, TypeOK, Phase, Est, Peers
  <2>2. Phase("ser") # "none"
    BY <1>3 DEF DialEnd, Inv, TypeOK, AnswerInv, Begun, Phase, Est, Peers
  <2>3. Abstract!Trans(p, "none", "open")
    BY <1>1, <1>2, <2>1, Moves
  <2> QED BY <1>1, <2>2, <2>3 DEF Abstract!Next, Abstract!Open, Abstract!Peers, Peers
<1>4. CASE outcome[p] = "err"
  <2>1. Phase(p)' = "closed"
    BY <1>4 DEF DialEnd, Inv, TypeOK, Phase, Est, Peers
  <2> QED BY <1>1, <1>2, <2>1, Moves DEF Abstract!Next, Abstract!Fail
<1> QED BY <1>3, <1>4 DEF DialEnd

\* The first SYN1 opens the listener's end; another one changes nothing.
LEMMA Syn1Opens ==
  ASSUME Inv, Syn1Event
  PROVE  Abstract!Next \/ \A q \in Peers : Phase(q)' = Phase(q)
<1> DEFINE p == "ser"
<1>1. CASE status[p] # "Init"
  BY <1>1, Stutters DEF Syn1Event, Inv
<1>2. CASE status[p] = "Init"
  <2>1. p \in Peers /\ Phase(p) = "none"
    BY <1>2 DEF Phase, Peers, Est
  <2>2. \A q \in Peers \ {p} : status'[q] = status[q] /\ outcome'[q] = outcome[q]
    BY <1>2 DEF Syn1Event, Inv, TypeOK
  <2>3. Phase(p)' = "open"
    BY <1>2, <2>1 DEF Syn1Event, Inv, TypeOK, Phase, Est
  <2>4. Abstract!Trans(p, "none", "open")
    BY <2>1, <2>2, <2>3, Moves, OthersStay
  <2> QED BY <2>1, <2>4 DEF Abstract!Next, Abstract!Open, Abstract!Peers, Peers
<1> QED BY <1>1, <1>2

\* The loop of a dial or a close ends without an answer: nothing is seen of it.
LEMMA Unanswered ==
  ASSUME Inv, NEW p \in Peers, AskFails(p) \/ Exhausted(p)
  PROVE  \A q \in Peers : Phase(q)' = Phase(q)
<1>1. status' = status /\ outcome[p] # "ok" /\ outcome' = [outcome EXCEPT ![p] = "err"]
  BY DEF AskFails, Exhausted, CallbackEnds, Asks, Inv, CallbackInv
<1> QED BY <1>1 DEF Phase, Inv, TypeOK, Est

\* SYN2 ends the loop of the dial, which is not seen before DialEnd; FIN2 the one of
\* the close, and its sender is closed.
LEMMA Answered ==
  ASSUME Inv, NEW p \in Peers, RecvAnswer(p)
  PROVE  Abstract!Next \/ \A q \in Peers : Phase(q)' = Phase(q)
<1>1. status' = status /\ outcome[p] = "none" /\ outcome' = [outcome EXCEPT ![p] = "ok"]
  BY DEF RecvAnswer, CallbackEnds, Selects, Asks, Inv, CallbackInv
<1>2. CASE callback[p] = "SYN1"
  <2>1. status[p] = "SynSent"
    BY <1>2 DEF Inv, CallbackInv
  <2> QED BY <1>1, <2>1 DEF Phase, Inv, TypeOK, Est
<1>3. CASE callback[p] = "FIN1"
  <2>1. status[p] = "FinWait1"
    BY <1>3 DEF Inv, CallbackInv
  <2>2. Phase(p) = "closing" /\ Phase(p)' = "answered"
    BY <1>1, <2>1 DEF Phase, Inv, TypeOK, Est
  <2>3. Other(p) \in Peers /\ Other(Other(p)) = p
    BY DEF Peers, Other
  <2>4. Msg("FIN2", p) \in net
    BY <1>3 DEF RecvAnswer, AnswerTo
  <2>5. status[Other(p)] = "Closed"
    BY <2>3, <2>4 DEF Inv, FinAfterWindow
  <2>6. Phase(Other(p)) = "closed"
    BY <2>5 DEF Phase, Est
  <2>7. Abstract!Trans(p, "closing", "answered")
    BY <1>1, <2>2, Moves, OthersStay DEF Inv, TypeOK
  <2> QED BY <2>3, <2>6, <2>7 DEF Abstract!Next, Abstract!Answer, Abstract!Other, Other, Abstract!Peers, Peers
<1> QED BY <1>2, <1>3 DEF RecvAnswer, Selects, Asks

\* Close begins, and it ends.
LEMMA Closes ==
  ASSUME Inv, NEW p \in Peers, CloseEnd(p) \/ \E c \in Closers : CloseStart(p, c)
  PROVE  Abstract!Next
<1>1. \A q \in Peers \ {p} : status'[q] = status[q] /\ outcome'[q] = outcome[q]
  BY DEF CloseEnd, CloseStart, Inv, TypeOK
<1>2. CASE CloseEnd(p)
  <2>1. Phase(p) \in {"closing", "answered"} /\ Phase(p)' = "closed"
    BY <1>2 DEF CloseEnd, Phase, Est, Inv, TypeOK
  <2>2. Abstract!Trans(p, Phase(p), "closed")
    BY <1>1, <2>1, Moves, OthersStay
  <2> QED BY <2>1, <2>2 DEF Abstract!Next, Abstract!End, Abstract!Peers, Peers
<1>3. CASE \E c \in Closers : CloseStart(p, c)
  <2>1. Phase(p) = "open" /\ outcome[p] = "none" /\ outcome' = outcome
    BY <1>3 DEF CloseStart, Phase, Est, Inv, TypeOK, CallbackInv
  <2>2. Phase(p)' = "closing"
    BY <1>3, <2>1 DEF CloseStart, Phase, Est, Inv, TypeOK
  <2>3. Abstract!Trans(p, "open", "closing")
    BY <1>1, <2>1, <2>2, Moves, OthersStay
  <2> QED BY <2>3 DEF Abstract!Next, Abstract!Close, Abstract!Peers, Peers
<1> QED BY <1>2, <1>3

\* A FIN1 or an error of the socket closes an open end at once.
LEMMA Drops ==
  ASSUME Inv, NEW p \in Peers, FinStart(p) \/ (ForceStart(p) /\ status[p] \in Est)
  PROVE  Abstract!Next
<1>1. status[p] \in Est /\ status' = [status EXCEPT ![p] = "Closed"] /\ outcome' = outcome
  BY DEF FinStart, FinSources, ForceStart
<1>2. Phase(p) = "open" /\ Phase(p)' = "closed"
  BY <1>1 DEF Phase, Est, Inv, TypeOK
<1>3. Abstract!Trans(p, "open", "closed")
  BY <1>1, <1>2, Moves, OthersStay DEF Inv, TypeOK
<1> QED BY <1>3 DEF Abstract!Next, Abstract!Drop, Abstract!Peers, Peers

LEMMA StepIsSession ==
  ASSUME Inv, [Next]_vars
  PROVE  [Abstract!Next]_([p \in Peers |-> Phase(p)])
<1> SUFFICES Abstract!Next \/ \A q \in Peers : Phase(q)' = Phase(q)
  OBVIOUS
<1> USE DEF machine, calls, windows, timers
<1>1. CASE UNCHANGED vars
  BY <1>1, Stutters DEF vars
<1>2. CASE DialStart
  <2>1. status["cli"] = "Init" /\ status' = [status EXCEPT !["cli"] = "SynSent"] /\ outcome' = outcome
    BY <1>2 DEF DialStart, Inv, AnswerInv
  <2> QED BY <2>1 DEF Phase, Inv, TypeOK, Est
<1>3. CASE DialEnd \/ Syn1Event
  BY <1>3, DialEnds, Syn1Opens
<1>4. CASE Accept \/ RecvSyn1
  BY <1>4, Stutters DEF Accept, RecvSyn1
<1>5. ASSUME NEW p \in Peers, Loops(p)
      PROVE  Abstract!Next \/ \A q \in Peers : Phase(q)' = Phase(q)
  <2>1. Ask(p) \/ AskTimeout(p) => UNCHANGED <<status, outcome>>
    BY DEF Ask, AskTimeout
  <2> QED BY <1>5, <2>1, Stutters, Unanswered DEF Loops
<1>6. ASSUME NEW p \in Peers, Closing(p)
      PROVE  Abstract!Next \/ \A q \in Peers : Phase(q)' = Phase(q)
  <2>1. SendWinClosed(p) \/ (\E c \in Closers : CloseRefused(p, c)) => UNCHANGED <<status, outcome>>
    BY DEF SendWinClosed, CloseRefused
  <2> QED BY <1>6, <2>1, Stutters, Closes DEF Closing
<1>7. ASSUME NEW p \in Peers, Finning(p) \/ Forcing(p) \/ Keeping(p)
      PROVE  Abstract!Next \/ \A q \in Peers : Phase(q)' = Phase(q)
  <2>1. FinEnd(p) \/ FinIgnored(p) \/ ForceEnd(p) \/ Keeping(p) => UNCHANGED <<status, outcome>>
    BY DEF FinEnd, FinIgnored, ForceEnd, Keeping, SendKeepaliveFails, KeepaliveTimeout
  <2>2. ForceStart(p) /\ status[p] \notin Est => UNCHANGED <<status, outcome>>
    BY DEF ForceStart
  <2> QED BY <1>7, <2>1, <2>2, Stutters, Drops DEF Finning, Forcing
<1>8. ASSUME NEW p \in Peers,
             \/ AppClose(p) \/ Linger(p)
             \/ RecvAnswer(p) \/ RecvFin1(p) \/ RecvPayload(p) \/ RecvReturns(p) \/ ReadFails(p)
      PROVE  Abstract!Next \/ \A q \in Peers : Phase(q)' = Phase(q)
  <2>1. AppClose(p) \/ Linger(p) \/ RecvFin1(p) \/ RecvPayload(p) \/ RecvReturns(p) \/ ReadFails(p)
          => UNCHANGED <<status, outcome>>
    BY DEF AppClose, Linger, RecvFin1, RecvPayload, RecvReturns, ReadFails
  <2> QED BY <1>8, <2>1, Stutters, Answered
<1> QED BY <1>1, <1>2, <1>3, <1>4, <1>5, <1>6, <1>7, <1>8 DEF Next

LEMMA InitIsSession == Init => Abstract!Init
<1> QED BY DEF Init, Abstract!Init, Abstract!Peers, Peers, Phase, Est

\* The two state machines, whatever the network and the sockets do, are a session:
\* each end is opened once, the listener's first, and closed for good, and a FIN2
\* that is heard means that the other end is closed.
THEOREM IsSession == Spec => ImplementsSession
<1> QED BY InitIsSession, StepIsSession, Invariance, PTL DEF Spec, ImplementsSession, Abstract!Spec

-----------------------------------------------------------------------------
(* The waits, and what is left in the end. *)

\* Who waits for something has somebody who is going to do it, and who leaves the
\* connection leaves nothing open.
WaitInv(p) ==
  /\ status[p] = "FinWait1" <=> owner[p] # "none"
  /\ status[p] = "FinWait1" => callback[p] \in {"closewin", "FIN1"} \/ outcome[p] # "none"
  /\ status[p] = "SynSent" => callback[p] = "SYN1" \/ outcome[p] # "none"
  /\ reader[p] = "close" <=> "reader" \in waiting[p] \/ owner[p] = "reader"
  /\ ~("reader" \in waiting[p] /\ owner[p] = "reader")
  /\ callback[p] = "force" => reader[p] = "force"
  /\ callback[p] = "accept" <=> reader[p] = "accept"

CloseInv(p) ==
  /\ status[p] = "Closed" => ~udp[p] \/ linger[p] \/ callback[p] \in {"fin", "force"}
  /\ status[p] = "Closed" => sendWin[p] # "open" \/ callback[p] \in {"fin", "force"}

EndsInv ==
  /\ dial = "running" <=> status["cli"] = "SynSent"
  /\ \A p \in Peers : WaitInv(p) /\ CloseInv(p)

\* A step of one end other than those of a dial and of a SYN1.
PeerStep(p) ==
  \/ Loops(p) \/ Closing(p) \/ Finning(p) \/ Forcing(p) \/ Keeping(p)
  \/ AppClose(p) \/ Linger(p)
  \/ RecvAnswer(p) \/ RecvFin1(p) \/ RecvPayload(p) \/ RecvReturns(p) \/ ReadFails(p)

LEMMA EndsInit == Init => EndsInv
<1> QED BY DEF Init, EndsInv, WaitInv, CloseInv, Peers, Est

\* No step of either end breaks it.
LEMMA EndsStep == Inv /\ EndsInv /\ [Next]_vars => EndsInv'
<1> SUFFICES ASSUME Inv, EndsInv, [Next]_vars PROVE EndsInv'
  OBVIOUS
<1> USE DEF Inv, TypeOK, CallbackInv, WindowInv, AnswerInv, EndsInv, WaitInv, CloseInv, Unlocked,
            Peers, Est, Closers, machine, calls, windows, timers
<1>1. CASE UNCHANGED vars
  BY <1>1 DEF vars
<1>2. CASE DialStart
  BY <1>2 DEF DialStart
<1>3. CASE DialEnd
  BY <1>3 DEF DialEnd, InitWin, Keepalive
<1>4. CASE Accept
  BY <1>4 DEF Accept
<1>5. CASE RecvSyn1
  BY <1>5 DEF RecvSyn1, Reads
<1>6. CASE Syn1Event
  BY <1>6 DEF Syn1Event, InitWin, Keepalive
<1>7. ASSUME NEW p \in Peers, PeerStep(p) PROVE EndsInv'
  <2>1. CASE Ask(p)
    BY <2>1 DEF Ask, Asks
  <2>2. CASE AskFails(p)
    BY <2>2 DEF AskFails, Asks, CallbackEnds
  <2>3. CASE Exhausted(p)
    BY <2>3 DEF Exhausted, Asks, CallbackEnds
  <2>4. CASE AskTimeout(p)
    BY <2>4 DEF AskTimeout, Asks, Selects
  <2>5. CASE RecvAnswer(p)
    BY <2>5 DEF RecvAnswer, Asks, Selects, Reads, CallbackEnds
  <2>6. CASE SendWinClosed(p)
    BY <2>6 DEF SendWinClosed
  <2>7. CASE CloseEnd(p)
    BY <2>7 DEF CloseEnd, Back
  <2>8. CASE FinStart(p)
    BY <2>8 DEF FinStart, FinSources
  <2>9. CASE FinEnd(p)
    BY <2>9 DEF FinEnd, CloseWin
  <2>10. CASE FinIgnored(p)
    BY <2>10 DEF FinIgnored
  <2>11. CASE ForceStart(p)
    BY <2>11 DEF ForceStart
  <2>12. CASE ForceEnd(p)
    BY <2>12 DEF ForceEnd, CloseWin
  <2>13. CASE SendKeepaliveFails(p)
    BY <2>13 DEF SendKeepaliveFails, CloseCall
  <2>14. CASE KeepaliveTimeout(p)
    BY <2>14 DEF KeepaliveTimeout, CloseCall
  <2>15. CASE AppClose(p)
    BY <2>15 DEF AppClose, CloseCall
  <2>16. CASE Linger(p)
    BY <2>16 DEF Linger
  <2>17. CASE RecvFin1(p)
    BY <2>17 DEF RecvFin1, Reads
  <2>18. CASE RecvPayload(p)
    BY <2>18 DEF RecvPayload, Reads, CloseCall
  <2>19. CASE RecvReturns(p)
    BY <2>19 DEF RecvReturns
  <2>20. CASE ReadFails(p)
    BY <2>20 DEF ReadFails
  <2>21. ASSUME NEW c \in Closers, CloseStart(p, c) PROVE EndsInv'
    BY <2>21 DEF CloseStart, CloseWinFirst
  <2>22. ASSUME NEW c \in Closers, CloseRefused(p, c) PROVE EndsInv'
    BY <2>22 DEF CloseRefused, Back
  <2> HIDE DEF Inv, EndsInv
  <2> QED BY <1>7, <2>1, <2>2, <2>3, <2>4, <2>5, <2>6, <2>7, <2>8, <2>9, <2>10,
         <2>11, <2>12, <2>13, <2>14, <2>15, <2>16, <2>17, <2>18, <2>19, <2>20, <2>21, <2>22
      DEF PeerStep, Loops, Closing, Finning, Forcing, Keeping
<1> HIDE DEF Inv, EndsInv
<1> QED BY <1>1, <1>2, <1>3, <1>4, <1>5, <1>6, <1>7 DEF Next, PeerStep

LEMMA EndsInvariance == Spec => [](Inv /\ EndsInv)
<1> QED BY InvInit, InvStep, EndsInit, EndsStep, PTL DEF Spec

\* Who waits is not forgotten, at any moment: a Dial has its callback running or the
\* answer of it, and so has the goroutine whose Close runs; the reader that closes is
\* queued for the mutex or has it; and the callbacks that wait for the reader have it.
NobodyForgotten ==
  /\ dial = "running" => callback["cli"] = "SYN1" \/ outcome["cli"] # "none"
  /\ \A p \in Peers :
       /\ owner[p] # "none" => callback[p] \in {"closewin", "FIN1"} \/ outcome[p] # "none"
       /\ reader[p] = "close" => "reader" \in waiting[p] \/ owner[p] = "reader"
       /\ callback[p] = "force" => reader[p] = "force"
       /\ callback[p] = "accept" => reader[p] = "accept"
       /\ callback[p] = "fin" => fins[p] > 0

\* NobodyForgotten: what the liveness of Dial and Close rests on, for any ResendCount.
THEOREM WaitersHaveWork == Spec => []NobodyForgotten
<1>1. Inv /\ EndsInv => NobodyForgotten
  BY DEF Inv, CallbackInv, EndsInv, WaitInv, NobodyForgotten, Peers
<1> QED BY <1>1, EndsInvariance, PTL

\* A connection that is Closed leaves nothing open, once its callback is over: not its
\* send window, and its UDP connection (or its entry in the maps of the listener) is gone
\* or wait2msl is about to remove it.
NothingLeftOpen ==
  \A p \in Peers :
    status[p] = "Closed" /\ callback[p] = "none" => sendWin[p] # "open" /\ (~udp[p] \/ linger[p])

\* NothingLeftOpen: whichever of Close, FIN1, socket error and failed dial ended it.
THEOREM ClosedLeavesNothing == Spec => []NothingLeftOpen
<1>1. EndsInv => NothingLeftOpen
  BY DEF EndsInv, CloseInv, NothingLeftOpen
<1> QED BY <1>1, EndsInvariance, PTL

-----------------------------------------------------------------------------
(* What follows from being a session. *)

LEMMA SessionKeepsPromises == Abstract!Spec => []Abstract!Promises
<1> USE DEF Abstract!Promises, Abstract!ListenerFirst, Abstract!AnsweredIsClosed, Abstract!Peers,
            Abstract!Other, Peers
<1> DEFINE phase == [p \in Peers |-> Phase(p)]
<1>1. Abstract!Init => Abstract!Promises
  BY DEF Abstract!Init
<1>2. Abstract!Promises /\ [Abstract!Next]_phase => Abstract!Promises'
  BY DEF Abstract!Next, Abstract!Open, Abstract!Fail, Abstract!Close, Abstract!Answer, Abstract!End,
         Abstract!Drop, Abstract!Trans
<1> QED BY <1>1, <1>2, PTL DEF Abstract!Spec

\* A dialer that is established, or closing, has met a listener that is past its SYN1;
\* and a Close that ended by a FIN2 found the other end closed, so that nothing more
\* comes from there.
EndsAgree ==
  /\ status["cli"] \in Est \cup {"FinWait1"} => status["ser"] \notin {"Init", "SynSent"}
  /\ \A p \in Peers : status[p] = "FinWait1" /\ outcome[p] = "ok" => status[Other(p)] = "Closed"

\* EndsAgree: the handshakes of dial and close, by way of the session they implement.
THEOREM HandshakesAgree == Spec => []EndsAgree
<1>1. Inv /\ Abstract!Promises => EndsAgree
  <2> SUFFICES ASSUME Inv, Abstract!Promises PROVE EndsAgree
    OBVIOUS
  <2>1. \A p \in Peers : status[p] \in {"Init", "SynSent", "FinWait1", "Closed"} \cup Est
    BY DEF Inv, TypeOK
  <2>2. Phase("cli") \in {"open", "closing", "answered"} => Phase("ser") # "none"
    BY DEF Abstract!Promises, Abstract!ListenerFirst, Peers
  <2>3. \A p \in Peers : Phase(p) = "answered" => Phase(Other(p)) = "closed"
    BY DEF Abstract!Promises, Abstract!AnsweredIsClosed, Abstract!Peers, Abstract!Other, Peers, Other
  <2>4. status["cli"] \in Est \cup {"FinWait1"} => status["ser"] \notin {"Init", "SynSent"}
    BY <2>2 DEF Phase, Est
  <2>5. ASSUME NEW p \in Peers, status[p] = "FinWait1", outcome[p] = "ok"
        PROVE  status[Other(p)] = "Closed"
    <3>1. Phase(Other(p)) = "closed" /\ Other(p) \in Peers
      BY <2>3, <2>5 DEF Phase, Est, Peers, Other
    <3> QED BY <2>1, <3>1 DEF Phase, Est
  <2> QED BY <2>4, <2>5 DEF EndsAgree
<1> QED BY <1>1, IsSession, SessionKeepsPromises, Invariance, PTL DEF ImplementsSession
=============================================================================
