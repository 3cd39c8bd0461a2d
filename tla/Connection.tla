----------------------------- MODULE Connection -----------------------------
(***************************************************************************)
(* net/conn.go and net/mh.go: the life of one connection, from Dial and    *)
(* the first SYN1 to the close, at both ends.                              *)
(*                                                                         *)
(* Each end has a state machine (looplab/fsm).  Event holds a mutex while  *)
(* it runs the callback of the new state, and the callbacks wait: for an   *)
(* answer, for the send window to close, for Accept.  Whoever else has an  *)
(* event waits for the mutex, also the goroutine that handles the messages.*)
(* Event does nothing if the machine has no such event in its state, and   *)
(* if the new state is the old one.                                        *)
(*                                                                         *)
(* net is every message ever sent; the network delivers any of it, again   *)
(* and again, or never.  Payload is not kept in it: it may arrive whenever *)
(* the other application has had the connection.  Only the close of the    *)
(* windows is here, their work is in Transport.                            *)
(***************************************************************************)
EXTENDS Naturals

CONSTANTS
  ResendCount,  \* syn1ResendCount and fin1ResendCount
  MaxFins,      \* bound: goroutines of fin1MessageHandler at a time
  IOFails       \* can the socket of the dialer return an error?

ASSUME ConnAssumption ==
  /\ ResendCount \in Nat
  /\ MaxFins \in Nat
  /\ IOFails \in BOOLEAN

VARIABLES
  status,       \* of the state machine
  callback,     \* the callback that runs, under the mutex of the machine
  loop,         \* where its loop is: send, or wait (top and select)
  resends,      \* syn1ResendCount, then fin1ResendCount
  outcome,      \* what the callback of a dial or a close answered
  dial,         \* Dial: event, running, returned
  accepted,     \* has Accept returned the connection?
  waiting,      \* the goroutines in Close that have not got the mutex yet
  owner,        \* the goroutine whose Close runs
  fins,         \* goroutines of fin1MessageHandler
  reader,       \* the goroutine that handles the messages
  sendWin, recvWin,
  udp,          \* the UDP connection, or the entry in the maps of the listener
  linger,       \* is the timer of wait2msl running?
  sender,       \* the goroutine that sends keepalives
  watcher,      \* the one that waits for them
  net

machine == <<status, callback, loop, resends, outcome>>
calls == <<dial, accepted, waiting, owner>>
windows == <<sendWin, recvWin>>
timers == <<linger, sender, watcher>>
vars == <<machine, calls, fins, reader, windows, udp, timers, net>>

Peers == {"cli", "ser"}
Other(p) == IF p = "cli" THEN "ser" ELSE "cli"
Est == {"CliEstablished", "SerEstablished"}
Closers == {"app", "sender", "watcher", "reader"}
Msg(kind, p) == <<kind, p>>                \* a message to p

Unlocked(p) == callback[p] = "none"
Held(p) == IF p = "cli" THEN dial = "returned" ELSE accepted

-----------------------------------------------------------------------------
Init ==
  /\ status = [p \in Peers |-> "Init"]
  /\ callback = [p \in Peers |-> "none"]
  /\ loop = [p \in Peers |-> "send"]
  /\ resends = [p \in Peers |-> 0]
  /\ outcome = [p \in Peers |-> "none"]
  /\ dial = "event"
  /\ accepted = FALSE
  /\ waiting = [p \in Peers |-> {}]
  /\ owner = [p \in Peers |-> "none"]
  /\ fins = [p \in Peers |-> 0]
  /\ reader = [p \in Peers |-> "off"]
  /\ sendWin = [p \in Peers |-> "none"]
  /\ recvWin = [p \in Peers |-> "none"]
  /\ udp = [p \in Peers |-> TRUE]
  /\ linger = [p \in Peers |-> FALSE]
  /\ sender = [p \in Peers |-> "off"]
  /\ watcher = [p \in Peers |-> "off"]
  /\ net = {}

\* initWin, and the start of keepalive.
InitSendWinOnly(p) ==
  /\ sendWin' = [sendWin EXCEPT ![p] = "open"]
  /\ UNCHANGED recvWin
InitWin(p) ==
  /\ sendWin' = [sendWin EXCEPT ![p] = "open"]
  /\ recvWin' = [recvWin EXCEPT ![p] = "open"]

KeepaliveSendOnly(p) ==
  /\ sender' = [sender EXCEPT ![p] = "run"]
  /\ UNCHANGED watcher
Keepalive(p) ==
  /\ sender' = [sender EXCEPT ![p] = "run"]
  /\ watcher' = [watcher EXCEPT ![p] = "run"]

-----------------------------------------------------------------------------
\* The loop of a dial (SYN1) and of a close (FIN1) in its callback.
Asks(p) == callback[p] \in {"SYN1", "FIN1"}

\* The close has a counter of its own (fin1ResendCount), still 0.
CallbackEnds(p, o) ==
  /\ callback' = [callback EXCEPT ![p] = "none"]
  /\ loop' = [loop EXCEPT ![p] = "send"]
  /\ resends' = [resends EXCEPT ![p] = 0]
  /\ outcome' = [outcome EXCEPT ![p] = o]

\* The first send of a dial starts loopReadUDP.
Ask(p) ==
  /\ Asks(p) /\ loop[p] = "send"
  /\ loop' = [loop EXCEPT ![p] = "wait"]
  /\ net' = net \cup {Msg(callback[p], Other(p))}
  /\ reader' = IF reader[p] = "off" THEN [reader EXCEPT ![p] = "read"] ELSE reader
  /\ UNCHANGED <<status, callback, resends, outcome, calls, fins, windows, udp, timers>>

\* errNotReachable.  A write error of the listener panics instead.
AskFails(p) ==
  /\ IOFails /\ p = "cli"
  /\ Asks(p) /\ loop[p] = "send"
  /\ CallbackEnds(p, "err")
  /\ UNCHANGED <<status, calls, fins, reader, windows, udp, timers, net>>

\* The limit of the resends; first its mutated form.
ResendsToo(p) == resends[p] <= ResendCount
ResendsLeft(p) == resends[p] < ResendCount
Selects(p) == Asks(p) /\ loop[p] = "wait" /\ ResendsLeft(p)

\* errDialTimeout, errFINTimeout.
Exhausted(p) ==
  /\ Asks(p) /\ loop[p] = "wait" /\ ~ResendsLeft(p)
  /\ CallbackEnds(p, "err")
  /\ UNCHANGED <<status, calls, fins, reader, windows, udp, timers, net>>

NoTimeout(p) == loop[p] = "never" /\ UNCHANGED vars
AskTimeout(p) ==
  /\ Selects(p)
  /\ loop' = [loop EXCEPT ![p] = "send"]
  /\ resends' = [resends EXCEPT ![p] = @ + 1]
  /\ UNCHANGED <<status, callback, outcome, calls, fins, reader, windows, udp, timers, net>>

-----------------------------------------------------------------------------
\* Dial, and its second event: EventCliRecvSyn2, or EventCliNotRecvSyn2Err, whose
\* nil replaces the error.
DialStart ==
  /\ dial = "event"
  /\ dial' = "running"
  /\ status' = [status EXCEPT !["cli"] = "SynSent"]
  /\ callback' = [callback EXCEPT !["cli"] = "SYN1"]
  /\ UNCHANGED <<loop, resends, outcome, accepted, waiting, owner, fins, reader, windows, udp, timers, net>>

DialEnd ==
  /\ dial = "running" /\ outcome["cli"] # "none"
  /\ Unlocked("cli") /\ status["cli"] = "SynSent"
  /\ dial' = "returned"
  /\ outcome' = [outcome EXCEPT !["cli"] = "none"]
  /\ \/ /\ outcome["cli"] = "ok"
        /\ status' = [status EXCEPT !["cli"] = "CliEstablished"]
        /\ InitWin("cli") /\ Keepalive("cli")
        /\ UNCHANGED <<udp, linger>>
     \/ /\ outcome["cli"] = "err"
        /\ status' = [status EXCEPT !["cli"] = "Closed"]
        /\ udp' = [udp EXCEPT !["cli"] = FALSE]
        /\ UNCHANGED <<windows, timers>>
  /\ UNCHANGED <<callback, loop, resends, accepted, waiting, owner, fins, reader, net>>

\* Accept takes the connection and lets the callback of SerEstablished end.
Accept ==
  /\ callback["ser"] = "accept"
  /\ accepted' = TRUE
  /\ callback' = [callback EXCEPT !["ser"] = "none"]
  /\ reader' = [reader EXCEPT !["ser"] = "read"]
  /\ UNCHANGED <<status, loop, resends, outcome, dial, waiting, owner, fins, windows, udp, timers, net>>

-----------------------------------------------------------------------------
\* Close by goroutine c: the application, or the keepalive's goroutines.
CloseCall(p, c) == waiting' = [waiting EXCEPT ![p] = @ \cup {c}]

AppClose(p) ==
  /\ Held(p) /\ owner[p] # "app"
  /\ CloseCall(p, "app")
  /\ UNCHANGED <<machine, dial, accepted, owner, fins, reader, windows, udp, timers, net>>

SendKeepaliveFails(p) ==
  /\ sender[p] = "run" /\ p = "cli"
  /\ IOFails \/ ~udp[p]
  /\ sender' = [sender EXCEPT ![p] = "end"]
  /\ CloseCall(p, "sender")
  /\ UNCHANGED <<machine, dial, accepted, owner, fins, reader, windows, udp, linger, watcher, net>>

KeepaliveTimeout(p) ==
  /\ watcher[p] = "run"
  /\ watcher' = [watcher EXCEPT ![p] = "end"]
  /\ CloseCall(p, "watcher")
  /\ UNCHANGED <<machine, dial, accepted, owner, fins, reader, windows, udp, linger, sender, net>>

Back(c, p) == IF c = "reader" THEN [reader EXCEPT ![p] = "read"] ELSE reader

\* EventClose in Established: closeSendWin starts (closeSignal), the rest of the
\* callback follows.  The mutated form sends the FIN1 first.
CloseWinLater(p) == "FIN1"
CloseWinFirst(p) == "closewin"

CloseStart(p, c) ==
  /\ Unlocked(p) /\ status[p] \in Est
  /\ c \in waiting[p]
  /\ waiting' = [waiting EXCEPT ![p] = @ \ {c}]
  /\ owner' = [owner EXCEPT ![p] = c]
  /\ status' = [status EXCEPT ![p] = "FinWait1"]
  /\ callback' = [callback EXCEPT ![p] = CloseWinFirst(p)]
  /\ UNCHANGED <<loop, resends, outcome, dial, accepted, fins, reader, windows, udp, timers, net>>

CloseRefused(p, c) ==
  /\ Unlocked(p) /\ status[p] \notin Est
  /\ c \in waiting[p]
  /\ waiting' = [waiting EXCEPT ![p] = @ \ {c}]
  /\ reader' = Back(c, p)
  /\ UNCHANGED <<machine, dial, accepted, owner, fins, windows, udp, timers, net>>

\* closeSendWin returns; its error is ignored.
SendWinClosed(p) ==
  /\ callback[p] = "closewin"
  /\ sendWin' = [sendWin EXCEPT ![p] = "closed"]
  /\ callback' = [callback EXCEPT ![p] = "FIN1"]
  /\ UNCHANGED <<status, loop, resends, outcome, calls, fins, reader, recvWin, udp, timers, net>>

\* EventRecvFin2, or EventNotRecvFin2Err, whose nil replaces the error.
CloseEnd(p) ==
  /\ outcome[p] # "none" /\ Unlocked(p) /\ status[p] = "FinWait1"
  /\ outcome' = [outcome EXCEPT ![p] = "none"]
  /\ status' = [status EXCEPT ![p] = "Closed"]
  /\ recvWin' = [recvWin EXCEPT ![p] = "closed"]
  /\ udp' = [udp EXCEPT ![p] = FALSE]
  /\ owner' = [owner EXCEPT ![p] = "none"]
  /\ reader' = Back(owner[p], p)
  /\ UNCHANGED <<callback, loop, resends, dial, accepted, waiting, fins, sendWin, timers, net>>

-----------------------------------------------------------------------------
\* The sources of EventRecvFin1 that run its callback; first a mutated form.
FinSourcesToo == Est \cup {"FinWait1"}
FinSources == Est

\* A goroutine of fin1MessageHandler gets the mutex.
FinStart(p) ==
  /\ fins[p] > 0 /\ Unlocked(p) /\ status[p] \in FinSources
  /\ status' = [status EXCEPT ![p] = "Closed"]
  /\ callback' = [callback EXCEPT ![p] = "fin"]
  /\ UNCHANGED <<loop, resends, outcome, calls, fins, reader, windows, udp, timers, net>>

\* closeWin leaves the receive window open if the send window timed out; then the
\* FIN2 is sent and wait2msl starts.
CloseWin(p) ==
  /\ sendWin' = [sendWin EXCEPT ![p] = "closed"]
  /\ \E timedOut \in BOOLEAN :
       recvWin' = IF timedOut THEN recvWin ELSE [recvWin EXCEPT ![p] = "closed"]

FinEnd(p) ==
  /\ callback[p] = "fin"
  /\ CloseWin(p)
  /\ net' = net \cup {Msg("FIN2", Other(p))}
  /\ linger' = [linger EXCEPT ![p] = TRUE]
  /\ callback' = [callback EXCEPT ![p] = "none"]
  /\ fins' = [fins EXCEPT ![p] = @ - 1]
  /\ UNCHANGED <<status, loop, resends, outcome, calls, reader, udp, sender, watcher>>

FinIgnored(p) ==
  /\ fins[p] > 0 /\ Unlocked(p) /\ status[p] \notin FinSources
  /\ fins' = [fins EXCEPT ![p] = @ - 1]
  /\ UNCHANGED <<machine, calls, reader, windows, udp, timers, net>>

Linger(p) ==
  /\ linger[p]
  /\ linger' = [linger EXCEPT ![p] = FALSE]
  /\ udp' = [udp EXCEPT ![p] = FALSE]
  /\ UNCHANGED <<machine, calls, fins, reader, windows, sender, watcher, net>>

-----------------------------------------------------------------------------
\* The reader of the messages.  What the listener has queued is still handled
\* when the connection is out of its maps.
Reads(p) == reader[p] = "read" /\ (p = "cli" => udp[p])

\* The first SYN1 makes the connection of the listener.
RecvSyn1 ==
  /\ Msg("SYN1", "ser") \in net
  /\ reader["ser"] = "off" \/ Reads("ser")
  /\ reader' = [reader EXCEPT !["ser"] = "syn1"]
  /\ UNCHANGED <<machine, calls, fins, windows, udp, timers, net>>

Syn1Event ==
  /\ reader["ser"] = "syn1" /\ Unlocked("ser")
  /\ \/ /\ status["ser"] = "Init"
        /\ status' = [status EXCEPT !["ser"] = "SerEstablished"]
        /\ callback' = [callback EXCEPT !["ser"] = "accept"]
        /\ reader' = [reader EXCEPT !["ser"] = "accept"]
        /\ InitWin("ser") /\ Keepalive("ser")
        /\ net' = net \cup {Msg("SYN2", "cli")}
        /\ UNCHANGED linger
     \/ /\ status["ser"] # "Init"
        /\ reader' = [reader EXCEPT !["ser"] = "read"]
        /\ UNCHANGED <<status, callback, windows, timers, net>>
  /\ UNCHANGED <<loop, resends, outcome, calls, fins, udp>>

\* SYN2 and FIN2 are dropped unless the callback is at its select.
AnySyn2(k) == "SYN2"
AnswerTo(k) == IF k = "SYN1" THEN "SYN2" ELSE "FIN2"

RecvAnswer(p) ==
  /\ Reads(p)
  /\ Selects(p)
  /\ Msg(AnswerTo(callback[p]), p) \in net
  /\ CallbackEnds(p, "ok")
  /\ UNCHANGED <<status, calls, fins, reader, windows, udp, timers, net>>

RecvFin1(p) ==
  /\ Reads(p) /\ Msg("FIN1", p) \in net
  /\ fins[p] < MaxFins
  /\ fins' = [fins EXCEPT ![p] = @ + 1]
  /\ UNCHANGED <<machine, calls, reader, windows, udp, timers, net>>

\* A payload: Close if there is no window yet, else Recv, which blocks while the
\* application does not read.
RecvPayload(p) ==
  /\ Reads(p) /\ Held(Other(p)) /\ sendWin[Other(p)] # "none"
  /\ \/ /\ recvWin[p] = "none"
        /\ reader' = [reader EXCEPT ![p] = "close"]
        /\ CloseCall(p, "reader")
     \/ /\ recvWin[p] = "open"
        /\ reader' = [reader EXCEPT ![p] = "recv"]
        /\ UNCHANGED waiting
  /\ UNCHANGED <<machine, dial, accepted, owner, fins, windows, udp, timers, net>>

RecvReturns(p) ==
  /\ reader[p] = "recv"
  /\ reader' = [reader EXCEPT ![p] = "read"]
  /\ UNCHANGED <<machine, calls, fins, windows, udp, timers, net>>

\* The dialer's UDP connection answers an error, the goroutine of the listener
\* is told to end.
ReadFails(p) ==
  /\ reader[p] = "read"
  /\ ~udp[p] \/ (IOFails /\ p = "cli")
  /\ reader' = [reader EXCEPT ![p] = IF p = "cli" THEN "force" ELSE "end"]
  /\ UNCHANGED <<machine, calls, fins, windows, udp, timers, net>>

\* EventForceClose.
ForceStart(p) ==
  /\ reader[p] = "force" /\ Unlocked(p)
  /\ IF status[p] \in Est
       THEN /\ status' = [status EXCEPT ![p] = "Closed"]
            /\ callback' = [callback EXCEPT ![p] = "force"]
            /\ UNCHANGED reader
       ELSE /\ reader' = [reader EXCEPT ![p] = "end"]
            /\ UNCHANGED <<status, callback>>
  /\ UNCHANGED <<loop, resends, outcome, calls, fins, windows, udp, timers, net>>

ForceEnd(p) ==
  /\ callback[p] = "force"
  /\ CloseWin(p)
  /\ callback' = [callback EXCEPT ![p] = "none"]
  /\ udp' = [udp EXCEPT ![p] = FALSE]
  /\ reader' = [reader EXCEPT ![p] = "end"]
  /\ UNCHANGED <<status, loop, resends, outcome, calls, fins, timers, net>>

-----------------------------------------------------------------------------
\* The goroutine of the dial or of the close, and of a FIN1.
Loops(p) == Ask(p) \/ AskFails(p) \/ Exhausted(p) \/ AskTimeout(p)
Closing(p) ==
  SendWinClosed(p) \/ CloseEnd(p) \/ \E c \in Closers : CloseStart(p, c) \/ CloseRefused(p, c)
Finning(p) == FinStart(p) \/ FinEnd(p) \/ FinIgnored(p)
Forcing(p) == ForceStart(p) \/ ForceEnd(p)
Keeping(p) == SendKeepaliveFails(p) \/ KeepaliveTimeout(p)

Next ==
  \/ DialStart \/ DialEnd \/ Accept \/ RecvSyn1 \/ Syn1Event
  \/ \E p \in Peers :
       \/ Loops(p) \/ Closing(p) \/ Finning(p) \/ Forcing(p) \/ Keeping(p)
       \/ AppClose(p) \/ Linger(p)
       \/ RecvAnswer(p) \/ RecvFin1(p) \/ RecvPayload(p) \/ RecvReturns(p) \/ ReadFails(p)

\* Goroutines are scheduled, timers fire and the application accepts.  It need
\* not read: Recv returns for certain only when its window is closed.  A keepalive
\* timer fires for certain if the other end sends none, or if the reader is stuck.
Caller(p) ==
  \/ Loops(p) \/ SendWinClosed(p) \/ FinEnd(p) \/ ForceEnd(p) \/ (p = "ser" /\ Accept)
  \/ CloseEnd(p) \/ (p = "cli" /\ DialEnd)
GetsMutex(p, c) == CloseStart(p, c) \/ CloseRefused(p, c)
Reader(p) ==
  \/ recvWin[p] = "closed" /\ RecvReturns(p)
  \/ ForceStart(p) \/ GetsMutex(p, "reader")
  \/ p = "ser" /\ Syn1Event
Silent(p) == (sender[Other(p)] # "run" \/ reader[p] = "recv") /\ KeepaliveTimeout(p)
Gone(p) == ~udp[p] /\ SendKeepaliveFails(p)

Fairness ==
  /\ \A p \in Peers :
       /\ WF_vars(Caller(p)) /\ WF_vars(Reader(p)) /\ WF_vars(Silent(p))
       /\ WF_vars(\E c \in Closers \ {"reader"} : GetsMutex(p, c))
  /\ WF_vars(Linger("cli")) /\ WF_vars(Gone("cli"))

Spec == Init /\ [][Next]_vars /\ Fairness

-----------------------------------------------------------------------------
\* Type invariant.
TypeOK ==
  /\ status \in [Peers -> {"Init", "SynSent", "FinWait1", "Closed"} \cup Est]
  /\ callback \in [Peers -> {"none", "SYN1", "FIN1", "accept", "closewin", "fin", "force"}]
  /\ loop \in [Peers -> {"send", "wait"}]
  /\ resends \in [Peers -> 0 .. ResendCount]
  /\ outcome \in [Peers -> {"none", "ok", "err"}]
  /\ dial \in {"event", "running", "returned"}
  /\ accepted \in BOOLEAN
  /\ waiting \in [Peers -> SUBSET Closers]
  /\ owner \in [Peers -> Closers \cup {"none"}]
  /\ fins \in [Peers -> 0 .. MaxFins]
  /\ reader \in [Peers -> {"off", "read", "syn1", "accept", "close", "recv", "force", "end"}]
  /\ sendWin \in [Peers -> {"none", "open", "closed"}]
  /\ recvWin \in [Peers -> {"none", "open", "closed"}]
  /\ udp \in [Peers -> BOOLEAN]
  /\ linger \in [Peers -> BOOLEAN]
  /\ sender \in [Peers -> {"off", "run", "end"}]
  /\ watcher \in [Peers -> {"off", "run", "end"}]
  /\ net \subseteq {"SYN1", "SYN2", "FIN1", "FIN2"} \X Peers

\* Read and Write look at the status only and then use the windows, which are nil
\* before the callback made them: the application never finds them so.
NoNilWindow ==
  \A p \in Peers : Held(p) /\ status[p] \in Est => sendWin[p] # "none" /\ recvWin[p] # "none"

\* A FIN1 says that everything was sent, a FIN2 that the other end has closed too:
\* neither leaves before the send window of its sender is closed, and an end that
\* got its FIN2 knows that the other one is closed.
FinAfterWindow ==
  \A p \in Peers :
    /\ Msg("FIN1", Other(p)) \in net => sendWin[p] = "closed"
    /\ Msg("FIN2", Other(p)) \in net => sendWin[p] = "closed" /\ status[p] = "Closed"

\* The windows are closed by whoever leaves Established, and by nobody else: the
\* two that may do so at once (Close and a FIN1, or a socket error) meet in the
\* state machine, and SWND.Close (swnd.go:395) has no second caller.
ClosedOnce ==
  [][\A p \in Peers :
       callback[p] \in {"closewin", "fin", "force"} /\ callback'[p] # callback[p]
         => sendWin[p] = "open"]_vars

\* Both ends together are a session: opened once and closed once, the dialer never
\* alone, and no FIN2 from an end that is not closed.
Phase(p) ==
  CASE status[p] \in {"Init", "SynSent"} -> "none"
    [] status[p] \in Est -> "open"
    [] status[p] = "FinWait1" /\ outcome[p] # "ok" -> "closing"
    [] status[p] = "FinWait1" /\ outcome[p] = "ok" -> "answered"
    [] status[p] = "Closed" -> "closed"

Abstract == INSTANCE Session WITH phase <- [p \in Peers |-> Phase(p)]
ImplementsSession == Abstract!Spec

\* Dial and Close return, whatever is lost and whoever else closes at the same
\* time: no goroutine waits for another one for good.
CallsReturn ==
  /\ dial = "running" ~> dial = "returned"
  /\ \A p \in Peers :
       "app" \in waiting[p] ~> "app" \notin waiting[p] /\ owner[p] # "app"

\* The server does not stay open when its client is gone.
ServerFollows == status["cli"] = "Closed" /\ status["ser"] \in Est ~> status["ser"] \notin Est

\* The goroutine of the messages comes back from Recv, from Close and from the
\* state machine, although the application need not read; unless closeWin left
\* the receive window open.
LeftOpen(p) == status[p] = "Closed" /\ recvWin[p] = "open"
ReaderReleased ==
  \A p \in Peers :
    reader[p] \notin {"off", "read", "end"} ~> reader[p] \in {"read", "end"} \/ LeftOpen(p)

\* "dial timeout" (conn.go:67): a Dial that returns nil has a connection, and the
\* tests use it without another look (net/conn_test.go).
DialMeansEstablished == dial = "returned" => sendWin["cli"] # "none"
=============================================================================
