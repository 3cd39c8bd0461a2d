------------------------------ MODULE Listener ------------------------------
(***************************************************************************)
(* net/listener.go: one goroutine reads the socket of all connections and  *)
(* hands each datagram to the worker of the connection of its address.     *)
(* Three maps (sync.Map) lead from an address to the connection, the       *)
(* channel of its messages and the channel that ends its worker.  The      *)
(* reader fills them, RmGConn empties them, entry by entry, and only       *)
(* RmGConn takes rmConnLock.                                               *)
(*                                                                         *)
(* Of a connection (see Connection) there is what the listener meets: its  *)
(* SYN1, Accept, who closes it, and when it calls RmGConn.                 *)
(***************************************************************************)
EXTENDS Naturals, Sequences

CONSTANTS
  Addrs,        \* of the peers
  MaxConns,     \* bound: connections made by the reader, 1, 2, ...
  QSize         \* msgQSize

ASSUME ListenerAssumption ==
  /\ Addrs # {}
  /\ MaxConns \in Nat
  /\ QSize \in Nat \ {0}

Conns == 1 .. MaxConns
None == 0

VARIABLES
  reader,       \* the reader: where it is, and its local variables
  made,         \* how many connections it has made
  addrOf,       \* the address of a connection
  gcs, msgs, closes,
  queue,        \* the messages in the channel of a connection
  told,         \* the connections whose channel in closes is closed
  worker,       \* what the worker of a connection does
  conn,         \* what has become of the connection
  rm,           \* the steps of its RmGConn
  closeSignal,
  closer,       \* Listener.Close: the addresses left, and the connection it closes
  crashed,      \* has RecvNewConn panicked?
  raced         \* the addresses registered while RmGConn removed them (a history)

maps == <<gcs, msgs, closes>>
peers == <<made, addrOf, conn, rm>>
app == <<closeSignal, closer>>
vars == <<reader, peers, maps, queue, told, worker, app, crashed, raced>>

Kinds == {"SYN1", "other"}                    \* of messages
Steps == {"msgs", "load", "closes"}           \* of RmGConn, after the first
Anywhere == CHOOSE a \in Addrs : TRUE

\* The reader at the top of its loop.
AtStart == [at |-> "check", addr |-> Anywhere, kind |-> "SYN1", msgs |-> None, closes |-> None]

Init ==
  /\ reader = AtStart
  /\ made = 0
  /\ addrOf = [c \in Conns |-> Anywhere]
  /\ gcs = [a \in Addrs |-> None] /\ msgs = gcs /\ closes = gcs
  /\ queue = [c \in Conns |-> <<>>]
  /\ told = {}
  /\ worker = [c \in Conns |-> "none"]
  /\ conn = [c \in Conns |-> "none"]
  /\ rm = [c \in Conns |-> "no"]
  /\ closeSignal = FALSE
  /\ closer = [left |-> {}, conn |-> None]
  /\ crashed = FALSE
  /\ raced = {}

-----------------------------------------------------------------------------
Goes(at) == reader' = [reader EXCEPT !.at = at]

Check ==
  /\ reader.at = "check"
  /\ Goes(IF closeSignal THEN "end" ELSE "load")
  /\ UNCHANGED <<peers, maps, queue, told, worker, app, crashed, raced>>

\* A datagram from anywhere, and the look at gcs: an unknown address is registered if
\* the message is a SYN1; each condition is preceded by its mutated form.
AnyMessage(k) == TRUE
IsSyn1(k) == k = "SYN1"
NeverKnown(a) == FALSE
Known(a) == gcs[a] # None

ReadFromUDP(a, k) ==
  /\ reader.at = "load"
  /\ made = MaxConns => ~IsSyn1(k)
  /\ reader' = [reader EXCEPT !.addr = a, !.kind = k,
                  !.at = IF ~Known(a) /\ IsSyn1(k) /\ made < MaxConns THEN "gcs" ELSE "find"]
  /\ UNCHANGED <<peers, maps, queue, told, worker, app, crashed, raced>>

\* The three entries of a new connection, and its worker.
StoreConn ==
  /\ reader.at = "gcs"
  /\ made' = made + 1
  /\ addrOf' = [addrOf EXCEPT ![made'] = reader.addr]
  /\ conn' = [conn EXCEPT ![made'] = "init"]
  /\ gcs' = [gcs EXCEPT ![reader.addr] = made']
  /\ raced' = IF \E c \in Conns : rm[c] \in Steps /\ addrOf[c] = reader.addr
                THEN raced \cup {reader.addr} ELSE raced
  /\ Goes("msgs")
  /\ UNCHANGED <<rm, msgs, closes, queue, told, worker, app, crashed>>

StoreMsgs ==
  /\ reader.at = "msgs"
  /\ msgs' = [msgs EXCEPT ![reader.addr] = made]
  /\ Goes("closes")
  /\ UNCHANGED <<peers, gcs, closes, queue, told, worker, app, crashed, raced>>

StoreCloses ==
  /\ reader.at = "closes"
  /\ closes' = [closes EXCEPT ![reader.addr] = made]
  /\ worker' = [worker EXCEPT ![made] = "select"]
  /\ Goes("find")
  /\ UNCHANGED <<peers, gcs, msgs, queue, told, app, crashed, raced>>

\* The channels of the address, if both are there.
FindMsgs ==
  /\ reader.at = "find"
  /\ reader' = IF msgs[reader.addr] = None THEN AtStart
               ELSE [reader EXCEPT !.msgs = msgs[reader.addr], !.at = "found"]
  /\ UNCHANGED <<peers, maps, queue, told, worker, app, crashed, raced>>

FindCloses ==
  /\ reader.at = "found"
  /\ reader' = IF closes[reader.addr] = None THEN AtStart
               ELSE [reader EXCEPT !.closes = closes[reader.addr], !.at = "push"]
  /\ UNCHANGED <<peers, maps, queue, told, worker, app, crashed, raced>>

\* The select: a full channel blocks the reader until there is room, or the worker has
\* been told to end.  The mutated forms count wrong and lack the second case.
RoomForOneMore(q) == Len(q) <= QSize
Room(q) == Len(q) < QSize
NeverTold == FALSE
WorkerTold == reader.closes \in told

Push ==
  /\ reader.at = "push"
  /\ \/ /\ Room(queue[reader.msgs])
        /\ queue' = [queue EXCEPT ![reader.msgs] = Append(@, reader.kind)]
     \/ WorkerTold /\ UNCHANGED queue
  /\ reader' = AtStart
  /\ UNCHANGED <<peers, maps, told, worker, app, crashed, raced>>

-----------------------------------------------------------------------------
\* The worker: the next message, or the end.
Take(c, k) ==
  /\ worker[c] = "select" /\ queue[c] # <<>> /\ Head(queue[c]) = k
  /\ queue' = [queue EXCEPT ![c] = Tail(@)]

WorkerEnds(c) ==
  /\ worker[c] = "select" /\ c \in told
  /\ worker' = [worker EXCEPT ![c] = "end"]
  /\ UNCHANGED <<reader, peers, maps, queue, told, app, crashed, raced>>

TakeSyn1(c) ==
  /\ Take(c, "SYN1")
  /\ worker' = [worker EXCEPT ![c] = "syn1"]
  /\ UNCHANGED <<reader, peers, maps, told, app, crashed, raced>>

\* The handlers of the other messages return at once, but for payloadMessageHandler,
\* which may wait until the application reads.  (Without a window it calls Close, which
\* is refused.)
TakeOther(c) ==
  /\ Take(c, "other")
  /\ \/ UNCHANGED worker
     \/ conn[c] # "init" /\ worker' = [worker EXCEPT ![c] = "recv"]
  /\ UNCHANGED <<reader, peers, maps, told, app, crashed, raced>>

\* syn1MessageHandler: the first SYN1 starts the keepalive and offers the connection
\* to Accept, under the mutex of the state machine; the others wait for that mutex.
Busy(c) == conn[c] \in {"accept", "closing", "fin"}

HandleSyn1(c) ==
  /\ worker[c] = "syn1" /\ ~Busy(c)
  /\ \/ /\ conn[c] = "init"
        /\ conn' = [conn EXCEPT ![c] = "accept"]
        /\ worker' = [worker EXCEPT ![c] = "accept"]
     \/ /\ conn[c] # "init"
        /\ worker' = [worker EXCEPT ![c] = "select"]
        /\ UNCHANGED conn
  /\ UNCHANGED <<reader, made, addrOf, rm, maps, queue, told, app, crashed, raced>>

\* RecvNewConn: the application is in Accept, or is not within a second: a panic.
Accept(c) ==
  /\ worker[c] = "accept"
  /\ conn' = [conn EXCEPT ![c] = "est"]
  /\ worker' = [worker EXCEPT ![c] = "select"]
  /\ UNCHANGED <<reader, made, addrOf, rm, maps, queue, told, app, crashed, raced>>

AcceptTimeout(c) ==
  /\ worker[c] = "accept"
  /\ crashed' = TRUE
  /\ UNCHANGED <<reader, peers, maps, queue, told, worker, app, raced>>

RecvReturns(c) ==
  /\ worker[c] = "recv"
  /\ worker' = [worker EXCEPT ![c] = "select"]
  /\ UNCHANGED <<reader, peers, maps, queue, told, app, crashed, raced>>

-----------------------------------------------------------------------------
\* Close of a connection, by the application, by its keepalive or by the listener.
CloseConn(c) ==
  /\ conn[c] = "est"
  /\ conn' = [conn EXCEPT ![c] = "closing"]

Close(c) ==
  /\ CloseConn(c)
  /\ UNCHANGED <<reader, made, addrOf, rm, maps, queue, told, worker, app, crashed, raced>>

\* The goroutine of fin1MessageHandler gets the mutex, some time after its FIN1.
FinStart(c) ==
  /\ conn[c] = "est"
  /\ conn' = [conn EXCEPT ![c] = "fin"]
  /\ UNCHANGED <<reader, made, addrOf, rm, maps, queue, told, worker, app, crashed, raced>>

\* The windows are closed, the FIN2 is sent, the 2 msl begin.
FinEnd(c) ==
  /\ conn[c] = "fin"
  /\ conn' = [conn EXCEPT ![c] = "linger"]
  /\ UNCHANGED <<reader, made, addrOf, rm, maps, queue, told, worker, app, crashed, raced>>

\* RmGConn under rmConnLock; first a form that never unlocks it.  Close calls it when
\* the FIN2 is there or overdue, and wait2msl after a FIN1.
LockKept == \A c \in Conns : rm[c] = "no"
LockFree == \A c \in Conns : rm[c] \notin Steps

RmConn(c) ==
  /\ conn[c] \in {"closing", "linger"} /\ rm[c] = "no" /\ LockFree
  /\ gcs' = [gcs EXCEPT ![addrOf[c]] = None]
  /\ rm' = [rm EXCEPT ![c] = "msgs"]
  /\ UNCHANGED <<reader, made, addrOf, conn, msgs, closes, queue, told, worker, app, crashed, raced>>

RmMsgs(c) ==
  /\ rm[c] = "msgs"
  /\ msgs' = [msgs EXCEPT ![addrOf[c]] = None]
  /\ rm' = [rm EXCEPT ![c] = "load"]
  /\ UNCHANGED <<reader, made, addrOf, conn, gcs, closes, queue, told, worker, app, crashed, raced>>

Removed(c) == conn' = [conn EXCEPT ![c] = "removed"] /\ rm' = [rm EXCEPT ![c] = "done"]

\* Load, select and close are one step: nobody else closes a channel of closes.
RmTell(c) ==
  LET other == closes[addrOf[c]]
  IN  /\ rm[c] = "load"
      /\ IF other = None \/ other \in told
           THEN Removed(c) /\ UNCHANGED told
           ELSE /\ told' = told \cup {other}
                /\ rm' = [rm EXCEPT ![c] = "closes"]
                /\ UNCHANGED conn
      /\ UNCHANGED <<reader, made, addrOf, maps, queue, worker, app, crashed, raced>>

RmCloses(c) ==
  /\ rm[c] = "closes"
  /\ closes' = [closes EXCEPT ![addrOf[c]] = None]
  /\ Removed(c)
  /\ UNCHANGED <<reader, made, addrOf, gcs, msgs, queue, told, worker, app, crashed, raced>>

-----------------------------------------------------------------------------
\* Close of the listener closes one connection after the other and waits for each.
CloseListener ==
  /\ ~closeSignal
  /\ closeSignal' = TRUE
  /\ closer' = [left |-> {a \in Addrs : gcs[a] # None}, conn |-> None]
  /\ UNCHANGED <<reader, peers, maps, queue, told, worker, crashed, raced>>

RangeNext ==
  /\ closer.conn = None
  /\ \E a \in closer.left : closer' = [left |-> closer.left \ {a}, conn |-> gcs[a]]
  /\ UNCHANGED <<reader, peers, maps, queue, told, worker, closeSignal, crashed, raced>>

RangeClose(c) ==
  /\ closer.conn = c /\ CloseConn(c)
  /\ UNCHANGED <<reader, made, addrOf, rm, maps, queue, told, worker, app, crashed, raced>>

\* Its Close returns, at once if it is refused.
RangeReturn(c) ==
  /\ closer.conn = c /\ conn[c] \in {"init", "linger", "removed"}
  /\ closer' = [closer EXCEPT !.conn = None]
  /\ UNCHANGED <<reader, peers, maps, queue, told, worker, closeSignal, crashed, raced>>

-----------------------------------------------------------------------------
Reader ==
  Check \/ StoreConn \/ StoreMsgs \/ StoreCloses \/ FindMsgs \/ FindCloses \/ Push
Worker(c) ==
  \/ TakeSyn1(c) \/ TakeOther(c) \/ WorkerEnds(c)
  \/ HandleSyn1(c) \/ Accept(c) \/ AcceptTimeout(c)
Ending(c) == FinEnd(c) \/ RmConn(c) \/ RmMsgs(c) \/ RmTell(c) \/ RmCloses(c)
Closer == RangeNext \/ \E c \in Conns : RangeClose(c) \/ RangeReturn(c)

Next ==
  /\ ~crashed
  /\ \/ Reader \/ \E a \in Addrs, k \in Kinds : ReadFromUDP(a, k)
     \/ \E c \in Conns : Worker(c) \/ RecvReturns(c) \/ Close(c) \/ FinStart(c) \/ Ending(c)
     \/ CloseListener \/ Closer

\* A connection times out when nobody handles its keepalives: the reader has been told
\* to end, or the worker waits for the application.
Silent(c, why) == ~crashed /\ why /\ Close(c)

Fairness ==
  /\ WF_vars(~crashed /\ Reader) /\ WF_vars(~crashed /\ Closer)
  /\ \A c \in Conns :
       /\ WF_vars(~crashed /\ Worker(c)) /\ WF_vars(~crashed /\ Ending(c))
       /\ WF_vars(Silent(c, closeSignal))
       /\ WF_vars(Silent(c, worker[c] = "recv"))

Spec == Init /\ [][Next]_vars /\ Fairness

-----------------------------------------------------------------------------
TypeOK ==
  /\ reader \in [at : {"check", "load", "gcs", "msgs", "closes", "find", "found", "push", "end"},
                 addr : Addrs, kind : Kinds, msgs : Conns \cup {None}, closes : Conns \cup {None}]
  /\ made \in 0 .. MaxConns
  /\ addrOf \in [Conns -> Addrs]
  /\ gcs \in [Addrs -> Conns \cup {None}]
  /\ msgs \in [Addrs -> Conns \cup {None}]
  /\ closes \in [Addrs -> Conns \cup {None}]
  /\ queue \in [Conns -> Seq(Kinds)] /\ \A c \in Conns : Len(queue[c]) <= QSize
  /\ told \subseteq Conns
  /\ worker \in [Conns -> {"none", "select", "syn1", "accept", "recv", "end"}]
  /\ conn \in [Conns -> {"none", "init", "accept", "est", "fin", "linger", "closing", "removed"}]
  /\ rm \in [Conns -> Steps \cup {"no", "done"}]
  /\ closeSignal \in BOOLEAN /\ crashed \in BOOLEAN
  /\ closer \in [left : SUBSET Addrs, conn : Conns \cup {None}]
  /\ raced \subseteq Addrs

\* A connection that has not been removed is found: its address leads to it, to its
\* channel and to its worker, in all three maps, unless the reader is about to fill
\* them.  Only an address that was registered in the middle of RmGConn is excepted.
Storing(c) == c = made /\ reader.at \in {"msgs", "closes"}
Found(c) ==
  LET a == addrOf[c]
  IN  /\ gcs[a] = c
      /\ ~Storing(c) => /\ msgs[a] = c /\ closes[a] = c
                        /\ c \notin told /\ worker[c] \notin {"none", "end"}
Reachable ==
  \A c \in Conns :
    conn[c] \notin {"none", "removed"} /\ rm[c] = "no" /\ addrOf[c] \notin raced => Found(c)

\* The first message of a connection is its SYN1: no handler meets a connection that
\* has no windows yet, nor what was sent to the connection before it.
FirstIsSyn1 ==
  \A c \in Conns :
    conn[c] = "init" /\ worker[c] = "select" /\ queue[c] # <<>> /\ addrOf[c] \notin raced
      => Head(queue[c]) = "SYN1"

\* A full channel does not hold up the reader of all connections for ever, although
\* the application may never read: the keepalive ends the connection that does not go
\* on, and RmGConn lets the reader go.
ReaderGoesOn == reader.at = "push" ~> (reader.at # "push" \/ reader.addr \in raced \/ crashed)

\* After Close of the listener every connection ends, also those the Range has missed
\* and those that refuse Close because nobody has accepted them yet: by a keepalive
\* that times out, unless the process has panicked because nobody accepts.
Settled(c) == conn[c] \in {"none", "removed"} \/ addrOf[c] \in raced
ClosesAll == closeSignal ~> ((\A c \in Conns : Settled(c)) \/ crashed)
=============================================================================
