--------------------------- MODULE ListenerProofs ---------------------------
(* TypeOK, Reachable and FirstIsSyn1, for any addresses, any number of       *)
(* connections and any length of their channels; then what the channels of   *)
(* an address have to do with each other while RmGConn takes them away:      *)
(* every worker is told to end, and the reader never waits for one that is   *)
(* gone.                                                                     *)
EXTENDS Listener, TLAPS, SequenceTheorems

Live(c) == conn[c] \notin {"none", "removed"} /\ rm[c] = "no"

\* What the reader knows of the address and of the connection it is about to store.
ReaderInv ==
  /\ reader.at = "gcs" => gcs[reader.addr] = None /\ made < MaxConns /\ reader.kind = "SYN1"
  /\ reader.at \in {"msgs", "closes"} =>
       /\ made \in Conns /\ addrOf[made] = reader.addr /\ reader.kind = "SYN1"
       /\ conn[made] = "init" /\ worker[made] = "none"
  /\ reader.at = "closes" /\ reader.addr \notin raced => msgs[reader.addr] = made
  /\ reader.at \in {"found", "push"} =>
       reader.msgs \in Conns /\ worker[reader.msgs] # "none"
  /\ reader.at = "push" => reader.closes \in Conns

\* What is in the maps and in told has a worker, or is about to get one.
MapsInv ==
  /\ \A a \in Addrs :
       /\ msgs[a] # None => worker[msgs[a]] # "none" \/ (msgs[a] = made /\ reader.at = "closes")
       /\ closes[a] # None => worker[closes[a]] # "none" /\ addrOf[closes[a]] = a
  /\ \A c \in told : worker[c] # "none"

\* A connection that is not made yet, or not stored yet.
ConnInv(c) ==
  /\ c > made => conn[c] = "none" /\ worker[c] = "none" /\ rm[c] = "no"
  /\ worker[c] = "none" => queue[c] = <<>>
  /\ conn[c] = "init" => rm[c] = "no"
  /\ rm[c] \in Steps => conn[c] \in {"closing", "linger"}
  /\ worker[c] = "accept" => conn[c] = "accept"

\* RmGConn meets no other connection of its address, or the address is in raced.
RacedInv ==
  \A c, d \in Conns :
    rm[d] \in Steps /\ Live(c) /\ addrOf[c] = addrOf[d] => addrOf[c] \in raced

\* Where the first SYN1 of a connection is, until it is handled.
Syn1Inv(c) ==
  conn[c] = "init" /\ addrOf[c] \notin raced =>
    \/ Storing(c)
    \/ /\ worker[c] = "select" /\ queue[c] = <<>>
       /\ reader.at \in {"find", "found", "push"}
       /\ reader.addr = addrOf[c] /\ reader.kind = "SYN1"
       /\ reader.at \in {"found", "push"} => reader.msgs = c
       /\ reader.at = "push" => reader.closes = c
    \/ worker[c] = "select" /\ queue[c] # <<>> /\ Head(queue[c]) = "SYN1"
    \/ worker[c] = "syn1"

Inv ==
  /\ TypeOK
  /\ ReaderInv
  /\ MapsInv
  /\ \A c \in Conns : ConnInv(c)
  /\ RacedInv
  /\ Reachable
  /\ \A c \in Conns : Syn1Inv(c)

LEMMA AnywhereIn == Anywhere \in Addrs
<1> QED BY ListenerAssumption DEF Anywhere

LEMMA InvInit == Init => Inv
<1> SUFFICES ASSUME Init PROVE Inv
  OBVIOUS
<1> USE DEF Init, AtStart
<1>1. TypeOK
  <2>1. <<>> \in Seq(Kinds) /\ Len(<<>>) <= QSize
    BY ListenerAssumption
  <2>2. queue \in [Conns -> Seq(Kinds)] /\ \A c \in Conns : Len(queue[c]) <= QSize
    BY <2>1
  <2>3. closeSignal \in BOOLEAN /\ crashed \in BOOLEAN
    OBVIOUS
  <2>4. made \in 0 .. MaxConns
    BY ListenerAssumption
  <2> QED BY <2>2, <2>3, <2>4, AnywhereIn DEF TypeOK, None, Kinds
<1>2. ReaderInv /\ MapsInv /\ RacedInv /\ Reachable
  BY AnywhereIn DEF ReaderInv, MapsInv, RacedInv, Reachable, Live, Steps, Conns, None
<1>3. \A c \in Conns : ConnInv(c) /\ Syn1Inv(c)
  BY DEF ConnInv, Syn1Inv, Steps
<1> QED BY <1>1, <1>2, <1>3 DEF Inv

-----------------------------------------------------------------------------
\* What the worker of a connection, and whoever closes it, may do: to the maps they
\* do nothing.
LEMMA ConnSteps ==
  ASSUME Inv, TypeOK', NEW c \in Conns,
         UNCHANGED <<reader, made, addrOf, rm, maps, told, raced>>,
         \A d \in Conns \ {c} :
           worker'[d] = worker[d] /\ conn'[d] = conn[d] /\ queue'[d] = queue[d],
         worker'[c] = worker[c] \/ (worker[c] # "none" /\ worker'[c] # "none"),
         worker[c] = "none" => queue'[c] = queue[c],
         worker'[c] = "end" => worker[c] = "end" \/ c \in told,
         \/ conn'[c] = conn[c]
         \/ /\ conn[c] \in {"init", "accept", "est", "fin"} /\ conn'[c] \notin {"none", "init", "removed"}
            /\ conn[c] = "init" => worker[c] # "none",
         worker'[c] = "accept" => conn'[c] = "accept",
         Syn1Inv(c)'
  PROVE  Inv'
<1>0. /\ TypeOK /\ ReaderInv /\ MapsInv /\ RacedInv /\ Reachable
      /\ \A e \in Conns : ConnInv(e) /\ Syn1Inv(e)
  BY DEF Inv
<1>1. /\ \A d \in Conns : worker'[d] = "none" <=> worker[d] = "none"
      /\ \A d \in Conns : worker'[d] = "end" => worker[d] = "end" \/ d \in told
      /\ \A d \in Conns : conn'[d] \in {"none", "removed"} <=> conn[d] \in {"none", "removed"}
      /\ \A d \in Conns : conn'[d] = "none" <=> conn[d] = "none"
      /\ \A d \in Conns : conn'[d] = "init" => conn[d] = "init"
      /\ \A d \in Conns : worker[d] = "none" /\ conn[d] = "init" => conn'[d] = "init"
      /\ \A d \in Conns : worker[d] = "none" => queue'[d] = queue[d]
  OBVIOUS
<1>2. ReaderInv'
  BY <1>0, <1>1 DEF ReaderInv, maps
<1>3. MapsInv'
  BY <1>0, <1>1 DEF MapsInv, maps, TypeOK, None
<1>4. \A e \in Conns : ConnInv(e)'
  BY <1>0, <1>1 DEF ConnInv
<1>5. RacedInv'
  BY <1>0, <1>1 DEF RacedInv, Live
<1>6. Reachable'
  <2> SUFFICES ASSUME NEW e \in Conns, conn[e] \notin {"none", "removed"}, rm[e] = "no",
                      addrOf[e] \notin raced
               PROVE  Found(e)'
    BY <1>1 DEF Reachable
  <2>1. Found(e)
    BY <1>0 DEF Reachable
  <2> QED BY <1>1, <2>1 DEF Found, Storing, maps
<1>7. \A e \in Conns \ {c} : Syn1Inv(e)'
  BY <1>0 DEF Syn1Inv, Storing
<1> QED BY <1>2, <1>3, <1>4, <1>5, <1>6, <1>7 DEF Inv

\* Nothing of what the invariant is about.
LEMMA OtherSteps ==
  ASSUME Inv, TypeOK', UNCHANGED <<reader, peers, maps, queue, told, worker, raced>>
  PROVE  Inv'
<1> USE DEF peers, maps
<1>1. ReaderInv' /\ MapsInv' /\ RacedInv'
  BY DEF Inv, ReaderInv, MapsInv, RacedInv, Live
<1>2. Reachable'
  BY DEF Inv, Reachable, Found, Storing
<1>3. \A c \in Conns : ConnInv(c)' /\ Syn1Inv(c)'
  BY DEF Inv, ConnInv, Syn1Inv, Storing
<1> QED BY <1>1, <1>2, <1>3 DEF Inv

LEMMA Taken ==
  ASSUME TypeOK, NEW c \in Conns, NEW k \in Kinds, Take(c, k)
  PROVE  queue' \in [Conns -> Seq(Kinds)] /\ \A d \in Conns : Len(queue'[d]) <= QSize
<1>1. Tail(queue[c]) \in Seq(Kinds) /\ Len(Tail(queue[c])) = Len(queue[c]) - 1
  BY DEF Take, TypeOK
<1>2. Len(queue[c]) \in Nat /\ Len(queue[c]) <= QSize /\ QSize \in Nat
  BY ListenerAssumption DEF TypeOK
<1>3. Len(Tail(queue[c])) <= QSize
  BY <1>1, <1>2
<1> QED BY <1>1, <1>3 DEF Take, TypeOK

LEMMA WorkerSteps ==
  ASSUME Inv, NEW c \in Conns, Worker(c) \/ RecvReturns(c)
  PROVE  Inv'
<1>0. TypeOK /\ Reachable /\ Syn1Inv(c) /\ ConnInv(c)
  BY DEF Inv
<1> USE DEF peers, maps, app
<1>1. CASE WorkerEnds(c)
  <2>1. TypeOK'
    BY <1>0, <1>1 DEF WorkerEnds, TypeOK
  <2>2. Syn1Inv(c)'
    BY <1>0, <1>1 DEF WorkerEnds, TypeOK, Syn1Inv, ConnInv, Reachable, Found, Storing
  <2> QED BY <1>0, <1>1, <2>1, <2>2, ConnSteps DEF WorkerEnds, TypeOK
<1>2. CASE TakeSyn1(c)
  <2>1. TypeOK'
    BY <1>0, <1>2, Taken DEF TakeSyn1, Kinds, TypeOK
  <2>2. worker'[c] = "syn1"
    BY <1>0, <1>2 DEF TakeSyn1, TypeOK
  <2>3. Syn1Inv(c)'
    BY <2>2 DEF Syn1Inv
  <2> QED BY <1>0, <1>2, <2>1, <2>2, <2>3, ConnSteps DEF TakeSyn1, Take, TypeOK
<1>3. CASE TakeOther(c)
  <2>1. TypeOK'
    BY <1>0, <1>3, Taken DEF TakeOther, Kinds, TypeOK
  <2>2. Syn1Inv(c)'
    BY <1>0, <1>3 DEF TakeOther, Take, TypeOK, Syn1Inv, Storing, ReaderInv
  <2> QED BY <1>0, <1>3, <2>1, <2>2, ConnSteps DEF TakeOther, Take, TypeOK, ConnInv
<1>4. CASE HandleSyn1(c)
  <2>1. TypeOK'
    BY <1>0, <1>4 DEF HandleSyn1, TypeOK
  <2>2. conn'[c] # "init"
    BY <1>0, <1>4 DEF HandleSyn1, TypeOK
  <2>3. Syn1Inv(c)'
    BY <2>2 DEF Syn1Inv
  <2>4. worker'[c] # "none" /\ worker'[c] # "end" /\ worker[c] # "none"
    BY <1>0, <1>4 DEF HandleSyn1, TypeOK
  <2>5. conn'[c] = conn[c] \/ (conn[c] = "init" /\ conn'[c] = "accept")
    BY <1>0, <1>4 DEF HandleSyn1, TypeOK
  <2>6. worker'[c] = "accept" => conn'[c] = "accept"
    BY <1>0, <1>4 DEF HandleSyn1, TypeOK
  <2>7. \A d \in Conns \ {c} : worker'[d] = worker[d] /\ conn'[d] = conn[d] /\ queue'[d] = queue[d]
    BY <1>0, <1>4 DEF HandleSyn1, TypeOK
  <2>8. UNCHANGED <<reader, made, addrOf, rm, maps, told, raced>> /\ queue'[c] = queue[c]
    BY <1>4 DEF HandleSyn1
  <2> QED BY ConnSteps, <1>0, <2>8, <2>7, <2>5, <2>6, <2>1, <2>3, <2>4
<1>5. CASE Accept(c)
  <2>1. TypeOK'
    BY <1>0, <1>5 DEF Accept, TypeOK
  <2>2. Syn1Inv(c)'
    BY <1>0, <1>5 DEF Accept, TypeOK, Syn1Inv
  <2>3. conn[c] = "accept"
    BY <1>0, <1>5 DEF Accept, ConnInv
  <2> QED BY <1>0, <1>5, <2>1, <2>2, <2>3, ConnSteps DEF Accept, TypeOK
<1>6. CASE RecvReturns(c)
  <2>1. TypeOK'
    BY <1>0, <1>6 DEF RecvReturns, TypeOK
  <2>2. Syn1Inv(c)'
    BY <1>0, <1>6 DEF RecvReturns, TypeOK, Syn1Inv, Storing, ReaderInv
  <2> QED BY <1>0, <1>6, <2>1, <2>2, ConnSteps DEF RecvReturns, TypeOK, ConnInv
<1>7. CASE AcceptTimeout(c)
  BY <1>0, <1>7, OtherSteps DEF AcceptTimeout, TypeOK
<1> QED BY <1>1, <1>2, <1>3, <1>4, <1>5, <1>6, <1>7 DEF Worker

LEMMA CloseSteps ==
  ASSUME Inv, NEW c \in Conns, Close(c) \/ FinStart(c) \/ FinEnd(c) \/ RangeClose(c)
  PROVE  Inv'
<1>1. TypeOK /\ ConnInv(c)
  BY DEF Inv
<1>2. /\ UNCHANGED <<reader, made, addrOf, rm, gcs, msgs, closes, queue, told, worker, raced, crashed, app>>
      /\ conn[c] \in {"est", "fin"}
      /\ \E to \in {"closing", "fin", "linger"} : conn' = [conn EXCEPT ![c] = to]
  BY DEF Close, FinStart, FinEnd, RangeClose, CloseConn, maps
<1>3. TypeOK'
  BY <1>1, <1>2 DEF TypeOK, app
<1>4. conn'[c] \in {"closing", "fin", "linger"} /\ \A d \in Conns \ {c} : conn'[d] = conn[d]
  BY <1>1, <1>2 DEF TypeOK
<1>5. Syn1Inv(c)'
  BY <1>4 DEF Syn1Inv
<1> QED BY <1>1, <1>2, <1>3, <1>4, <1>5, ConnSteps DEF ConnInv, maps

-----------------------------------------------------------------------------
\* The reader, where it neither stores nor pushes.
LEMMA ReaderMoves ==
  ASSUME Inv, UNCHANGED <<peers, maps, queue, told, worker, raced>>,
         reader.at \notin {"msgs", "closes"}, reader'.at \notin {"msgs", "closes"}
  PROVE  MapsInv' /\ RacedInv' /\ Reachable' /\ \A c \in Conns : ConnInv(c)'
<1> USE DEF peers, maps
<1>1. MapsInv' /\ RacedInv'
  BY DEF Inv, MapsInv, RacedInv, Live
<1>2. Reachable'
  BY DEF Inv, Reachable, Found, Storing
<1> QED BY <1>1, <1>2 DEF Inv, ConnInv

LEMMA ReadSteps ==
  ASSUME Inv, Check \/ \E a \in Addrs, k \in Kinds : ReadFromUDP(a, k)
  PROVE  Inv'
<1>1. TypeOK
  BY DEF Inv
<1>2. UNCHANGED <<peers, maps, queue, told, worker, app, crashed, raced>>
  BY DEF Check, ReadFromUDP
<1>3. /\ reader.at \in {"check", "load"}
      /\ reader'.at \in {"end", "load", "gcs", "find"}
      /\ reader'.at = "gcs" =>
           gcs[reader'.addr] = None /\ made # MaxConns /\ reader'.kind = "SYN1"
  <2>1. CASE Check
    BY <1>1, <2>1 DEF Check, Goes, TypeOK
  <2>2. CASE \E a \in Addrs, k \in Kinds : ReadFromUDP(a, k)
    <3>1. PICK a \in Addrs, k \in Kinds : ReadFromUDP(a, k)
      BY <2>2
    <3>2. reader'.addr = a /\ reader'.kind = k /\ reader'.at \in {"gcs", "find"}
      BY <1>1, <3>1 DEF ReadFromUDP, TypeOK
    <3>3. reader'.at = "gcs" => ~Known(a) /\ IsSyn1(k) /\ made < MaxConns
      BY <1>1, <3>1 DEF ReadFromUDP, TypeOK
    <3> QED BY <1>1, <3>1, <3>2, <3>3, ListenerAssumption DEF ReadFromUDP, Known, IsSyn1, TypeOK
  <2> QED BY <2>1, <2>2
<1>4. reader' \in [at : {"check", "load", "gcs", "msgs", "closes", "find", "found", "push", "end"},
                   addr : Addrs, kind : Kinds, msgs : Conns \cup {None}, closes : Conns \cup {None}]
  BY <1>1 DEF Check, ReadFromUDP, Goes, TypeOK
<1>5. TypeOK'
  BY <1>1, <1>2, <1>4 DEF TypeOK, peers, maps, app
<1>6. ReaderInv'
  BY <1>1, <1>2, <1>3, ListenerAssumption DEF ReaderInv, TypeOK, peers, maps
<1>7. \A c \in Conns : Syn1Inv(c)'
  BY <1>2, <1>3 DEF Inv, Syn1Inv, Storing, peers
<1> QED BY <1>2, <1>5, <1>6, <1>7, <1>3, ReaderMoves DEF Inv

LEMMA FindSteps ==
  ASSUME Inv, FindMsgs \/ FindCloses
  PROVE  Inv'
<1>1. TypeOK /\ MapsInv /\ ReaderInv
  BY DEF Inv
<1>2. /\ UNCHANGED <<peers, maps, queue, told, worker, app, crashed, raced>>
      /\ reader.at \in {"find", "found"}
  BY DEF FindMsgs, FindCloses
<1>3. reader'.at \in {"check", "found", "push"}
  <2>1. AtStart.at = "check" /\ [reader EXCEPT !.msgs = msgs[reader.addr], !.at = "found"].at = "found"
        /\ [reader EXCEPT !.closes = closes[reader.addr], !.at = "push"].at = "push"
    BY <1>1 DEF AtStart, TypeOK
  <2> QED BY <2>1 DEF FindMsgs, FindCloses
<1>4. reader' \in [at : {"check", "load", "gcs", "msgs", "closes", "find", "found", "push", "end"},
                   addr : Addrs, kind : Kinds, msgs : Conns \cup {None}, closes : Conns \cup {None}]
  <2>1. CASE FindMsgs
    <3>1. msgs[reader.addr] \in Conns \cup {None}
      BY <1>1 DEF TypeOK
    <3> QED BY <1>1, <2>1, <3>1, AnywhereIn DEF FindMsgs, AtStart, TypeOK, Kinds
  <2>2. CASE FindCloses
    <3>1. closes[reader.addr] \in Conns \cup {None}
      BY <1>1 DEF TypeOK
    <3> QED BY <1>1, <2>2, <3>1, AnywhereIn DEF FindCloses, AtStart, TypeOK, Kinds
  <2> QED BY <2>1, <2>2
<1>5. TypeOK'
  BY <1>1, <1>2, <1>4 DEF TypeOK, peers, maps, app
<1>6. ReaderInv'
  <2>1. CASE FindMsgs
    BY <1>1, <1>2, <2>1 DEF FindMsgs, AtStart, ReaderInv, MapsInv, TypeOK, peers, maps
  <2>2. CASE FindCloses
    BY <1>1, <1>2, <2>2 DEF FindCloses, AtStart, ReaderInv, TypeOK, peers, maps
  <2> QED BY <2>1, <2>2
<1>7. ASSUME NEW c \in Conns PROVE Syn1Inv(c)'
  <2>1. CASE conn[c] = "init" /\ addrOf[c] \notin raced /\ worker[c] = "select" /\ queue[c] = <<>>
                /\ reader.addr = addrOf[c]
    <3>1. Found(c) /\ ~Storing(c) /\ Syn1Inv(c)
      BY <1>2, <2>1 DEF Inv, Reachable, ConnInv, Storing
    <3>2. msgs[reader.addr] = c /\ closes[reader.addr] = c /\ c # None
      BY <2>1, <3>1 DEF Found, Conns, None
    <3>3. CASE FindMsgs
      <4>1. reader'.at = "found" /\ reader'.msgs = c /\ reader'.addr = reader.addr /\ reader'.kind = reader.kind
        BY <1>1, <3>2, <3>3 DEF FindMsgs, TypeOK
      <4> QED BY <1>2, <2>1, <3>1, <4>1 DEF Syn1Inv, peers, Storing
    <3>4. CASE FindCloses
      <4>1. /\ reader'.at = "push" /\ reader'.msgs = reader.msgs /\ reader'.closes = c
            /\ reader'.addr = reader.addr /\ reader'.kind = reader.kind /\ reader.at = "found"
        BY <1>1, <3>2, <3>4 DEF FindCloses, TypeOK
      <4> QED BY <1>2, <2>1, <3>1, <4>1 DEF Syn1Inv, peers, Storing
    <3> QED BY <3>3, <3>4
  <2> QED BY <1>2, <2>1 DEF Inv, Syn1Inv, Storing, peers
<1> QED BY <1>2, <1>5, <1>6, <1>7, <1>3, ReaderMoves DEF Inv

LEMMA PushStep ==
  ASSUME Inv, Push
  PROVE  Inv'
<1> DEFINE m == reader.msgs
<1>1. TypeOK /\ ReaderInv
  BY DEF Inv
<1>2. /\ UNCHANGED <<peers, maps, told, worker, app, crashed, raced>>
      /\ reader.at = "push" /\ reader' = AtStart /\ m \in Conns /\ worker[m] # "none"
  BY <1>1 DEF Push, ReaderInv
<1>3. queue' = queue \/ (Len(queue[m]) < QSize /\ queue' = [queue EXCEPT ![m] = Append(@, reader.kind)])
  BY DEF Push, Room
<1>4. AtStart \in [at : {"check", "load", "gcs", "msgs", "closes", "find", "found", "push", "end"},
                   addr : Addrs, kind : Kinds, msgs : Conns \cup {None}, closes : Conns \cup {None}]
  BY AnywhereIn DEF AtStart, Kinds
<1>5. queue' \in [Conns -> Seq(Kinds)] /\ \A c \in Conns : Len(queue'[c]) <= QSize
  <2>1. reader.kind \in Kinds /\ queue[m] \in Seq(Kinds) /\ QSize \in Nat
    BY <1>1, <1>2, ListenerAssumption DEF TypeOK
  <2>2. /\ Append(queue[m], reader.kind) \in Seq(Kinds)
        /\ Len(Append(queue[m], reader.kind)) = Len(queue[m]) + 1 /\ Len(queue[m]) \in Nat
    BY <2>1
  <2>3. Len(queue[m]) < QSize => Len(Append(queue[m], reader.kind)) <= QSize
    BY <2>1, <2>2
  <2>4. CASE queue' = queue
    BY <1>1, <2>4 DEF TypeOK
  <2>5. CASE Len(queue[m]) < QSize /\ queue' = [queue EXCEPT ![m] = Append(@, reader.kind)]
    <3>1. queue \in [Conns -> Seq(Kinds)] /\ \A c \in Conns : Len(queue[c]) <= QSize
      BY <1>1 DEF TypeOK
    <3>2. queue'[m] = Append(queue[m], reader.kind) /\ \A c \in Conns \ {m} : queue'[c] = queue[c]
      BY <1>2, <2>5, <3>1
    <3>3. queue' \in [Conns -> Seq(Kinds)]
      BY <1>2, <2>2, <2>5, <3>1
    <3> QED BY <2>3, <2>5, <3>1, <3>2, <3>3
  <2> QED BY <1>3, <2>4, <2>5
<1>6. TypeOK'
  BY <1>1, <1>2, <1>4, <1>5 DEF TypeOK, peers, maps, app
<1>7. AtStart.at = "check"
  BY DEF AtStart
<1>8. ReaderInv' /\ MapsInv' /\ RacedInv'
  BY <1>2, <1>7 DEF Inv, ReaderInv, MapsInv, RacedInv, Live, peers, maps
<1>9. Reachable'
  BY <1>2, <1>7 DEF Inv, Reachable, Found, Storing, peers, maps
<1>10. \A c \in Conns \ {m} : queue'[c] = queue[c]
  BY <1>1, <1>3 DEF TypeOK
<1>11. \A c \in Conns : ConnInv(c)'
  BY <1>2, <1>10 DEF Inv, ConnInv, peers
<1>12. ASSUME NEW c \in Conns PROVE Syn1Inv(c)'
  <2>0. SUFFICES ASSUME conn[c] = "init", addrOf[c] \notin raced PROVE Syn1Inv(c)'
    BY <1>2 DEF Syn1Inv, peers
  <2>1. Syn1Inv(c) /\ Found(c) /\ ~Storing(c)
    BY <1>2, <2>0 DEF Inv, Reachable, ConnInv, Storing
  <2>2. CASE queue[c] = <<>> /\ worker[c] = "select"
    <3>1. m = c /\ reader.closes = c /\ reader.kind = "SYN1" /\ c \notin told
      BY <1>2, <2>0, <2>1, <2>2 DEF Syn1Inv, Found
    <3>2. queue' = [queue EXCEPT ![c] = Append(@, "SYN1")]
      BY <3>1 DEF Push, WorkerTold
    <3>3. queue'[c] = <<"SYN1">>
      BY <1>1, <2>2, <3>2 DEF TypeOK
    <3> QED BY <1>2, <2>2, <3>3 DEF Syn1Inv
  <2>3. CASE queue[c] # <<>> /\ worker[c] = "select"
    <3>1. Head(queue[c]) = "SYN1"
      BY <2>0, <2>1, <2>3 DEF Syn1Inv
    <3>2. reader.kind \in Kinds /\ queue[c] \in Seq(Kinds)
      BY <1>1 DEF TypeOK
    <3>3. queue'[c] = queue[c] \/ queue'[c] = Append(queue[c], reader.kind)
      BY <1>1, <1>3 DEF TypeOK
    <3>4. queue'[c] # <<>> /\ Head(queue'[c]) = "SYN1"
      BY <2>3, <3>1, <3>2, <3>3
    <3> QED BY <1>2, <2>3, <3>4 DEF Syn1Inv
  <2> QED BY <1>2, <2>0, <2>1, <2>2, <2>3 DEF Syn1Inv
<1> QED BY <1>6, <1>8, <1>9, <1>11, <1>12 DEF Inv

\* No live connection has this address, unless it is raced; the new one has.
LEMMA StoreConnStep ==
  ASSUME Inv, StoreConn
  PROVE  Inv'
<1> DEFINE a == reader.addr
           n == made + 1
<1>1. TypeOK /\ ReaderInv /\ MapsInv /\ RacedInv /\ Reachable
      /\ \A c \in Conns : ConnInv(c) /\ Syn1Inv(c)
  BY DEF Inv
<1>2. /\ UNCHANGED <<rm, msgs, closes, queue, told, worker, app, crashed>>
      /\ reader.at = "gcs" /\ made' = n /\ reader' = [reader EXCEPT !.at = "msgs"]
      /\ addrOf' = [addrOf EXCEPT ![n] = a] /\ conn' = [conn EXCEPT ![n] = "init"]
      /\ gcs' = [gcs EXCEPT ![a] = n]
  BY DEF StoreConn, Goes
<1>3. gcs[a] = None /\ n \in Conns /\ n > made /\ made \in Nat /\ reader.kind = "SYN1" /\ a \in Addrs
  BY <1>1, <1>2, ListenerAssumption DEF ReaderInv, TypeOK, Conns
<1>4. /\ raced \subseteq raced' /\ raced' \subseteq raced \cup {a}
      /\ (\E d \in Conns : rm[d] \in Steps /\ addrOf[d] = a) => a \in raced'
  BY DEF StoreConn
<1>5. conn[n] = "none" /\ worker[n] = "none" /\ rm[n] = "no" /\ queue[n] = <<>> /\ n # None
  BY <1>1, <1>3 DEF ConnInv, None, Conns
<1>6. /\ reader'.at = "msgs" /\ reader'.addr = a /\ reader'.kind = "SYN1"
      /\ addrOf'[n] = a /\ conn'[n] = "init" /\ gcs'[a] = n
      /\ \A c \in Conns \ {n} : addrOf'[c] = addrOf[c] /\ conn'[c] = conn[c]
      /\ \A b \in Addrs \ {a} : gcs'[b] = gcs[b]
  BY <1>1, <1>2, <1>3 DEF TypeOK
<1>7. TypeOK'
  <2>1. reader' \in [at : {"check", "load", "gcs", "msgs", "closes", "find", "found", "push", "end"},
                     addr : Addrs, kind : Kinds, msgs : Conns \cup {None}, closes : Conns \cup {None}]
    BY <1>1, <1>2 DEF TypeOK
  <2>2. made' \in 0 .. MaxConns
    BY <1>2, <1>3 DEF Conns
  <2>3. addrOf' \in [Conns -> Addrs] /\ gcs' \in [Addrs -> Conns \cup {None}] /\ raced' \subseteq Addrs
    BY <1>1, <1>2, <1>3, <1>4 DEF TypeOK
  <2>4. conn' \in [Conns -> {"none", "init", "accept", "est", "fin", "linger", "closing", "removed"}]
    BY <1>1, <1>2 DEF TypeOK
  <2> QED BY <1>1, <1>2, <2>1, <2>2, <2>3, <2>4 DEF TypeOK, app
<1>8. ReaderInv'
  BY <1>2, <1>3, <1>5, <1>6 DEF ReaderInv
<1>9. MapsInv'
  BY <1>1, <1>2, <1>3, <1>5, <1>6 DEF MapsInv, TypeOK, Conns, None
<1>10. \A c \in Conns : ConnInv(c)'
  <2>1. ASSUME NEW c \in Conns, c > n PROVE c > made /\ c # n
    BY <1>3, <2>1 DEF Conns
  <2> QED BY <1>1, <1>2, <1>5, <1>6, <2>1 DEF ConnInv
<1>11. \A c \in Conns : conn[c] \notin {"none", "removed"} /\ rm[c] = "no" /\ addrOf[c] = a => a \in raced
  <2> SUFFICES ASSUME NEW c \in Conns, conn[c] \notin {"none", "removed"}, rm[c] = "no", addrOf[c] = a,
                      a \notin raced
               PROVE  FALSE
    OBVIOUS
  <2>1. gcs[a] = c
    BY <1>1 DEF Reachable, Found
  <2> QED BY <1>3, <2>1 DEF Conns, None
<1>12. RacedInv'
  <2> SUFFICES ASSUME NEW c \in Conns, NEW d \in Conns, rm[d] \in Steps, Live(c)', addrOf'[c] = addrOf'[d]
               PROVE  addrOf'[c] \in raced'
    BY <1>2 DEF RacedInv
  <2>1. d # n /\ addrOf'[d] = addrOf[d]
    BY <1>5, <1>6 DEF Steps
  <2>2. CASE c = n
    BY <1>4, <1>6, <2>1, <2>2
  <2>3. CASE c # n
    BY <1>1, <1>2, <1>4, <1>6, <2>1, <2>3 DEF RacedInv, Live
  <2> QED BY <2>2, <2>3
<1>13. Reachable'
  <2> SUFFICES ASSUME NEW c \in Conns, conn'[c] \notin {"none", "removed"}, rm[c] = "no",
                      addrOf'[c] \notin raced'
               PROVE  Found(c)'
    BY <1>2 DEF Reachable
  <2>1. CASE c = n
    BY <1>2, <1>6, <2>1 DEF Found, Storing
  <2>2. CASE c # n
    <3>1. Found(c) /\ ~Storing(c) /\ addrOf[c] # a /\ addrOf[c] \in Addrs
      BY <1>1, <1>2, <1>4, <1>6, <1>11, <2>2 DEF Reachable, Storing, TypeOK
    <3> QED BY <1>2, <1>6, <2>2, <3>1 DEF Found
  <2> QED BY <2>1, <2>2
<1>14. ASSUME NEW c \in Conns PROVE Syn1Inv(c)'
  <2>1. CASE c = n
    BY <1>2, <1>6, <2>1 DEF Syn1Inv, Storing
  <2>2. CASE c # n
    BY <1>1, <1>2, <1>4, <1>6, <2>2 DEF Syn1Inv, Storing
  <2> QED BY <2>1, <2>2
<1> QED BY <1>7, <1>8, <1>9, <1>10, <1>12, <1>13, <1>14 DEF Inv

\* The new connection is live and unraced, or raced: nobody removes its channel.
LEMMA StoreMsgsStep ==
  ASSUME Inv, StoreMsgs
  PROVE  Inv'
<1> DEFINE a == reader.addr
<1>1. TypeOK /\ ReaderInv /\ MapsInv /\ RacedInv /\ Reachable
      /\ \A c \in Conns : ConnInv(c) /\ Syn1Inv(c)
  BY DEF Inv
<1>2. /\ UNCHANGED <<made, addrOf, conn, rm, gcs, closes, queue, told, worker, app, crashed, raced>>
      /\ reader.at = "msgs" /\ reader' = [reader EXCEPT !.at = "closes"]
      /\ msgs' = [msgs EXCEPT ![a] = made]
  BY DEF StoreMsgs, Goes, peers
<1>3. /\ made \in Conns /\ addrOf[made] = a /\ reader.kind = "SYN1" /\ a \in Addrs
      /\ conn[made] = "init" /\ worker[made] = "none"
  BY <1>1, <1>2 DEF ReaderInv, TypeOK
<1>4. /\ reader'.at = "closes" /\ reader'.addr = a /\ reader'.kind = "SYN1"
      /\ msgs'[a] = made /\ \A b \in Addrs \ {a} : msgs'[b] = msgs[b]
  BY <1>1, <1>2, <1>3 DEF TypeOK
<1>5. TypeOK'
  BY <1>1, <1>2, <1>3 DEF TypeOK, app
<1>6. ReaderInv'
  BY <1>2, <1>3, <1>4 DEF ReaderInv
<1>7. MapsInv'
  BY <1>1, <1>2, <1>4 DEF MapsInv
<1>8. RacedInv' /\ \A c \in Conns : ConnInv(c)'
  BY <1>1, <1>2 DEF RacedInv, Live, ConnInv
<1>9. Reachable'
  <2> SUFFICES ASSUME NEW c \in Conns, Found(c), addrOf[c] \in Addrs, addrOf[c] \notin raced
               PROVE  Found(c)'
    BY <1>1, <1>2 DEF Reachable, TypeOK
  <2>1. CASE c = made
    BY <1>2, <1>4, <2>1 DEF Found, Storing
  <2>2. CASE c # made
    <3>1. gcs[addrOf[c]] = c /\ ~Storing(c) /\ ~Storing(c)'
      BY <1>2, <2>2 DEF Found, Storing
    <3>2. CASE addrOf[c] = a
      BY <1>1, <1>3, <2>2, <3>1, <3>2 DEF Reachable, ConnInv, Found
    <3>3. CASE addrOf[c] # a
      BY <1>2, <1>4, <3>1, <3>3 DEF Found
    <3> QED BY <3>2, <3>3
  <2> QED BY <2>1, <2>2
<1>10. \A c \in Conns : Syn1Inv(c)'
  BY <1>1, <1>2, <1>4 DEF Syn1Inv, Storing
<1> QED BY <1>5, <1>6, <1>7, <1>8, <1>9, <1>10 DEF Inv

LEMMA StoreClosesStep ==
  ASSUME Inv, StoreCloses
  PROVE  Inv'
<1> DEFINE a == reader.addr
<1>1. TypeOK /\ ReaderInv /\ MapsInv /\ RacedInv /\ Reachable
      /\ \A c \in Conns : ConnInv(c) /\ Syn1Inv(c)
  BY DEF Inv
<1>2. /\ UNCHANGED <<made, addrOf, conn, rm, gcs, msgs, queue, told, app, crashed, raced>>
      /\ reader.at = "closes" /\ reader' = [reader EXCEPT !.at = "find"]
      /\ closes' = [closes EXCEPT ![a] = made] /\ worker' = [worker EXCEPT ![made] = "select"]
  BY DEF StoreCloses, Goes, peers
<1>3. /\ made \in Conns /\ addrOf[made] = a /\ reader.kind = "SYN1" /\ a \in Addrs
      /\ conn[made] = "init" /\ worker[made] = "none" /\ queue[made] = <<>> /\ made \notin told
      /\ (a \notin raced => msgs[a] = made)
  BY <1>1, <1>2 DEF ReaderInv, TypeOK, ConnInv, MapsInv
<1>4. /\ reader'.at = "find" /\ reader'.addr = a /\ reader'.kind = "SYN1"
      /\ closes'[a] = made /\ \A b \in Addrs \ {a} : closes'[b] = closes[b]
      /\ worker'[made] = "select" /\ \A c \in Conns \ {made} : worker'[c] = worker[c]
  BY <1>1, <1>2, <1>3 DEF TypeOK
<1>5. TypeOK'
  BY <1>1, <1>2, <1>3 DEF TypeOK, app
<1>6. ReaderInv'
  BY <1>2, <1>3, <1>4 DEF ReaderInv
<1>7. MapsInv'
  BY <1>1, <1>2, <1>3, <1>4 DEF MapsInv, TypeOK
<1>8. RacedInv' /\ \A c \in Conns : ConnInv(c)'
  BY <1>1, <1>2, <1>4 DEF RacedInv, Live, ConnInv
<1>9. Reachable'
  <2> SUFFICES ASSUME NEW c \in Conns, Found(c), addrOf[c] \in Addrs, addrOf[c] \notin raced PROVE Found(c)'
    BY <1>1, <1>2 DEF Reachable, TypeOK
  <2>1. CASE c = made
    BY <1>2, <1>3, <1>4, <2>1 DEF Found, Storing
  <2>2. CASE c # made
    <3>1. gcs[addrOf[c]] = c /\ ~Storing(c) /\ ~Storing(c)' /\ worker'[c] = worker[c]
      BY <1>2, <1>4, <2>2 DEF Found, Storing
    <3>2. CASE addrOf[c] = a
      BY <1>2, <1>3, <2>2, <3>1, <3>2 DEF Found
    <3>3. CASE addrOf[c] # a
      BY <1>2, <1>4, <3>1, <3>3 DEF Found
    <3> QED BY <3>2, <3>3
  <2> QED BY <2>1, <2>2
<1>10. ASSUME NEW c \in Conns PROVE Syn1Inv(c)'
  <2>1. CASE c = made
    BY <1>2, <1>3, <1>4, <2>1 DEF Syn1Inv
  <2>2. CASE c # made
    BY <1>1, <1>2, <1>4, <2>2 DEF Syn1Inv, Storing
  <2> QED BY <2>1, <2>2
<1> QED BY <1>5, <1>6, <1>7, <1>8, <1>9, <1>10 DEF Inv

-----------------------------------------------------------------------------
\* RmGConn.  Whoever calls it is the only live connection of its address, or the
\* address is raced; after the first step none is.
LEMMA RmConnStep ==
  ASSUME Inv, NEW c \in Conns, RmConn(c)
  PROVE  Inv'
<1> DEFINE a == addrOf[c]
<1>1. TypeOK /\ ReaderInv /\ MapsInv /\ RacedInv /\ Reachable
      /\ \A d \in Conns : ConnInv(d) /\ Syn1Inv(d)
  BY DEF Inv
<1>2. /\ UNCHANGED <<reader, made, addrOf, conn, msgs, closes, queue, told, worker, app, crashed, raced>>
      /\ conn[c] \in {"closing", "linger"} /\ rm[c] = "no" /\ a \in Addrs
      /\ gcs' = [gcs EXCEPT ![a] = None] /\ rm' = [rm EXCEPT ![c] = "msgs"]
  BY <1>1 DEF RmConn, TypeOK
<1>3. /\ gcs'[a] = None /\ \A b \in Addrs \ {a} : gcs'[b] = gcs[b]
      /\ rm'[c] = "msgs" /\ \A d \in Conns \ {c} : rm'[d] = rm[d]
  BY <1>1, <1>2 DEF TypeOK
<1>4. TypeOK'
  BY <1>1, <1>2 DEF TypeOK, app, None, Steps
<1>5. ReaderInv'
  BY <1>1, <1>2, <1>3 DEF ReaderInv, TypeOK
<1>6. MapsInv' /\ \A d \in Conns : ConnInv(d)'
  <2>1. MapsInv'
    BY <1>1, <1>2 DEF MapsInv
  <2>2. ~(c > made)
    BY <1>1, <1>2 DEF ConnInv
  <2> QED BY <1>1, <1>2, <1>3, <2>1, <2>2 DEF ConnInv
<1>7. \A d \in Conns : d # c /\ Live(d) /\ addrOf[d] = a => a \in raced
  <2> SUFFICES ASSUME NEW d \in Conns, d # c, Live(d), addrOf[d] = a, a \notin raced PROVE FALSE
    OBVIOUS
  <2>1. gcs[a] = c
    BY <1>1, <1>2 DEF Reachable, Found
  <2>2. gcs[a] = d
    BY <1>1 DEF Reachable, Found, Live
  <2> QED BY <2>1, <2>2
<1>8. \A d \in Conns : Live(d)' => d # c /\ Live(d)
  BY <1>2, <1>3 DEF Live
<1>9. RacedInv'
  <2> SUFFICES ASSUME NEW d \in Conns, NEW e \in Conns, rm'[e] \in Steps, Live(d)', addrOf[d] = addrOf[e]
               PROVE  addrOf[d] \in raced
    BY <1>2 DEF RacedInv
  <2>1. CASE e = c
    BY <1>7, <1>8, <2>1
  <2>2. CASE e # c
    BY <1>1, <1>3, <1>8, <2>2 DEF RacedInv
  <2> QED BY <2>1, <2>2
<1>10. Reachable'
  <2> SUFFICES ASSUME NEW d \in Conns, Live(d)', addrOf[d] \notin raced PROVE Found(d)'
    BY <1>2 DEF Reachable, Live
  <2>1. Found(d) /\ addrOf[d] # a /\ addrOf[d] \in Addrs
    BY <1>1, <1>7, <1>8 DEF Reachable, Live, TypeOK
  <2> QED BY <1>2, <1>3, <2>1 DEF Found, Storing
<1>11. \A d \in Conns : Syn1Inv(d)'
  BY <1>1, <1>2 DEF Syn1Inv, Storing
<1> QED BY <1>4, <1>5, <1>6, <1>9, <1>10, <1>11 DEF Inv

\* Afterwards: who has this address and is live is raced, so the entries may go.
LEMMA RmMsgsStep ==
  ASSUME Inv, NEW c \in Conns, RmMsgs(c)
  PROVE  Inv'
<1> DEFINE a == addrOf[c]
<1>1. TypeOK /\ ReaderInv /\ MapsInv /\ RacedInv /\ Reachable
      /\ \A d \in Conns : ConnInv(d) /\ Syn1Inv(d)
  BY DEF Inv
<1>2. /\ UNCHANGED <<reader, made, addrOf, conn, gcs, closes, queue, told, worker, app, crashed, raced>>
      /\ rm[c] = "msgs" /\ a \in Addrs
      /\ msgs' = [msgs EXCEPT ![a] = None] /\ rm' = [rm EXCEPT ![c] = "load"]
  BY <1>1 DEF RmMsgs, TypeOK
<1>3. /\ msgs'[a] = None /\ \A b \in Addrs \ {a} : msgs'[b] = msgs[b]
      /\ rm'[c] = "load" /\ \A d \in Conns \ {c} : rm'[d] = rm[d]
  BY <1>1, <1>2 DEF TypeOK
<1>4. TypeOK'
  BY <1>1, <1>2 DEF TypeOK, app, None, Steps
<1>5. \A d \in Conns : Live(d) /\ addrOf[d] = a => a \in raced
  BY <1>1, <1>2 DEF RacedInv, Steps
<1>6. ReaderInv'
  <2>1. reader.at = "closes" /\ reader.addr = a => a \in raced
    BY <1>1, <1>5 DEF ReaderInv, ConnInv, Live
  <2>2. reader.addr \in Addrs
    BY <1>1 DEF TypeOK
  <2> QED BY <1>1, <1>2, <1>3, <2>1, <2>2 DEF ReaderInv
<1>7. MapsInv' /\ \A d \in Conns : ConnInv(d)'
  BY <1>1, <1>2, <1>3 DEF MapsInv, ConnInv, Steps
<1>8. \A d \in Conns : (Live(d)' <=> Live(d)) /\ (rm'[d] \in Steps <=> rm[d] \in Steps)
  BY <1>2, <1>3 DEF Live, Steps
<1>9. RacedInv'
  BY <1>1, <1>2, <1>8 DEF RacedInv
<1>10. Reachable'
  <2> SUFFICES ASSUME NEW d \in Conns, Live(d)', addrOf[d] \notin raced PROVE Found(d)'
    BY <1>2 DEF Reachable, Live
  <2>1. Found(d) /\ addrOf[d] # a /\ addrOf[d] \in Addrs
    BY <1>1, <1>5, <1>8 DEF Reachable, Live, TypeOK
  <2> QED BY <1>2, <1>3, <2>1 DEF Found, Storing
<1>11. \A d \in Conns : Syn1Inv(d)'
  BY <1>1, <1>2 DEF Syn1Inv, Storing
<1> QED BY <1>4, <1>6, <1>7, <1>9, <1>10, <1>11 DEF Inv

LEMMA RmTellStep ==
  ASSUME Inv, NEW c \in Conns, RmTell(c)
  PROVE  Inv'
<1> DEFINE a == addrOf[c]
<1>1. TypeOK /\ ReaderInv /\ MapsInv /\ RacedInv /\ Reachable
      /\ \A d \in Conns : ConnInv(d) /\ Syn1Inv(d)
  BY DEF Inv
<1>2. UNCHANGED <<reader, made, addrOf, gcs, msgs, closes, queue, worker, app, crashed, raced>>
      /\ rm[c] = "load" /\ a \in Addrs
  BY <1>1 DEF RmTell, maps, TypeOK
<1>3. \/ told' = told /\ rm' = [rm EXCEPT ![c] = "done"] /\ conn' = [conn EXCEPT ![c] = "removed"]
      \/ /\ closes[a] # None /\ told' = told \cup {closes[a]}
         /\ rm' = [rm EXCEPT ![c] = "closes"] /\ conn' = conn
  BY DEF RmTell, Removed
<1>4. /\ rm'[c] \in {"closes", "done"} /\ \A d \in Conns \ {c} : rm'[d] = rm[d] /\ conn'[d] = conn[d]
      /\ conn'[c] \in {conn[c], "removed"}
      /\ told' \subseteq told \cup {closes[a]} /\ (closes[a] = None => told' = told)
  BY <1>1, <1>3 DEF TypeOK
<1>5. TypeOK'
  BY <1>1, <1>2, <1>3 DEF TypeOK, app, Steps, None
<1>6. \A d \in Conns : Live(d) /\ addrOf[d] = a => a \in raced
  BY <1>1, <1>2 DEF RacedInv, Steps
<1>7. \A d \in Conns : Live(d)' => d # c /\ Live(d)
  BY <1>4 DEF Live
<1>8. ReaderInv'
  <2>1. reader.at \in {"msgs", "closes"} => made # c
    BY <1>1, <1>2 DEF ReaderInv, ConnInv
  <2> QED BY <1>1, <1>2, <1>4, <2>1 DEF ReaderInv
<1>9. MapsInv'
  BY <1>1, <1>2, <1>4 DEF MapsInv
<1>10. \A d \in Conns : ConnInv(d)'
  <2>1. ~(c > made) /\ conn[c] # "init"
    BY <1>1, <1>2 DEF ConnInv
  <2>2. worker[c] # "accept" /\ conn[c] \in {"closing", "linger"} /\ (rm'[c] \in Steps => conn' = conn)
    BY <1>1, <1>2, <1>3 DEF ConnInv, Steps, TypeOK
  <2> QED BY <1>1, <1>2, <1>4, <2>1, <2>2 DEF ConnInv
<1>11. RacedInv'
  <2>1. \A d \in Conns : rm'[d] \in Steps => rm[d] \in Steps
    BY <1>2, <1>4 DEF Steps
  <2> QED BY <1>1, <1>2, <1>7, <2>1 DEF RacedInv
<1>12. Reachable'
  <2> SUFFICES ASSUME NEW d \in Conns, Live(d)', addrOf[d] \notin raced PROVE Found(d)'
    BY <1>2 DEF Reachable, Live
  <2>1. Found(d) /\ addrOf[d] # a
    BY <1>1, <1>6, <1>7 DEF Reachable, Live
  <2>2. d \notin told' \/ d \in told
    BY <1>1, <1>2, <1>4, <2>1 DEF MapsInv, None
  <2> QED BY <1>2, <2>1, <2>2 DEF Found, Storing
<1>13. \A d \in Conns : Syn1Inv(d)'
  BY <1>1, <1>2, <1>4 DEF Syn1Inv, Storing
<1> QED BY <1>5, <1>8, <1>9, <1>10, <1>11, <1>12, <1>13 DEF Inv

LEMMA RmClosesStep ==
  ASSUME Inv, NEW c \in Conns, RmCloses(c)
  PROVE  Inv'
<1> DEFINE a == addrOf[c]
<1>1. TypeOK /\ ReaderInv /\ MapsInv /\ RacedInv /\ Reachable
      /\ \A d \in Conns : ConnInv(d) /\ Syn1Inv(d)
  BY DEF Inv
<1>2. /\ UNCHANGED <<reader, made, addrOf, gcs, msgs, queue, told, worker, app, crashed, raced>>
      /\ rm[c] = "closes" /\ a \in Addrs /\ closes' = [closes EXCEPT ![a] = None]
      /\ rm' = [rm EXCEPT ![c] = "done"] /\ conn' = [conn EXCEPT ![c] = "removed"]
  BY <1>1 DEF RmCloses, Removed, TypeOK
<1>3. /\ closes'[a] = None /\ \A b \in Addrs \ {a} : closes'[b] = closes[b]
      /\ rm'[c] = "done" /\ conn'[c] = "removed"
      /\ \A d \in Conns \ {c} : rm'[d] = rm[d] /\ conn'[d] = conn[d]
  BY <1>1, <1>2 DEF TypeOK
<1>4. TypeOK'
  BY <1>1, <1>2 DEF TypeOK, app, None, Steps
<1>5. \A d \in Conns : Live(d) /\ addrOf[d] = a => a \in raced
  BY <1>1, <1>2 DEF RacedInv, Steps
<1>6. \A d \in Conns : Live(d)' => d # c /\ Live(d)
  BY <1>3 DEF Live
<1>7. ReaderInv'
  <2>1. reader.at \in {"msgs", "closes"} => made # c
    BY <1>1, <1>2 DEF ReaderInv, ConnInv
  <2> QED BY <1>1, <1>2, <1>3, <2>1 DEF ReaderInv
<1>8. MapsInv'
  BY <1>1, <1>2, <1>3 DEF MapsInv
<1>9. \A d \in Conns : ConnInv(d)'
  <2>1. ~(c > made) /\ worker[c] # "accept"
    BY <1>1, <1>2 DEF ConnInv, Steps
  <2> QED BY <1>1, <1>2, <1>3, <2>1 DEF ConnInv, Steps
<1>10. RacedInv'
  <2>1. \A d \in Conns : rm'[d] \in Steps => rm[d] \in Steps
    BY <1>2, <1>3 DEF Steps
  <2> QED BY <1>1, <1>2, <1>6, <2>1 DEF RacedInv
<1>11. Reachable'
  <2> SUFFICES ASSUME NEW d \in Conns, Live(d)', addrOf[d] \notin raced PROVE Found(d)'
    BY <1>2 DEF Reachable, Live
  <2>1. Found(d) /\ addrOf[d] # a /\ addrOf[d] \in Addrs
    BY <1>1, <1>5, <1>6 DEF Reachable, Live, TypeOK
  <2> QED BY <1>2, <1>3, <2>1 DEF Found, Storing
<1>12. \A d \in Conns : Syn1Inv(d)'
  BY <1>1, <1>2, <1>3 DEF Syn1Inv, Storing
<1> QED BY <1>4, <1>7, <1>8, <1>9, <1>10, <1>11, <1>12 DEF Inv

-----------------------------------------------------------------------------
LEMMA InvStep == Inv /\ [Next]_vars => Inv'
<1> SUFFICES ASSUME Inv, [Next]_vars PROVE Inv'
  OBVIOUS
<1>1. CASE UNCHANGED vars
  <2>1. TypeOK'
    BY <1>1 DEF Inv, TypeOK, vars, peers, maps, app
  <2> QED BY <1>1, <2>1, OtherSteps DEF vars
<1>2. CASE Reader \/ \E a \in Addrs, k \in Kinds : ReadFromUDP(a, k)
  BY <1>2, ReadSteps, FindSteps, PushStep, StoreConnStep, StoreMsgsStep, StoreClosesStep DEF Reader
<1>3. ASSUME NEW c \in Conns, Worker(c) \/ RecvReturns(c) \/ Close(c) \/ FinStart(c) \/ Ending(c)
      PROVE  Inv'
  BY <1>3, WorkerSteps, CloseSteps, RmConnStep, RmMsgsStep, RmTellStep, RmClosesStep DEF Ending
<1>4. CASE CloseListener \/ RangeNext \/ \E c \in Conns : RangeReturn(c)
  <2>1. UNCHANGED <<reader, peers, maps, queue, told, worker, raced, crashed>>
    BY <1>4 DEF CloseListener, RangeNext, RangeReturn
  <2>2. closer' \in [left : SUBSET Addrs, conn : Conns \cup {None}] /\ closeSignal' \in BOOLEAN
    <3>1. TypeOK
      BY DEF Inv
    <3>2. CASE CloseListener
      BY <3>1, <3>2 DEF TypeOK, CloseListener, None
    <3>3. CASE RangeNext
      BY <3>1, <3>3 DEF TypeOK, RangeNext
    <3>4. CASE \E c \in Conns : RangeReturn(c)
      BY <3>1, <3>4 DEF TypeOK, RangeReturn, None
    <3> QED BY <1>4, <3>2, <3>3, <3>4
  <2>3. TypeOK'
    BY <2>1, <2>2 DEF Inv, TypeOK, peers, maps
  <2> QED BY <2>1, <2>3, OtherSteps
<1>5. CASE \E c \in Conns : RangeClose(c)
  BY <1>5, CloseSteps
<1> QED BY <1>1, <1>2, <1>3, <1>4, <1>5 DEF Next, Closer

LEMMA Invariance == Spec => []Inv
<1> QED BY InvInit, InvStep, PTL DEF Spec

\* Type correctness; in particular the channels keep their length.
THEOREM Typed == Spec => []TypeOK
<1>1. Inv => TypeOK
  BY DEF Inv
<1> QED BY <1>1, Invariance, PTL

\* A connection that has not been removed is found through all three maps, and its
\* worker runs: only the registration of an address in the middle of its RmGConn
\* (listener.go:149 against :104) can break that.
THEOREM AlwaysReachable == Spec => []Reachable
<1>1. Inv => Reachable
  BY DEF Inv
<1> QED BY <1>1, Invariance, PTL

\* The worker of a connection meets its SYN1 first, whatever else its peer sends and
\* whatever was in the channel of an earlier connection of the address.
THEOREM Syn1First == Spec => []FirstIsSyn1
<1>1. Inv => FirstIsSyn1
  <2> SUFFICES ASSUME Inv, NEW c \in Conns, conn[c] = "init", worker[c] = "select",
                      queue[c] # <<>>, addrOf[c] \notin raced
               PROVE  Head(queue[c]) = "SYN1"
    BY DEF FirstIsSyn1
  <2>1. Syn1Inv(c) /\ ~Storing(c)
    BY DEF Inv, ReaderInv, Storing
  <2> QED BY <2>1 DEF Syn1Inv
<1> QED BY <1>1, Invariance, PTL

-----------------------------------------------------------------------------
(* The channels of an address. *)

\* The reader is about to fill msgs and closes for an address.
StoringAt(a) == reader.at \in {"msgs", "closes"} /\ reader.addr = a

\* RmGConn, between its steps: what it has removed, and whom it has told.
RemovalInv(c) ==
  addrOf[c] \notin raced =>
    /\ rm[c] \in Steps => ~StoringAt(addrOf[c])
    /\ rm[c] \in {"msgs", "load"} => closes[addrOf[c]] = c
    /\ rm[c] \in {"load", "closes"} => msgs[addrOf[c]] = None
    /\ rm[c] = "closes" \/ conn[c] = "removed" => c \in told

\* An address has the channel of a connection only together with the other one, but
\* for the time in which they are stored, and the reader finds two that belong together.
PairsInv ==
  /\ \A a \in Addrs \ raced :
       ~(reader.at = "closes" /\ reader.addr = a) => msgs[a] \in {None, closes[a]}
  /\ reader.addr \notin raced =>
       /\ reader.at = "found" => closes[reader.addr] \in {reader.msgs, None}
       /\ reader.at = "push" => reader.closes = reader.msgs

ChannelsInv ==
  /\ \A c, d \in Conns : rm[c] \in Steps /\ rm[d] \in Steps => c = d
  /\ \A c \in Conns : worker[c] = "end" => c \in told
  /\ \A c \in Conns : RemovalInv(c)
  /\ PairsInv

LEMMA ChannelsInit == Init => ChannelsInv
<1> QED BY DEF Init, AtStart, ChannelsInv, RemovalInv, PairsInv, StoringAt, Steps

\* The steps of workers, of applications and of Listener.Close.
LEMMA ChannelsKept ==
  ASSUME Inv, Inv', ChannelsInv, UNCHANGED <<reader, addrOf, rm, maps, told, raced>>,
         \A c \in Conns : worker'[c] = "end" => worker[c] = "end" \/ c \in told,
         \A c \in Conns : conn'[c] = "removed" => conn[c] = "removed"
  PROVE  ChannelsInv'
<1> QED BY DEF ChannelsInv, RemovalInv, PairsInv, StoringAt, maps

LEMMA ChannelsOfWorkers ==
  ASSUME Inv, Inv', ChannelsInv, NEW c \in Conns,
         Worker(c) \/ RecvReturns(c) \/ Close(c) \/ FinStart(c) \/ FinEnd(c) \/ RangeClose(c) \/ RangeReturn(c)
  PROVE  ChannelsInv'
<1>0. TypeOK /\ TypeOK'
  BY DEF Inv
<1>1. UNCHANGED <<reader, addrOf, rm, maps, told, raced>>
  BY DEF Worker, TakeSyn1, TakeOther, WorkerEnds, HandleSyn1, Accept, AcceptTimeout, RecvReturns,
         Close, FinStart, FinEnd, RangeClose, RangeReturn, Take, peers, app
<1>2. worker' = worker \/ \E w \in {"syn1", "recv", "accept", "select"} : worker' = [worker EXCEPT ![c] = w]
      \/ (worker' = [worker EXCEPT ![c] = "end"] /\ c \in told)
  BY DEF Worker, TakeSyn1, TakeOther, WorkerEnds, HandleSyn1, Accept, AcceptTimeout, RecvReturns,
         Close, FinStart, FinEnd, RangeClose, RangeReturn, Take, peers, app
<1>3. conn' = conn \/ \E w \in {"accept", "est", "closing", "fin", "linger"} : conn' = [conn EXCEPT ![c] = w]
  BY DEF Worker, TakeSyn1, TakeOther, WorkerEnds, HandleSyn1, Accept, AcceptTimeout, RecvReturns,
         Close, FinStart, FinEnd, RangeClose, RangeReturn, CloseConn, Take, peers, app
<1>4. \A d \in Conns : worker'[d] = "end" => worker[d] = "end" \/ d \in told
  BY <1>0, <1>2 DEF TypeOK
<1>5. \A d \in Conns : conn'[d] = "removed" => conn[d] = "removed"
  BY <1>0, <1>3 DEF TypeOK
<1> QED BY <1>1, <1>4, <1>5, ChannelsKept

LEMMA ChannelsOfOthers ==
  ASSUME Inv, Inv', ChannelsInv, CloseListener \/ RangeNext \/ UNCHANGED vars
  PROVE  ChannelsInv'
<1>1. UNCHANGED <<reader, addrOf, rm, maps, told, raced, worker, conn>>
  BY DEF CloseListener, RangeNext, vars, peers, app
<1> QED BY <1>1, ChannelsKept

-----------------------------------------------------------------------------
\* The reader, before it finds anything.
LEMMA ChannelsOfReader ==
  ASSUME Inv, Inv', ChannelsInv,
         \/ Check \/ Push \/ \E a \in Addrs, k \in Kinds : ReadFromUDP(a, k)
  PROVE  ChannelsInv'
<1>0. TypeOK /\ TypeOK'
  BY DEF Inv
<1>1. UNCHANGED <<addrOf, rm, maps, told, raced, worker, conn>>
  BY DEF Check, Push, ReadFromUDP, peers, app
<1>2. reader.at \in {"check", "load", "push"} /\ reader'.at \in {"check", "load", "end", "gcs", "find"}
  <2>1. CASE Check
    BY <1>0, <2>1 DEF Check, Goes, TypeOK
  <2>2. CASE Push
    BY <1>0, <2>2 DEF Push, AtStart, TypeOK
  <2>3. CASE \E a \in Addrs, k \in Kinds : ReadFromUDP(a, k)
    BY <1>0, <2>3 DEF ReadFromUDP, TypeOK
  <2> QED BY <2>1, <2>2, <2>3
<1> QED BY <1>1, <1>2 DEF ChannelsInv, RemovalInv, PairsInv, StoringAt, maps

LEMMA ChannelsOfFind ==
  ASSUME Inv, Inv', ChannelsInv, FindMsgs \/ FindCloses
  PROVE  ChannelsInv'
<1>0. TypeOK /\ TypeOK'
  BY DEF Inv
<1>1. UNCHANGED <<addrOf, rm, maps, told, raced, worker, conn>>
  BY DEF FindMsgs, FindCloses, peers, app
<1>2. \A c \in Conns : RemovalInv(c)'
  <2>1. reader'.at \notin {"msgs", "closes"}
    <3>1. CASE FindMsgs
      BY <1>0, <3>1 DEF FindMsgs, AtStart, TypeOK
    <3>2. CASE FindCloses
      BY <1>0, <3>2 DEF FindCloses, AtStart, TypeOK
    <3> QED BY <3>1, <3>2
  <2> QED BY <1>1, <2>1 DEF ChannelsInv, RemovalInv, StoringAt, maps
<1>3. CASE FindMsgs
  <2>1. CASE msgs[reader.addr] = None
    <3>1. reader'.at = "check" /\ reader.at = "find"
      BY <1>3, <2>1 DEF FindMsgs, AtStart
    <3> QED BY <1>1, <1>2, <3>1 DEF ChannelsInv, PairsInv, maps
  <2>2. CASE msgs[reader.addr] # None
    <3>1. /\ reader.at = "find" /\ reader'.at = "found" /\ reader'.addr = reader.addr
          /\ reader'.msgs = msgs[reader.addr] /\ reader.addr \in Addrs
      BY <1>0, <1>3, <2>2 DEF FindMsgs, TypeOK
    <3>2. reader.addr \notin raced => closes[reader.addr] = msgs[reader.addr]
      BY <2>2, <3>1 DEF ChannelsInv, PairsInv
    <3>3. PairsInv'
      BY <1>1, <3>1, <3>2 DEF ChannelsInv, PairsInv, maps
    <3> QED BY <1>1, <1>2, <3>3 DEF ChannelsInv
  <2> QED BY <2>1, <2>2
<1>4. CASE FindCloses
  <2>1. CASE closes[reader.addr] = None
    <3>1. reader'.at = "check" /\ reader.at = "found"
      BY <1>4, <2>1 DEF FindCloses, AtStart
    <3> QED BY <1>1, <1>2, <3>1 DEF ChannelsInv, PairsInv, maps
  <2>2. CASE closes[reader.addr] # None
    <3>1. /\ reader.at = "found" /\ reader'.at = "push" /\ reader'.addr = reader.addr
          /\ reader'.msgs = reader.msgs /\ reader'.closes = closes[reader.addr]
      BY <1>0, <1>4, <2>2 DEF FindCloses, TypeOK
    <3>2. reader.addr \notin raced => closes[reader.addr] = reader.msgs
      BY <2>2, <3>1 DEF ChannelsInv, PairsInv
    <3>3. PairsInv'
      BY <1>1, <3>1, <3>2 DEF ChannelsInv, PairsInv, maps
    <3> QED BY <1>1, <1>2, <3>3 DEF ChannelsInv
  <2> QED BY <2>1, <2>2
<1> QED BY <1>3, <1>4

-----------------------------------------------------------------------------
\* The three entries of a new connection.
LEMMA ChannelsOfStoreConn ==
  ASSUME Inv, Inv', ChannelsInv, StoreConn
  PROVE  ChannelsInv'
<1>0. TypeOK /\ TypeOK' /\ ReaderInv /\ \A c \in Conns : ConnInv(c)
  BY DEF Inv
<1> DEFINE n == made + 1
           a == reader.addr
<1>1. /\ reader.at = "gcs" /\ reader'.at = "msgs" /\ reader'.addr = a /\ a \in Addrs
      /\ made' = n /\ addrOf' = [addrOf EXCEPT ![n] = a] /\ conn' = [conn EXCEPT ![n] = "init"]
      /\ raced' = IF \E c \in Conns : rm[c] \in Steps /\ addrOf[c] = a THEN raced \cup {a} ELSE raced
      /\ UNCHANGED <<rm, msgs, closes, told, worker>>
  BY <1>0 DEF StoreConn, Goes, TypeOK
<1>2. n \in Conns /\ n > made
  BY <1>0, <1>1 DEF ReaderInv, TypeOK, Conns
<1>3. rm[n] = "no" /\ addrOf'[n] = a /\ conn'[n] = "init"
      /\ \A c \in Conns \ {n} : addrOf'[c] = addrOf[c] /\ conn'[c] = conn[c]
  BY <1>0, <1>1, <1>2 DEF ConnInv, TypeOK
<1>4. raced \subseteq raced' /\ \A c \in Conns : rm[c] \in Steps /\ addrOf[c] = a => a \in raced'
  BY <1>1
<1> HIDE DEF n, a
<1>5. \A c \in Conns : RemovalInv(c)'
  <2> SUFFICES ASSUME NEW c \in Conns, addrOf'[c] \notin raced' PROVE RemovalInv(c)'
    BY DEF RemovalInv
  <2>1. CASE c = n
    BY <1>1, <1>3, <2>1 DEF RemovalInv, Steps
  <2>2. CASE c # n
    <3>1. addrOf[c] \notin raced /\ RemovalInv(c)
      BY <1>3, <1>4, <2>2 DEF ChannelsInv
    <3>2. rm[c] \in Steps => addrOf'[c] # a
      BY <1>3, <1>4, <2>2
    <3> QED BY <1>1, <1>3, <2>2, <3>1, <3>2 DEF RemovalInv, StoringAt
  <2> QED BY <2>1, <2>2
<1>6. PairsInv'
  BY <1>1, <1>4 DEF ChannelsInv, PairsInv
<1> QED BY <1>1, <1>5, <1>6 DEF ChannelsInv

LEMMA ChannelsOfStore ==
  ASSUME Inv, Inv', ChannelsInv, StoreMsgs \/ StoreCloses
  PROVE  ChannelsInv'
<1>0. TypeOK /\ TypeOK' /\ ReaderInv /\ MapsInv
  BY DEF Inv
<1> DEFINE a == reader.addr
<1>1. a \in Addrs /\ reader.at \in {"msgs", "closes"} /\ reader'.addr = a /\ made \in Conns
  BY <1>0 DEF StoreMsgs, StoreCloses, Goes, TypeOK, ReaderInv
<1>2. UNCHANGED <<addrOf, conn, rm, told, raced>>
  BY DEF StoreMsgs, StoreCloses, peers, app
<1>3. \A c \in Conns : rm[c] \in Steps /\ addrOf[c] \notin raced => addrOf[c] # a
  BY <1>1 DEF ChannelsInv, RemovalInv, StoringAt
<1>4. \A b \in Addrs \ {a} : msgs'[b] = msgs[b] /\ closes'[b] = closes[b]
  BY <1>0 DEF StoreMsgs, StoreCloses, TypeOK
<1>5. \A c \in Conns : worker'[c] = "end" => worker[c] = "end"
  BY <1>0 DEF StoreMsgs, StoreCloses, TypeOK
<1>6. \A c \in Conns : RemovalInv(c)'
  <2> SUFFICES ASSUME NEW c \in Conns, addrOf[c] \notin raced PROVE RemovalInv(c)'
    BY <1>2 DEF RemovalInv
  <2>1. RemovalInv(c) /\ addrOf[c] \in Addrs
    BY <1>0 DEF ChannelsInv, TypeOK
  <2>2. rm[c] \in Steps => addrOf[c] # a /\ msgs'[addrOf[c]] = msgs[addrOf[c]]
                           /\ closes'[addrOf[c]] = closes[addrOf[c]]
    BY <1>3, <1>4, <2>1
  <2> QED BY <1>1, <1>2, <2>1, <2>2 DEF RemovalInv, StoringAt, Steps
<1>7. PairsInv'
  <2>1. reader'.at \in {"closes", "find"} /\ (reader.at = "msgs" => reader'.at = "closes")
    BY <1>0 DEF StoreMsgs, StoreCloses, Goes, TypeOK
  <2>2. \A b \in Addrs \ raced' : ~(reader'.at = "closes" /\ reader'.addr = b) => msgs'[b] \in {None, closes'[b]}
    <3> SUFFICES ASSUME NEW b \in Addrs \ raced, ~(reader'.at = "closes" /\ a = b)
                 PROVE  msgs'[b] \in {None, closes'[b]}
      BY <1>1, <1>2
    <3>1. CASE b = a
      <4>1. StoreCloses /\ a \notin raced
        BY <2>1, <3>1 DEF StoreMsgs, Goes
      <4>2. msgs' = msgs /\ msgs[a] = made /\ closes'[a] = made
        BY <1>0, <1>1, <4>1 DEF StoreCloses, ReaderInv, TypeOK
      <4> QED BY <3>1, <4>2
    <3>2. CASE b # a
      <4>1. msgs[b] \in {None, closes[b]}
        BY <3>2 DEF ChannelsInv, PairsInv
      <4> QED BY <1>4, <3>2, <4>1
    <3> QED BY <3>1, <3>2
  <2> QED BY <2>1, <2>2 DEF PairsInv
<1> QED BY <1>2, <1>5, <1>6, <1>7 DEF ChannelsInv

-----------------------------------------------------------------------------
\* RmGConn.
LEMMA ChannelsOfRmConn ==
  ASSUME Inv, Inv', ChannelsInv, NEW c \in Conns, RmConn(c)
  PROVE  ChannelsInv'
<1>0. TypeOK /\ TypeOK' /\ ReaderInv /\ Reachable /\ \A d \in Conns : ConnInv(d)
  BY DEF Inv
<1>1. /\ conn[c] \in {"closing", "linger"} /\ rm[c] = "no" /\ \A d \in Conns : rm[d] \notin Steps
      /\ rm' = [rm EXCEPT ![c] = "msgs"]
      /\ UNCHANGED <<reader, made, addrOf, conn, msgs, closes, told, worker, raced>>
  BY DEF RmConn, LockFree
<1>2. rm'[c] = "msgs" /\ \A d \in Conns \ {c} : rm'[d] = rm[d]
  BY <1>0, <1>1 DEF TypeOK
<1>3. addrOf[c] \notin raced => closes[addrOf[c]] = c /\ ~StoringAt(addrOf[c])
  <2> SUFFICES ASSUME addrOf[c] \notin raced PROVE closes[addrOf[c]] = c /\ ~StoringAt(addrOf[c])
    OBVIOUS
  <2>1. Found(c)
    BY <1>0, <1>1 DEF Reachable
  <2>2. ~StoringAt(addrOf[c])
    <3> SUFFICES ASSUME StoringAt(addrOf[c]) PROVE FALSE
      OBVIOUS
    <3>1. made \in Conns /\ addrOf[made] = addrOf[c] /\ conn[made] = "init"
      BY <1>0 DEF ReaderInv, StoringAt
    <3>2. rm[made] = "no"
      BY <1>0, <3>1 DEF ConnInv
    <3>3. Found(made)
      BY <1>0, <3>1, <3>2 DEF Reachable
    <3> QED BY <1>1, <2>1, <3>1, <3>3 DEF Found
  <2>3. ~Storing(c)
    BY <1>0, <1>1 DEF Storing, ReaderInv
  <2> QED BY <2>1, <2>2, <2>3 DEF Found
<1>4. \A d \in Conns : RemovalInv(d)'
  <2> TAKE d \in Conns
  <2>1. RemovalInv(d)
    BY DEF ChannelsInv
  <2> QED BY <1>1, <1>2, <1>3, <2>1 DEF RemovalInv, StoringAt, Steps
<1>5. PairsInv'
  BY <1>1 DEF ChannelsInv, PairsInv
<1>6. \A d, e \in Conns : rm'[d] \in Steps /\ rm'[e] \in Steps => d = e
  BY <1>1, <1>2
<1> QED BY <1>1, <1>4, <1>5, <1>6 DEF ChannelsInv

\* The steps after the first one, which nobody else can be in the middle of.
LEMMA ChannelsOfRm ==
  ASSUME Inv, Inv', ChannelsInv, NEW c \in Conns, RmMsgs(c) \/ RmTell(c) \/ RmCloses(c)
  PROVE  ChannelsInv'
<1>0. TypeOK /\ TypeOK'
  BY DEF Inv
<1> DEFINE a == addrOf[c]
<1>1. rm[c] \in Steps /\ a \in Addrs
  BY <1>0 DEF RmMsgs, RmTell, RmCloses, Steps, TypeOK
<1>2. \A d \in Conns \ {c} : rm[d] \notin Steps
  BY <1>1 DEF ChannelsInv
<1>3. UNCHANGED <<reader, addrOf, worker, raced>>
  BY DEF RmMsgs, RmTell, RmCloses, app
<1>4. \A d \in Conns \ {c} : rm'[d] = rm[d] /\ conn'[d] = conn[d]
  <2>1. \E w : rm' = [rm EXCEPT ![c] = w]
    <3>1. CASE RmMsgs(c)
      BY <3>1 DEF RmMsgs
    <3>2. CASE RmTell(c)
      BY <3>2, Zenon DEF RmTell, Removed
    <3>3. CASE RmCloses(c)
      BY <3>3 DEF RmCloses, Removed
    <3> QED BY <3>1, <3>2, <3>3
  <2>2. conn' = conn \/ \E w : conn' = [conn EXCEPT ![c] = w]
    <3>1. CASE RmMsgs(c)
      BY <3>1 DEF RmMsgs
    <3>2. CASE RmTell(c)
      BY <3>2, Zenon DEF RmTell, Removed
    <3>3. CASE RmCloses(c)
      BY <3>3 DEF RmCloses, Removed
    <3> QED BY <3>1, <3>2, <3>3
  <2> QED BY <1>0, <2>1, <2>2 DEF TypeOK
<1>5. told \subseteq told'
  BY DEF RmMsgs, RmTell, RmCloses
<1>6. RemovalInv(c)
  BY DEF ChannelsInv
<1>7. \A d \in Conns \ {c} : RemovalInv(d)'
  <2> TAKE d \in Conns \ {c}
  <2>1. RemovalInv(d)
    BY DEF ChannelsInv
  <2> QED BY <1>2, <1>3, <1>4, <1>5, <2>1 DEF RemovalInv, Steps
<1>8. \A d, e \in Conns : rm'[d] \in Steps /\ rm'[e] \in Steps => d = e
  BY <1>2, <1>4
<1>9. \A d \in Conns : worker'[d] = "end" => d \in told'
  BY <1>3, <1>5 DEF ChannelsInv
<1>10. RemovalInv(c)' /\ PairsInv'
  <2>1. CASE RmMsgs(c)
    <3>1. /\ rm[c] = "msgs" /\ rm'[c] = "load" /\ msgs'[a] = None /\ conn'[c] = conn[c]
          /\ (\A b \in Addrs \ {a} : msgs'[b] = msgs[b]) /\ closes' = closes /\ told' = told
      BY <1>0, <1>1, <2>1 DEF RmMsgs, TypeOK
    <3>2. RemovalInv(c)'
      BY <1>3, <1>6, <3>1 DEF RemovalInv, StoringAt, Steps
    <3>3. PairsInv'
      BY <1>3, <3>1 DEF ChannelsInv, PairsInv
    <3> QED BY <3>2, <3>3
  <2>2. CASE RmTell(c)
    <3>1. rm[c] = "load" /\ UNCHANGED <<msgs, closes>>
      BY <2>2 DEF RmTell, maps
    <3>2. PairsInv'
      BY <1>3, <3>1 DEF ChannelsInv, PairsInv
    <3>3. RemovalInv(c)'
      <4> SUFFICES ASSUME a \notin raced PROVE RemovalInv(c)'
        BY <1>3 DEF RemovalInv
      <4>1. closes[a] = c /\ msgs[a] = None /\ ~StoringAt(a) /\ c # None
        BY <1>6, <3>1 DEF RemovalInv, Steps, Conns, None
      <4>2. rm'[c] \in {"closes", "done"} /\ c \in told'
        BY <1>0, <2>2, <4>1 DEF RmTell, Removed, TypeOK
      <4> QED BY <1>3, <3>1, <4>1, <4>2 DEF RemovalInv, StoringAt
    <3> QED BY <3>2, <3>3
  <2>3. CASE RmCloses(c)
    <3>1. /\ rm[c] = "closes" /\ rm'[c] = "done" /\ closes'[a] = None
          /\ (\A b \in Addrs \ {a} : closes'[b] = closes[b]) /\ msgs' = msgs /\ told' = told
      BY <1>0, <1>1, <2>3 DEF RmCloses, Removed, TypeOK
    <3>2. RemovalInv(c)'
      BY <1>3, <1>6, <3>1 DEF RemovalInv, Steps
    <3>3. a \notin raced => msgs[a] = None
      BY <1>6, <3>1 DEF RemovalInv
    <3>4. ASSUME NEW b \in Addrs \ raced, ~(reader.at = "closes" /\ reader.addr = b)
          PROVE  msgs[b] \in {None, closes'[b]}
      <4>1. CASE b = a
        BY <3>3, <3>4, <4>1
      <4>2. CASE b # a
        <5>1. msgs[b] \in {None, closes[b]}
          BY <3>4 DEF ChannelsInv, PairsInv
        <5> QED BY <3>1, <3>4, <4>2, <5>1
      <4> QED BY <4>1, <4>2
    <3>5. reader.addr \notin raced /\ reader.at = "found" => closes'[reader.addr] \in {reader.msgs, None}
      <4>1. reader.addr \in Addrs
        BY <1>0 DEF TypeOK
      <4>2. CASE reader.addr = a
        BY <3>1, <4>2
      <4>3. CASE reader.addr # a
        BY <3>1, <4>1, <4>3 DEF ChannelsInv, PairsInv
      <4> QED BY <4>2, <4>3
    <3>6. reader.addr \notin raced /\ reader.at = "push" => reader.closes = reader.msgs
      BY DEF ChannelsInv, PairsInv
    <3> HIDE DEF a
    <3>7. PairsInv'
      BY <1>3, <3>1, <3>4, <3>5, <3>6 DEF PairsInv
    <3> QED BY <3>2, <3>7
  <2> QED BY <2>1, <2>2, <2>3
<1>11. \A d \in Conns : RemovalInv(d)'
  BY <1>7, <1>10
<1> QED BY <1>8, <1>9, <1>10, <1>11 DEF ChannelsInv

LEMMA ChannelsStep == Inv /\ ChannelsInv /\ [Next]_vars => ChannelsInv'
<1> SUFFICES ASSUME Inv, ChannelsInv, [Next]_vars PROVE ChannelsInv'
  OBVIOUS
<1>1. Inv'
  BY InvStep
<1>2. CASE UNCHANGED vars
  BY <1>1, <1>2, ChannelsOfOthers
<1>3. CASE Reader
  BY <1>1, <1>3, ChannelsOfReader, ChannelsOfFind, ChannelsOfStoreConn, ChannelsOfStore DEF Reader
<1>4. CASE \E a \in Addrs, k \in Kinds : ReadFromUDP(a, k)
  BY <1>1, <1>4, ChannelsOfReader
<1>5. ASSUME NEW c \in Conns, Worker(c) \/ RecvReturns(c) \/ Close(c) \/ FinStart(c) \/ Ending(c)
      PROVE  ChannelsInv'
  BY <1>1, <1>5, ChannelsOfWorkers, ChannelsOfRmConn, ChannelsOfRm DEF Ending
<1>6. CASE CloseListener \/ Closer
  BY <1>1, <1>6, ChannelsOfOthers, ChannelsOfWorkers DEF Closer
<1> QED BY <1>2, <1>3, <1>4, <1>5, <1>6 DEF Next

LEMMA ChannelsInvariance == Spec => [](Inv /\ ChannelsInv)
<1> QED BY InvInit, InvStep, ChannelsInit, ChannelsStep, PTL DEF Spec

\* RmGConn leaves no worker behind: whoever is removed has been told to end, unless the
\* reader has registered the address again in the middle of a RmGConn.
NoneLeaked ==
  \A c \in Conns : conn[c] = "removed" /\ addrOf[c] \notin raced => c \in told

\* NoneLeaked: the worker of a removed connection has been told to end.
THEOREM WorkersAreTold == Spec => []NoneLeaked
<1>1. ChannelsInv => NoneLeaked
  BY DEF ChannelsInv, RemovalInv, NoneLeaked
<1> QED BY <1>1, ChannelsInvariance, PTL

\* The reader of all connections never waits for a worker that is gone: the two channels
\* of its select are of one connection, so if the worker that should make room has
\* ended, the other case of the select is ready.
NeverWaitsForNobody ==
  reader.at = "push" /\ reader.addr \notin raced =>
    reader.msgs = reader.closes /\ (worker[reader.msgs] = "end" => WorkerTold)

\* NeverWaitsForNobody: the select of pushMsg2Conn can always go on, or its worker can.
THEOREM ReaderIsReleased == Spec => []NeverWaitsForNobody
<1>1. Inv /\ ChannelsInv => NeverWaitsForNobody
  BY DEF Inv, ReaderInv, ChannelsInv, PairsInv, NeverWaitsForNobody, WorkerTold
<1> QED BY <1>1, ChannelsInvariance, PTL

\* rmConnLock keeps the RmGConns apart.
OneRemoval == \A c, d \in Conns : rm[c] \in Steps /\ rm[d] \in Steps => c = d

\* OneRemoval: no two goroutines are between the steps of RmGConn.
THEOREM OneRemovalAtATime == Spec => []OneRemoval
<1>1. ChannelsInv => OneRemoval
  BY DEF ChannelsInv, OneRemoval
<1> QED BY <1>1, ChannelsInvariance, PTL
=============================================================================
