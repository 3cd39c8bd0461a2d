---------------------------- MODULE CodecProofs ----------------------------
(* No cipher of the table panics, and every datagram is encrypted with the   *)
(* stream of its own IV, for any goroutines at both ends; the decoder gets   *)
(* back every message, with any attributes, and refuses one that is cut; so  *)
(* a handler gets what the constructor at the other end was called with.     *)
(*                                                                           *)
(* Marshall and UnMarshall are recursive functions.  What is proved of them  *)
(* needs induction, which is taken from the well-foundedness of < on Nat,    *)
(* for the members of a set: no operator is a parameter of the theorem.      *)
EXTENDS Codec, SequenceTheorems, WellFoundedInduction, TLAPS

\* The table of ciphers: each algorithm gets a key and an IV it accepts.
LEMMA StreamsMade == \A m \in Methods : StreamMade(m)
<1> SUFFICES ASSUME NEW m \in Methods PROVE StreamMade(m)
  OBVIOUS
<1>1. m \in {"aes128", "aes192", "aes256", "des", "bf", "cast5", "rc4md5", "rc4md56",
             "chacha20", "chacha20ietf", "salsa20"}
  BY DEF Methods, cipherMethod
<1>2. evpBytesToKey(8) = 8 /\ evpBytesToKey(16) = 16 /\ evpBytesToKey(24) = 24 /\ evpBytesToKey(32) = 32
  BY DEF evpBytesToKey, Blocks
<1> USE <1>2 DEF StreamMade, ivLen, cipherMethod
<1>3. CASE m = "aes128"
  BY <1>3
<1>4. CASE m = "aes192"
  BY <1>4
<1>5. CASE m = "aes256"
  BY <1>5
<1>6. CASE m = "des"
  BY <1>6
<1>7. CASE m = "bf"
  BY <1>7
<1>8. CASE m = "cast5"
  BY <1>8
<1>9. CASE m = "rc4md5" \/ m = "rc4md56"
  BY <1>9
<1>10. CASE m = "chacha20"
  BY <1>10
<1>11. CASE m = "chacha20ietf"
  BY <1>11
<1>12. CASE m = "salsa20"
  BY <1>12
<1> QED BY <1>1, <1>3, <1>4, <1>5, <1>6, <1>7, <1>8, <1>9, <1>10, <1>11, <1>12

-----------------------------------------------------------------------------
\* Every datagram is encrypted with the stream of the IV it carries, unless the IV
\* could not be drawn: then its stream is one that no reader makes of it.
OwnStream ==
  \A i \in 1 .. Len(wire) :
    /\ Drawn(wire[i].iv) => wire[i].stream = wire[i].iv
    /\ ~Drawn(wire[i].iv) => wire[i].stream # wire[i].iv

\* The cipher of an end that has encrypted a datagram has a stream from then on.
HasStream ==
  \A i \in 1 .. Len(wire) : method = "none" \/ enc[wire[i].to] # Nil

\* A goroutine in the middle of Encrypt holds the lock, alone, and the stream in the
\* cipher is the one of its IV, if it has drawn one.
Sealing(g) ==
  /\ lock[EndOf[g]] = "held"
  /\ enc[EndOf[g]] # Nil
  /\ iv[g] = Nil \/ enc[EndOf[g]] = iv[g]
  /\ method # "none"

Panicked(g) == iv[g] = Nil /\ enc[EndOf[g]] = Nil /\ method # "none"

States == {"idle", "built", "sealing", "panic"}

Inv ==
  /\ method \in Methods \cup {"none"}
  /\ pc \in [Goroutines -> States]
  /\ lock \in [Ends -> {"free", "held"}]
  /\ DOMAIN iv = Goroutines /\ iv = [g \in Goroutines |-> iv[g]]
  /\ DOMAIN enc = Ends /\ enc = [e \in Ends |-> enc[e]]
  /\ \A g \in Goroutines : pc[g] = "sealing" => Sealing(g)
  /\ \A g \in Goroutines : pc[g] = "panic" => Panicked(g)
  /\ \A g, h \in Goroutines :
       pc[g] = "sealing" /\ pc[h] = "sealing" /\ EndOf[g] = EndOf[h] => g = h
  /\ \E S : wire \in Seq(S)
  /\ OwnStream
  /\ HasStream

\* sendMessage, with the stream of its IV, or another one if there is no IV.
LEMMA Writes ==
  ASSUME Inv, NEW g \in Goroutines, NEW v, NEW s, Write(g, v, s), UNCHANGED enc,
         IF Drawn(v) THEN s = v ELSE s # v, method = "none" \/ enc[EndOf[g]] # Nil
  PROVE  (\E S : wire' \in Seq(S)) /\ OwnStream' /\ HasStream'
<1>1. PICK S : wire \in Seq(S)
  BY DEF Inv
<1>2. PICK d : /\ wire' = Append(wire, d)
               /\ d.stream = s /\ d.iv = v /\ d.to = EndOf[g]
  BY DEF Write
<1>3. wire \in Seq(S \cup {d}) /\ d \in S \cup {d}
  BY <1>1
<1>4. wire' \in Seq(S \cup {d})
  BY <1>2, <1>3
<1>5. Len(wire') = Len(wire) + 1 /\ wire'[Len(wire) + 1] = d
      /\ \A i \in 1 .. Len(wire) : wire'[i] = wire[i]
  BY <1>2, <1>3
<1>6. method' = method
  BY DEF Write
<1>7. \A i \in 1 .. Len(wire') : i \in 1 .. Len(wire) \/ i = Len(wire) + 1
  BY <1>1, <1>5
<1>8. OwnStream'
  <2>1. IF Drawn(d.iv) THEN d.stream = d.iv ELSE d.stream # d.iv
    BY <1>2
  <2> SUFFICES ASSUME NEW i \in 1 .. Len(wire')
               PROVE  /\ Drawn(wire'[i].iv) => wire'[i].stream = wire'[i].iv
                      /\ ~Drawn(wire'[i].iv) => wire'[i].stream # wire'[i].iv
    BY <1>6 DEF OwnStream, Drawn
  <2> QED BY <1>5, <1>7, <2>1 DEF Inv, OwnStream
<1>9. HasStream'
  BY <1>2, <1>5, <1>6, <1>7 DEF Inv, HasStream
<1> QED BY <1>4, <1>8, <1>9

LEMMA EndOfIn == EndOf \in [Goroutines -> Ends]
<1> QED BY CodecAssumption

LEMMA InvInit == Init => Inv
<1> SUFFICES ASSUME Init PROVE Inv
  OBVIOUS
<1>1. wire \in Seq({}) /\ Len(wire) = 0
  BY DEF Init
<1>2. pc = [g \in Goroutines |-> "idle"] /\ pc \in [Goroutines -> States]
  BY DEF Init, States
<1> QED BY <1>1, <1>2 DEF Init, Inv, OwnStream, HasStream

LEMMA InvStep == Inv /\ [Next]_vars => Inv'
<1> SUFFICES ASSUME Inv, [Next]_vars PROVE Inv'
  OBVIOUS
<1> USE DEF States
<1>1. CASE UNCHANGED vars
  BY <1>1 DEF vars, Inv, OwnStream, HasStream, Drawn, Sealing, Panicked
<1>a. Running \/ UNCHANGED vars
  BY DEF Next
<1>2. ASSUME NEW g \in Goroutines, Running, Construct(g) \/ Reply(g) PROVE Inv'
  <2>1. pc' = [pc EXCEPT ![g] = "built"] /\ UNCHANGED <<method, iv, lock, enc, wire>>
    BY <1>2 DEF Construct, Reply
  <2>2. OwnStream' /\ HasStream' /\ \E S : wire' \in Seq(S)
    BY <2>1 DEF Inv, OwnStream, HasStream, Drawn
  <2>3. \A h \in Goroutines : pc'[h] \in {"sealing", "panic"} => pc[h] = pc'[h]
    BY <2>1 DEF Inv
  <2>4. \A h \in Goroutines : (Sealing(h) => Sealing(h)') /\ (Panicked(h) => Panicked(h)')
    BY <2>1 DEF Sealing, Panicked
  <2> QED BY <2>1, <2>2, <2>3, <2>4 DEF Inv
<1>3. ASSUME NEW g \in Goroutines, Running, SendPlain(g) PROVE Inv'
  <2>0. method = "none"
    BY <1>3 DEF SendPlain
  <2>1. (\E S : wire' \in Seq(S)) /\ OwnStream' /\ HasStream'
    BY <1>3, <2>0, Writes DEF SendPlain, Drawn
  <2>2. /\ iv' = [iv EXCEPT ![g] = Nil] /\ pc[g] = "built" /\ pc'[g] \in {"idle", "built"}
        /\ pc' = [pc EXCEPT ![g] = pc'[g]] /\ UNCHANGED <<method, lock, enc>>
    BY <1>3 DEF Inv, SendPlain, Sends, Write
  <2>3. pc' \in [Goroutines -> States]
    BY <2>2 DEF Inv
  <2>4. DOMAIN iv' = Goroutines /\ iv' = [h \in Goroutines |-> iv'[h]]
    BY <2>2 DEF Inv
  <2>5. \A h \in Goroutines : pc'[h] \notin {"sealing", "panic"}
    BY <2>0, <2>2 DEF Inv, Sealing, Panicked
  <2> QED BY <2>1, <2>2, <2>3, <2>4, <2>5 DEF Inv
<1>4. ASSUME NEW g \in Goroutines, Running, EncryptStart(g) PROVE Inv'
  <2> DEFINE e == EndOf[g]
  <2>1. PICK v \in {Nil, Fresh(g)} :
          /\ iv' = [iv EXCEPT ![g] = v]
          /\ enc' = [enc EXCEPT ![e] = StreamFor(g, v)]
          /\ pc' = [pc EXCEPT ![g] = IF StreamFor(g, v) = Nil THEN "panic" ELSE "sealing"]
    BY <1>4 DEF EncryptStart
  <2>2. /\ lock[e] = "free" /\ lock' = [lock EXCEPT ![e] = "held"]
        /\ UNCHANGED <<method, wire>> /\ method \in Methods /\ method # "none"
    BY <1>4 DEF Inv, EncryptStart, Unlocked
  <2>3. EndOf \in [Goroutines -> Ends] /\ e \in Ends
    BY EndOfIn
  <2>4. StreamFor(g, v) = IF v = Nil THEN enc[e] ELSE v
    <3>1. StreamMade(method)
      BY <2>2, StreamsMade
    <3> QED BY <3>1 DEF StreamFor
  <2> DEFINE s == StreamFor(g, v)
  <2> HIDE DEF s
  <2>5. /\ iv'[g] = v /\ enc'[e] = s /\ lock'[e] = "held"
        /\ pc'[g] = (IF s = Nil THEN "panic" ELSE "sealing")
        /\ \A h \in Goroutines \ {g} : iv'[h] = iv[h] /\ pc'[h] = pc[h]
        /\ \A f \in Ends \ {e} : enc'[f] = enc[f] /\ lock'[f] = lock[f]
    BY <2>1, <2>2, <2>3 DEF Inv, s
  <2>6. s = (IF v = Nil THEN enc[e] ELSE v)
    BY <2>4 DEF s
  <2>7. \A h \in Goroutines : pc[h] = "sealing" => EndOf[h] # e
    BY <2>2 DEF Inv, Sealing
  <2>8. \A h \in Goroutines : pc[h] # "panic"
    BY <1>4 DEF Running
  <2>9. /\ pc' \in [Goroutines -> States] /\ lock' \in [Ends -> {"free", "held"}]
        /\ DOMAIN iv' = Goroutines /\ iv' = [h \in Goroutines |-> iv'[h]]
        /\ DOMAIN enc' = Ends /\ enc' = [f \in Ends |-> enc'[f]]
    <3>1. pc' \in [Goroutines -> States]
      BY <2>1 DEF Inv
    <3>2. lock' \in [Ends -> {"free", "held"}]
      BY <2>2 DEF Inv
    <3>3. DOMAIN iv' = Goroutines /\ iv' = [h \in Goroutines |-> iv'[h]]
      BY <2>1 DEF Inv
    <3>4. DOMAIN enc' = Ends /\ enc' = [f \in Ends |-> enc'[f]]
      BY <2>1 DEF Inv
    <3> QED BY <3>1, <3>2, <3>3, <3>4
  <2>10. ASSUME NEW h \in Goroutines, pc'[h] = "sealing" PROVE Sealing(h)'
    <3>1. CASE h = g
      BY <2>2, <2>5, <2>6, <2>10, <3>1 DEF Sealing
    <3>2. CASE h # g
      <4>1. pc[h] = "sealing" /\ iv'[h] = iv[h] /\ Sealing(h)
        BY <2>5, <2>10, <3>2 DEF Inv
      <4>2. EndOf[h] \in Ends \ {e}
        BY <2>3, <2>7, <4>1
      <4> QED BY <2>2, <2>5, <4>1, <4>2 DEF Sealing
    <3> QED BY <3>1, <3>2
  <2>11. ASSUME NEW h \in Goroutines, pc'[h] = "panic" PROVE Panicked(h)'
    <3>1. h = g
      BY <2>5, <2>8, <2>11
    <3>2. s = Nil
      BY <2>5, <2>11, <3>1
    <3> QED BY <2>2, <2>5, <2>6, <3>1, <3>2 DEF Panicked
  <2>12. \A h, k \in Goroutines :
          pc'[h] = "sealing" /\ pc'[k] = "sealing" /\ EndOf[h] = EndOf[k] => h = k
    BY <2>5, <2>7 DEF Inv
  <2>13. OwnStream' /\ \E S : wire' \in Seq(S)
    BY <2>2 DEF Inv, OwnStream, Drawn
  <2>14. HasStream'
    <3>1. enc[e] # Nil => enc'[e] # Nil
      BY <2>5, <2>6
    <3>2. \A f : enc[f] # Nil => enc'[f] # Nil
      BY <2>1, <3>1 DEF Inv
    <3> QED BY <2>2, <3>2 DEF Inv, HasStream
  <2> QED BY <2>2, <2>9, <2>10, <2>11, <2>12, <2>13, <2>14 DEF Inv
<1>5. ASSUME NEW g \in Goroutines, Running, EncryptEnd(g) PROVE Inv'
  <2>1. pc[g] = "sealing" /\ Sealing(g)
    BY <1>5 DEF EncryptEnd, Inv
  <2>2. (\E S : wire' \in Seq(S)) /\ OwnStream' /\ HasStream'
    BY <1>5, <2>1, Writes DEF EncryptEnd, Sealing, Drawn
  <2>3. /\ iv' = [iv EXCEPT ![g] = Nil] /\ pc'[g] \in {"idle", "built"}
        /\ pc' = [pc EXCEPT ![g] = pc'[g]] /\ lock' = [lock EXCEPT ![EndOf[g]] = "free"]
        /\ UNCHANGED <<method, enc>>
    BY <1>5 DEF Inv, EncryptEnd, Write
  <2>0. EndOf \in [Goroutines -> Ends]
    BY EndOfIn
  <2>4. \A h \in Goroutines \ {g} : pc[h] = "sealing" => EndOf[h] # EndOf[g]
    BY <2>1 DEF Inv
  <2>5. /\ pc' \in [Goroutines -> States] /\ lock' \in [Ends -> {"free", "held"}]
        /\ DOMAIN iv' = Goroutines /\ iv' = [h \in Goroutines |-> iv'[h]]
    <3>1. pc' \in [Goroutines -> States]
      BY <2>3 DEF Inv
    <3>2. lock' \in [Ends -> {"free", "held"}]
      BY <2>3 DEF Inv
    <3>3. DOMAIN iv' = Goroutines /\ iv' = [h \in Goroutines |-> iv'[h]]
      BY <2>3 DEF Inv
    <3> QED BY <3>1, <3>2, <3>3
  <2>6. /\ pc'[g] \notin {"sealing", "panic"}
        /\ \A h \in Goroutines \ {g} : iv'[h] = iv[h] /\ pc'[h] = pc[h]
        /\ \A e \in Ends \ {EndOf[g]} : lock'[e] = lock[e]
    BY <2>3 DEF Inv
  <2>7. ASSUME NEW h \in Goroutines, pc'[h] = "sealing" PROVE Sealing(h)'
    <3>1. h # g /\ pc[h] = "sealing" /\ iv'[h] = iv[h] /\ Sealing(h)
      BY <2>6, <2>7 DEF Inv
    <3>2. EndOf[h] \in Ends \ {EndOf[g]}
      BY <2>0, <2>4, <3>1
    <3> QED BY <2>3, <2>6, <3>1, <3>2 DEF Sealing
  <2>8. \A h \in Goroutines : pc'[h] # "panic"
    BY <1>5, <2>6 DEF Running
  <2>9. \A h, k \in Goroutines :
          pc'[h] = "sealing" /\ pc'[k] = "sealing" /\ EndOf[h] = EndOf[k] => h = k
    BY <2>6 DEF Inv
  <2> QED BY <2>2, <2>3, <2>5, <2>7, <2>8, <2>9 DEF Inv
<1>6. CASE Receive
  BY <1>6 DEF Receive, Inv, OwnStream, HasStream, Drawn, Sealing, Panicked
<1> QED BY <1>1, <1>a, <1>2, <1>3, <1>4, <1>5, <1>6 DEF Next

LEMMA Invariance == Spec => []Inv
<1> QED BY InvInit, InvStep, PTL DEF Spec

\* NoPanic: newStream succeeds for every method of the table, and a cipher that has
\* encrypted a datagram never lacks a stream, even if rand.Reader fails.
THEOREM StreamsAreMade == Spec => []NoPanic
<1>1. Inv => NoPanic
  <2> SUFFICES ASSUME Inv, NEW g \in Goroutines, pc[g] = "panic"
               PROVE  iv[g] = Nil /\ \A i \in DOMAIN wire : wire[i].to # EndOf[g]
    BY DEF NoPanic
  <2>1. iv[g] = Nil /\ enc[EndOf[g]] = Nil /\ method # "none"
    BY DEF Inv, Panicked
  <2>2. DOMAIN wire = 1 .. Len(wire)
    BY DEF Inv
  <2> QED BY <2>1, <2>2 DEF Inv, HasStream
<1> QED BY <1>1, Invariance, PTL

\* The lock keeps the goroutines of one end apart between the choice of an IV and the
\* encryption: a receiver finds in each datagram the IV its bytes were encrypted with,
\* unless that IV could not be drawn.
THEOREM EncryptedWithOwnIv == Spec => []OwnStream
<1>1. Inv => OwnStream
  BY DEF Inv
<1> QED BY <1>1, Invariance, PTL

-----------------------------------------------------------------------------
Byte == 0 .. 255

LEMMA WordRange == \A n \in Word : n \in Nat /\ n <= 65535
<1> QED BY DEF Word

\* Two bytes of a field.
LEMMA WordBytes ==
  ASSUME NEW n \in Word
  PROVE  /\ U16(n) \in Seq(Byte) /\ Len(U16(n)) = 2
         /\ U16(n)[1] \in Int /\ U16(n)[2] \in Int /\ 256 * U16(n)[1] + U16(n)[2] = n
<1>1. n \in Int /\ 0 <= n /\ n <= 65535
  BY DEF Word
<1>2. n = 256 * (n \div 256) + (n % 256) /\ 0 <= n % 256 /\ n % 256 <= 255
      /\ n % 256 \in Int /\ n \div 256 \in Int
  BY <1>1
<1>3. 0 <= n \div 256 /\ n \div 256 <= 255
  BY <1>1
<1>4. n % 256 \in Byte /\ n \div 256 \in Byte
  BY <1>1, <1>2, <1>3 DEF Byte
<1>5. U16(n)[1] = n \div 256 /\ U16(n)[2] = n % 256
  BY DEF U16
<1>6. U16(n) \in Seq(Byte) /\ Len(U16(n)) = 2
  BY <1>4 DEF U16
<1> QED BY <1>2, <1>5, <1>6

\* What is known of the bytes c when a and b are put together to c.
Joins(c, a, b) ==
  /\ c \in Seq(Byte) /\ Len(c) = Len(a) + Len(b)
  /\ \A i \in 1 .. Len(a) : c[i] = a[i]
  /\ \A i \in 1 .. Len(b) : c[i + Len(a)] = b[i]

LEMMA Joined ==
  ASSUME NEW a \in Seq(Byte), NEW b \in Seq(Byte)
  PROVE  Joins(a \o b, a, b)
<1> DEFINE c == a \o b
<1>1. Len(a) \in Nat /\ Len(b) \in Nat
  OBVIOUS
<1>2. \A i \in 1 .. Len(a) + Len(b) : c[i] = IF i <= Len(a) THEN a[i] ELSE b[i - Len(a)]
  BY ConcatProperties
<1>3. c \in Seq(Byte) /\ Len(c) = Len(a) + Len(b)
  BY ConcatProperties
<1> HIDE DEF c
<1>4. ASSUME NEW i \in 1 .. Len(b) PROVE c[i + Len(a)] = b[i]
  <2>1. i + Len(a) \in 1 .. Len(a) + Len(b) /\ ~(i + Len(a) <= Len(a)) /\ i + Len(a) - Len(a) = i
    BY <1>1
  <2> QED BY <1>2, <2>1
<1>5. \A i \in 1 .. Len(a) : c[i] = a[i]
  BY <1>1, <1>2
<1>6. Joins(c, a, b)
  BY <1>3, <1>4, <1>5 DEF Joins
<1> QED BY <1>6 DEF c

\* readHeader (rule/header.go) gets back every field of every header, whatever follows.
THEOREM HeaderRoundTrip ==
  ASSUME NEW m, m.seq \in Word, m.ack \in Word, m.flag \in Word, m.win \in Word, m.num \in Byte,
         NEW rest \in Seq(Byte)
  PROVE  ReadHeader(HeaderBytes(m) \o rest) =
           [seq |-> m.seq, ack |-> m.ack, flag |-> m.flag, win |-> m.win, num |-> m.num, attrs |-> <<>>]
<1> DEFINE x == U16(m.seq)
           y == U16(m.ack)
           z == U16(m.flag)
           w == U16(m.win)
           xy == x \o y
           xyz == xy \o z
           xyzw == xyz \o w
           h == xyzw \o <<m.num>>
           s == h \o rest
<1>1. /\ x \in Seq(Byte) /\ Len(x) = 2 /\ y \in Seq(Byte) /\ Len(y) = 2
      /\ z \in Seq(Byte) /\ Len(z) = 2 /\ w \in Seq(Byte) /\ Len(w) = 2
  BY WordBytes
<1>2. /\ 256 * x[1] + x[2] = m.seq /\ 256 * y[1] + y[2] = m.ack
      /\ 256 * z[1] + z[2] = m.flag /\ 256 * w[1] + w[2] = m.win
  BY WordBytes
<1>3. <<m.num>> \in Seq(Byte) /\ Len(<<m.num>>) = 1
  OBVIOUS
<1> HIDE DEF x, y, z, w
<1>4. Joins(xy, x, y)
  BY <1>1, Joined, Zenon
<1> HIDE DEF xy
<1>5. /\ xy \in Seq(Byte) /\ Len(xy) = 4
      /\ xy[1] = x[1] /\ xy[2] = x[2] /\ xy[1 + 2] = y[1] /\ xy[2 + 2] = y[2]
  BY <1>1, <1>4 DEF Joins
<1>6. Joins(xyz, xy, z)
  BY <1>1, <1>5, Joined, Zenon
<1> HIDE DEF xyz
<1>7. /\ xyz \in Seq(Byte) /\ Len(xyz) = 6 /\ (\A i \in 1 .. 4 : xyz[i] = xy[i])
      /\ xyz[1 + 4] = z[1] /\ xyz[2 + 4] = z[2]
  BY <1>1, <1>5, <1>6 DEF Joins
<1>8. Joins(xyzw, xyz, w)
  BY <1>1, <1>7, Joined, Zenon
<1> HIDE DEF xyzw
<1>9. /\ xyzw \in Seq(Byte) /\ Len(xyzw) = 8 /\ (\A i \in 1 .. 6 : xyzw[i] = xyz[i])
      /\ xyzw[1 + 6] = w[1] /\ xyzw[2 + 6] = w[2]
  BY <1>1, <1>7, <1>8 DEF Joins
<1>10. Joins(h, xyzw, <<m.num>>)
  BY <1>3, <1>9, Joined, Zenon
<1> HIDE DEF h
<1>11. h \in Seq(Byte) /\ Len(h) = 9 /\ (\A i \in 1 .. 8 : h[i] = xyzw[i]) /\ h[1 + 8] = m.num
  BY <1>3, <1>9, <1>10 DEF Joins
<1>12. Joins(s, h, rest)
  BY <1>11, Joined, Zenon
<1> HIDE DEF s
<1>13. \A i \in 1 .. 9 : s[i] = h[i]
  BY <1>11, <1>12 DEF Joins
<1>14. /\ s[1] = x[1] /\ s[2] = x[2] /\ s[3] = y[1] /\ s[4] = y[2] /\ s[5] = z[1] /\ s[6] = z[2]
       /\ s[7] = w[1] /\ s[8] = w[2] /\ s[9] = m.num
  BY <1>5, <1>7, <1>9, <1>11, <1>13
<1>15. Int16(s, 1) = m.seq /\ Int16(s, 3) = m.ack /\ Int16(s, 5) = m.flag /\ Int16(s, 7) = m.win
  BY <1>2, <1>14 DEF Int16
<1>16. HeaderBytes(m) \o rest = s
  BY DEF HeaderBytes, s, h, xyzw, xyz, xy, x, y, z, w
<1> QED BY <1>14, <1>15, <1>16 DEF ReadHeader

\* What newAttr makes of a type and its bytes.
Attr(t, v) == [t |-> t, l |-> Len(v), v |-> v]

\* The reader of an attribute (rule/attr.go) gets back every attribute that is short
\* enough for its 16-bit length, and stops where the attribute ends.
THEOREM AttributeRoundTrip ==
  ASSUME NEW t \in Byte, NEW v \in Seq(Byte), Len(v) + 3 \in Word, NEW rest \in Seq(Byte)
  PROVE  /\ AttrWhole(AttrBytes(Attr(t, v)) \o rest)
         /\ ReadAttr(AttrBytes(Attr(t, v)) \o rest) = Attr(t, v)
         /\ AfterAttr(AttrBytes(Attr(t, v)) \o rest) = rest
<1> DEFINE n == Len(v) + 3
           u == U16(n)
           h == <<t>> \o u
           a == h \o v
           s == a \o rest
<1>1. n \in Word /\ Len(v) \in Nat /\ Len(rest) \in Nat
  OBVIOUS
<1>2. n \in Nat /\ n <= 65535
  <2> HIDE DEF n
  <2> QED BY <1>1, WordRange
<1>3. u \in Seq(Byte) /\ Len(u) = 2 /\ 256 * u[1] + u[2] = n
  <2> HIDE DEF n
  <2> QED BY <1>1, WordBytes
<1>4. <<t>> \in Seq(Byte) /\ Len(<<t>>) = 1
  OBVIOUS
<1>5. AttrBytes(Attr(t, v)) \o rest = s
  <2>1. n % 65536 = n
    BY <1>1, <1>2
  <2> QED BY <2>1 DEF AttrBytes, Attr, Uint16
<1> HIDE DEF u
<1>6. Joins(h, <<t>>, u)
  BY <1>3, <1>4, Joined, Zenon
<1> HIDE DEF h
<1>7. h \in Seq(Byte) /\ Len(h) = 3 /\ h[1] = t /\ h[1 + 1] = u[1] /\ h[2 + 1] = u[2]
  BY <1>3, <1>4, <1>6 DEF Joins
<1>8. Joins(a, h, v)
  BY <1>7, Joined, Zenon
<1> HIDE DEF a
<1>9. a \in Seq(Byte) /\ Len(a) = n /\ (\A i \in 1 .. 3 : a[i] = h[i])
      /\ \A i \in 1 .. Len(v) : a[i + 3] = v[i]
  BY <1>1, <1>2, <1>7, <1>8 DEF Joins
<1> HIDE DEF n
<1>10. Joins(s, a, rest)
  BY <1>9, Joined, Zenon
<1> HIDE DEF s
<1>11. s \in Seq(Byte) /\ Len(s) = n + Len(rest)
      /\ (\A i \in 1 .. n : s[i] = a[i]) /\ \A i \in 1 .. Len(rest) : s[i + n] = rest[i]
  BY <1>1, <1>2, <1>9, <1>10 DEF Joins
<1>12. s[1] = t /\ s[2] = u[1] /\ s[3] = u[2]
  BY <1>1, <1>2, <1>7, <1>9, <1>11 DEF n
<1>13. Int16(s, 2) = n /\ AttrLen(s) = Len(v)
  <2>1. (n + 65536 - 3) % 65536 = Len(v)
    BY <1>1, <1>2 DEF n
  <2>2. Int16(s, 2) = n
    BY <1>3, <1>12 DEF Int16
  <2> QED BY <2>1, <2>2 DEF AttrLen, Uint16
<1>14. SubSeq(s, 4, 3 + Len(v)) = v
  <2>1. \A i \in 1 .. Len(v) : s[i + 3] = v[i]
    BY <1>1, <1>2, <1>9, <1>11 DEF n
  <2>2. \A i \in 4 .. 3 + Len(v) : s[i] \in Byte
    BY <1>1, <1>2, <1>11 DEF n
  <2>3. /\ SubSeq(s, 4, 3 + Len(v)) \in Seq(Byte) /\ Len(SubSeq(s, 4, 3 + Len(v))) = Len(v)
        /\ \A i \in 1 .. Len(v) : SubSeq(s, 4, 3 + Len(v))[i] = s[i + 3]
    BY <1>1, <1>2, <2>2, SubSeqProperties
  <2> QED BY <2>1, <2>3, SeqEqual
<1>15. SubSeq(s, 4 + Len(v), Len(s)) = rest
  <2>1. \A i \in 1 .. Len(rest) : s[i + 3 + Len(v)] = rest[i]
    BY <1>1, <1>2, <1>11 DEF n
  <2>2. \A i \in 4 + Len(v) .. Len(s) : s[i] \in Byte
    BY <1>1, <1>2, <1>11 DEF n
  <2>3. /\ SubSeq(s, 4 + Len(v), Len(s)) \in Seq(Byte) /\ Len(SubSeq(s, 4 + Len(v), Len(s))) = Len(rest)
        /\ \A i \in 1 .. Len(rest) : SubSeq(s, 4 + Len(v), Len(s))[i] = s[i + 3 + Len(v)]
    BY <1>1, <1>2, <1>11, <2>2, SubSeqProperties DEF n
  <2> QED BY <2>1, <2>3, SeqEqual
<1>16. AttrWhole(s)
  BY <1>1, <1>2, <1>11, <1>13 DEF AttrWhole, n
<1>17. ReadAttr(s) = Attr(t, v) /\ AfterAttr(s) = rest
  BY <1>12, <1>13, <1>14, <1>15 DEF ReadAttr, AfterAttr, Attr
<1> QED BY <1>5, <1>16, <1>17, Zenon

-----------------------------------------------------------------------------
\* Induction.  < on the natural numbers as a set of pairs, which is well founded.
Less == OpToRel(<, Nat)

LEMMA LessIs == \A x, y \in Nat : <<x, y>> \in Less <=> x < y
<1> QED BY DEF Less, OpToRel

\* A set of natural numbers has a least element ..
LEMMA LeastNat ==
  ASSUME NEW T, T \subseteq Nat, T # {}
  PROVE  \E x \in T : \A y \in T : x <= y
<1>1. IsWellFoundedOn(Less, Nat)
  BY NatLessThanWellFounded DEF Less
<1>2. PICK x \in T : \A y \in T : ~(<<y, x>> \in Less)
  BY <1>1, WFMin
<1>3. \A y \in T : ~(y < x)
  BY <1>2, LessIs
<1> QED BY <1>3

\* .. so that induction holds for the members of a set.
LEMMA SetInduction ==
  ASSUME NEW S, 0 \in S, \A n \in Nat : n \in S => n + 1 \in S
  PROVE  \A n \in Nat : n \in S
<1> SUFFICES ASSUME Nat \ S # {} PROVE FALSE
  OBVIOUS
<1>1. PICK x \in Nat \ S : \A y \in Nat \ S : x <= y
  BY LeastNat
<1>2. x - 1 \in Nat /\ x - 1 \in S
  BY <1>1
<1> QED BY <1>1, <1>2

-----------------------------------------------------------------------------
\* The functions that Marshall and UnMarshall are written with.
IsFlatten(f, seqs, n) == f = [i \in 1 .. n |-> IF i = 1 THEN seqs[i] ELSE f[i - 1] \o seqs[i]]
IsRest(f, base, n) == f = [i \in 0 .. n |-> IF i = 0 THEN base ELSE AfterAttr(f[i - 1])]

LEMMA FlattenExists == ASSUME NEW seqs, NEW n \in Nat PROVE \E f : IsFlatten(f, seqs, n)
<1> DEFINE S == {k \in Nat : \E f : IsFlatten(f, seqs, k)}
<1>1. 0 \in S
  <2>1. IsFlatten(<<>>, seqs, 0)
    BY DEF IsFlatten
  <2> QED BY <2>1
<1>2. ASSUME NEW k \in Nat, k \in S PROVE k + 1 \in S
  <2>1. PICK f : IsFlatten(f, seqs, k)
    BY <1>2
  <2> DEFINE g == [i \in 1 .. k + 1 |-> IF i = 1 THEN seqs[i] ELSE f[i - 1] \o seqs[i]]
  <2>2. \A i \in 1 .. k : g[i] = f[i]
    <3>1. \A i \in 1 .. k : f[i] = IF i = 1 THEN seqs[i] ELSE f[i - 1] \o seqs[i]
      BY <2>1, Zenon DEF IsFlatten
    <3>2. \A i \in 1 .. k : i \in 1 .. k + 1
      OBVIOUS
    <3> QED BY <3>1, <3>2
  <2>3. \A i \in 1 .. k + 1 : i # 1 => i - 1 \in 1 .. k
    OBVIOUS
  <2>4. \A i \in 1 .. k + 1 : i # 1 => g[i - 1] = f[i - 1]
    BY <2>2, <2>3
  <2>5. g = [i \in 1 .. k + 1 |-> IF i = 1 THEN seqs[i] ELSE g[i - 1] \o seqs[i]]
    BY <2>4
  <2>6. IsFlatten(g, seqs, k + 1)
    BY <2>5 DEF IsFlatten
  <2> HIDE DEF g
  <2> QED BY <2>6
<1> HIDE DEF S
<1>3. n \in S
  BY <1>1, <1>2, SetInduction
<1> QED BY <1>3 DEF S

LEMMA RestExists == ASSUME NEW base, NEW n \in Nat PROVE \E f : IsRest(f, base, n)
<1> DEFINE S == {k \in Nat : \E f : IsRest(f, base, k)}
<1>1. 0 \in S
  <2> DEFINE f == [i \in 0 .. 0 |-> base]
  <2>1. IsRest(f, base, 0)
    BY DEF IsRest
  <2> QED BY <2>1
<1>2. ASSUME NEW k \in Nat, k \in S PROVE k + 1 \in S
  <2>1. PICK f : IsRest(f, base, k)
    BY <1>2
  <2> DEFINE g == [i \in 0 .. k + 1 |-> IF i = 0 THEN base ELSE AfterAttr(f[i - 1])]
  <2>2. \A i \in 0 .. k : g[i] = f[i]
    BY <2>1 DEF IsRest
  <2>3. \A i \in 0 .. k + 1 : i # 0 => g[i - 1] = f[i - 1]
    BY <2>2
  <2>4. g = [i \in 0 .. k + 1 |-> IF i = 0 THEN base ELSE AfterAttr(g[i - 1])]
    BY <2>3
  <2>5. IsRest(g, base, k + 1)
    BY <2>4 DEF IsRest
  <2> HIDE DEF g
  <2> QED BY <2>5
<1> HIDE DEF S
<1>3. n \in S
  BY <1>1, <1>2, SetInduction
<1> QED BY <1>3 DEF S

LEMMA FlattenIs ==
  ASSUME NEW seqs, Len(seqs) \in Nat, Len(seqs) # 0
  PROVE  \E f : IsFlatten(f, seqs, Len(seqs)) /\ FlattenSeq(seqs) = f[Len(seqs)]
<1> DEFINE n == Len(seqs)
           f == CHOOSE f : IsFlatten(f, seqs, n)
<1>1. IsFlatten(f, seqs, n)
  BY FlattenExists
<1>2. FlattenSeq(seqs) = f[n]
  BY DEF FlattenSeq, IsFlatten
<1> QED BY <1>1, <1>2

\* What UnMarshall makes of s, when rest is its function.
Parsed(s, rest, n) ==
  IF Len(s) < 9 \/ \E i \in 1 .. n : ~AttrWhole(rest[i - 1]) THEN Err
  ELSE [ReadHeader(s) EXCEPT !.attrs = [i \in 1 .. n |-> ReadAttr(rest[i - 1])]]

LEMMA UnMarshallIs ==
  ASSUME NEW s, NEW n \in Nat, s[9] = n, NEW body, SubSeq(s, 10, Len(s)) = body
  PROVE  \E rest : IsRest(rest, body, n) /\ UnMarshall(s) = Parsed(s, rest, n)
<1> DEFINE f == CHOOSE f : IsRest(f, SubSeq(s, 10, Len(s)), s[9])
<1>1. IsRest(f, SubSeq(s, 10, Len(s)), s[9])
  BY RestExists
<1>2. UnMarshall(s) = Parsed(s, f, s[9])
  BY DEF UnMarshall, IsRest, Parsed
<1> QED BY <1>1, <1>2

-----------------------------------------------------------------------------
\* What SequenceTheorems says of \o, of bytes.
LEMMA ByteConcat ==
  ASSUME NEW x \in Seq(Byte), NEW y \in Seq(Byte)
  PROVE  x \o y \in Seq(Byte) /\ Len(x \o y) = Len(x) + Len(y)
<1> QED BY ConcatProperties

LEMMA ByteAssociative ==
  ASSUME NEW x \in Seq(Byte), NEW y \in Seq(Byte), NEW z \in Seq(Byte)
  PROVE  (x \o y) \o z = x \o (y \o z)
<1> QED BY ConcatAssociative

LEMMA ByteEmpty == ASSUME NEW x \in Seq(Byte) PROVE x \o <<>> = x /\ <<>> \o x = x
<1> QED BY ConcatEmptySeq

LEMMA ByteCancel ==
  ASSUME NEW x \in Seq(Byte), NEW y \in Seq(Byte), NEW z \in Seq(Byte), x \o y = x \o z
  PROVE  y = z
<1> QED BY ConcatSimplifications

\* p[i] holds the bytes of the first i attributes.
IsPrefixes(p, b, n) ==
  /\ p[0] = <<>> /\ \A i \in 0 .. n : p[i] \in Seq(Byte)
  /\ \A i \in 1 .. n : p[i] = p[i - 1] \o b[i]

LEMMA Flattened ==
  ASSUME NEW b \in Seq(Seq(Byte))
  PROVE  \E p : IsPrefixes(p, b, Len(b)) /\ p[Len(b)] = FlattenSeq(b)
<1> DEFINE n == Len(b)
<1>1. n \in Nat /\ \A i \in 1 .. n : b[i] \in Seq(Byte)
  OBVIOUS
<1>2. CASE n = 0
  <2>1. b = <<>>
    BY <1>2
  <2>2. FlattenSeq(b) = <<>>
    BY <1>2, <2>1 DEF FlattenSeq
  <2> DEFINE p == [i \in {0} |-> <<>>]
  <2>3. p[0] = <<>>
    OBVIOUS
  <2> HIDE DEF p
  <2>4. (\A i \in 0 .. 0 : i = 0) /\ (\A i \in 1 .. 0 : FALSE) /\ <<>> \in Seq(Byte)
    OBVIOUS
  <2>5. IsPrefixes(p, b, 0)
    BY <2>3, <2>4 DEF IsPrefixes
  <2> QED BY <1>2, <2>2, <2>3, <2>5
<1>3. CASE n # 0
  <2>1. PICK f : IsFlatten(f, b, n) /\ FlattenSeq(b) = f[n]
    BY <1>1, <1>3, FlattenIs
  <2> DEFINE p == [i \in 0 .. n |-> IF i = 0 THEN <<>> ELSE f[i]]
  <2>2. \A i \in 1 .. n : f[i] = IF i = 1 THEN b[i] ELSE f[i - 1] \o b[i]
    BY <2>1, Zenon DEF IsFlatten
  <2>3. p[0] = <<>> /\ \A i \in 1 .. n : p[i] = f[i]
    BY <1>1
  <2>4. \A i \in 1 .. n : i # 1 => p[i - 1] = f[i - 1]
    BY <1>1, <2>3
  <2>5. \A i \in 1 .. n : p[i] = p[i - 1] \o b[i]
    <3> TAKE i \in 1 .. n
    <3>1. CASE i = 1
      <4>1. i - 1 = 0 /\ p[i] = b[i]
        BY <2>2, <2>3, <3>1
      <4>2. <<>> \o b[i] = b[i]
        BY <1>1, ByteEmpty
      <4> QED BY <2>3, <4>1, <4>2
    <3>2. CASE i # 1
      BY <2>2, <2>3, <2>4, <3>2
    <3> QED BY <3>1, <3>2
  <2> HIDE DEF p, n
  <2> DEFINE S == {k \in Nat : k <= n => p[k] \in Seq(Byte)}
  <2>6. 0 \in S
    <3>1. p[0] \in Seq(Byte)
      BY <2>3
    <3> QED BY <3>1
  <2>7. ASSUME NEW k \in Nat, k \in S PROVE k + 1 \in S
    <3> SUFFICES ASSUME k + 1 <= n PROVE p[k + 1] \in Seq(Byte)
      OBVIOUS
    <3> DEFINE j == k + 1
    <3>1. p[k] \in Seq(Byte) /\ j \in 1 .. n /\ j - 1 = k
      BY <1>1, <2>7
    <3> HIDE DEF j
    <3>2. p[j] = p[j - 1] \o b[j]
      BY <2>5, <3>1
    <3>3. p[j] = p[k] \o b[j] /\ b[j] \in Seq(Byte)
      BY <1>1, <3>1, <3>2
    <3>4. p[j] \in Seq(Byte)
      BY <3>1, <3>3, ByteConcat
    <3> QED BY <3>4 DEF j
  <2> HIDE DEF S
  <2>8. \A k \in Nat : k \in S
    BY <2>6, <2>7, SetInduction
  <2>9. \A i \in 0 .. n : p[i] \in Seq(Byte)
    BY <1>1, <2>8 DEF S
  <2>10. IsPrefixes(p, b, n)
    BY <2>3, <2>5, <2>9 DEF IsPrefixes
  <2>11. p[n] = f[n]
    BY <1>1, <1>3, <2>3
  <2>12. p[n] = FlattenSeq(b)
    BY <2>1, <2>11
  <2> QED BY <2>10, <2>12 DEF n
<1> QED BY <1>2, <1>3

LEMMA Remainder ==
  ASSUME NEW p, NEW n \in Nat, NEW b, \A i \in 1 .. n : b[i] \in Seq(Byte), IsPrefixes(p, b, n)
  PROVE  \A i \in 0 .. n : \E t \in Seq(Byte) : p[n] = p[i] \o t
<1> DEFINE S == {k \in Nat : k <= n => \E t \in Seq(Byte) : p[n] = p[n - k] \o t}
<1>1. 0 \in S
  <2>1. p[n] = p[n] \o <<>> /\ <<>> \in Seq(Byte) /\ n - 0 = n
    BY ByteEmpty DEF IsPrefixes
  <2> QED BY <2>1
<1>2. ASSUME NEW k \in Nat, k \in S PROVE k + 1 \in S
  <2> SUFFICES ASSUME k + 1 <= n PROVE \E t \in Seq(Byte) : p[n] = p[n - (k + 1)] \o t
    OBVIOUS
  <2> DEFINE j == n - k
  <2>1. j \in 1 .. n /\ n - (k + 1) = j - 1 /\ j - 1 \in 0 .. n
    OBVIOUS
  <2>2. PICK t \in Seq(Byte) : p[n] = p[j] \o t
    BY <1>2
  <2> HIDE DEF j
  <2>3. p[j] = p[j - 1] \o b[j] /\ p[j - 1] \in Seq(Byte) /\ b[j] \in Seq(Byte)
    BY <2>1 DEF IsPrefixes
  <2>4. p[n] = p[j - 1] \o (b[j] \o t)
    <3>1. p[n] = (p[j - 1] \o b[j]) \o t
      BY <2>2, <2>3, Zenon
    <3> QED BY <2>3, <3>1, ByteAssociative, Zenon
  <2>5. b[j] \o t \in Seq(Byte)
    BY <2>3, ByteConcat
  <2> QED BY <2>1, <2>4, <2>5
<1> HIDE DEF S
<1>3. \A k \in Nat : k \in S
  BY <1>1, <1>2, SetInduction
<1> SUFFICES ASSUME NEW i \in 0 .. n PROVE \E t \in Seq(Byte) : p[n] = p[i] \o t
  OBVIOUS
<1>4. n - i \in Nat /\ n - i <= n /\ n - (n - i) = i
  OBVIOUS
<1> QED BY <1>3, <1>4 DEF S

\* What Marshall is given: any number of attributes, as long as they can be counted in a
\* byte, each short enough for its 16-bit length.
Attributes == {Attr(t, v) : t \in Byte, v \in {w \in Seq(Byte) : Len(w) + 3 \in Word}}
Messages ==
  {m \in [seq : Word, ack : Word, flag : Word, win : Word, num : Byte, attrs : Seq(Attributes)] :
     Len(m.attrs) = m.num}

LEMMA AttrBytesAre ==
  ASSUME NEW a \in Attributes
  PROVE  AttrBytes(a) \in Seq(Byte) /\ Len(AttrBytes(a)) = 3 + Len(a.v) /\ Len(a.v) \in Nat
<1>1. PICK t \in Byte, v \in Seq(Byte) : a = Attr(t, v) /\ Len(v) + 3 \in Word
  BY DEF Attributes
<1>2. Len(v) + 3 <= 65535 /\ Len(v) \in Nat
  BY <1>1, WordRange
<1>3. AttrBytes(a) = (<<t>> \o U16(Len(v) + 3)) \o v /\ a.v = v
  <2>1. (Len(v) + 3) % 65536 = Len(v) + 3
    BY <1>2
  <2> QED BY <1>1, <2>1 DEF AttrBytes, Attr, Uint16
<1>4. <<t>> \in Seq(Byte) /\ Len(<<t>>) = 1
  OBVIOUS
<1>5. U16(Len(v) + 3) \in Seq(Byte) /\ Len(U16(Len(v) + 3)) = 2
  BY <1>1, WordBytes
<1>6. <<t>> \o U16(Len(v) + 3) \in Seq(Byte) /\ Len(<<t>> \o U16(Len(v) + 3)) = 1 + 2
  BY <1>4, <1>5, ByteConcat, Zenon
<1> QED BY <1>2, <1>3, <1>6, ByteConcat

LEMMA HeaderBytesAre ==
  ASSUME NEW m, m.seq \in Word, m.ack \in Word, m.flag \in Word, m.win \in Word, m.num \in Byte
  PROVE  HeaderBytes(m) \in Seq(Byte) /\ Len(HeaderBytes(m)) = 9 /\ HeaderBytes(m)[9] = m.num
<1> DEFINE k == U16(m.seq)
           l == U16(m.ack)
           u == U16(m.flag)
           v == U16(m.win)
<1>1. /\ k \in Seq(Byte) /\ Len(k) = 2 /\ l \in Seq(Byte) /\ Len(l) = 2
      /\ u \in Seq(Byte) /\ Len(u) = 2 /\ v \in Seq(Byte) /\ Len(v) = 2
  BY WordBytes
<1> HIDE DEF k, l, u, v
<1>2. k \o l \in Seq(Byte) /\ Len(k \o l) = 2 + 2
  <2>1. k \o l \in Seq(Byte) /\ Len(k \o l) = Len(k) + Len(l)
    BY <1>1, ByteConcat
  <2> QED BY <1>1, <2>1
<1>3. (k \o l) \o u \in Seq(Byte) /\ Len((k \o l) \o u) = 2 + 2 + 2
  BY <1>1, <1>2, ByteConcat, Zenon
<1>4. ((k \o l) \o u) \o v \in Seq(Byte) /\ Len(((k \o l) \o u) \o v) = 2 + 2 + 2 + 2
  BY <1>1, <1>3, ByteConcat, Zenon
<1> DEFINE a == ((k \o l) \o u) \o v
<1>5. HeaderBytes(m) = a \o <<m.num>>
  BY DEF HeaderBytes, k, l, u, v
<1> HIDE DEF a
<1>6. a \in Seq(Byte) /\ Len(a) = 8
  BY <1>4 DEF a
<1>7. Joins(a \o <<m.num>>, a, <<m.num>>)
  BY <1>6, Joined, <<m.num>> \in Seq(Byte), Zenon
<1> QED BY <1>5, <1>6, <1>7 DEF Joins

-----------------------------------------------------------------------------
LEMMA AttributeRead ==
  ASSUME NEW a \in Attributes, NEW t \in Seq(Byte)
  PROVE  /\ AttrWhole(AttrBytes(a) \o t) /\ ReadAttr(AttrBytes(a) \o t) = a
         /\ AfterAttr(AttrBytes(a) \o t) = t
<1>1. PICK h \in Byte, v \in Seq(Byte) : a = Attr(h, v) /\ Len(v) + 3 \in Word
  BY DEF Attributes
<1> QED BY <1>1, AttributeRoundTrip

\* b[i] holds the bytes of the attribute i.
IsBytesOf(b, attrs, n) ==
  \A i \in 1 .. n : attrs[i] \in Attributes /\ b[i] = AttrBytes(attrs[i]) /\ b[i] \in Seq(Byte)

LEMMA AsFunction ==
  ASSUME NEW S, NEW q \in Seq(S), NEW n \in Nat, DOMAIN q = 1 .. n
  PROVE  q = [i \in 1 .. n |-> q[i]]
<1> QED OBVIOUS

\* The bytes of a message: its header, then those of its attributes.
LEMMA Marshalled ==
  ASSUME NEW m \in Messages
  PROVE  \E b, p :
           /\ IsBytesOf(b, m.attrs, m.num)
           /\ IsPrefixes(p, b, m.num)
           /\ p[m.num] \in Seq(Byte)
           /\ Marshall(m) = HeaderBytes(m) \o p[m.num]
<1> DEFINE n == m.num
           b == [i \in DOMAIN m.attrs |-> AttrBytes(m.attrs[i])]
<1>1. n \in Nat /\ m.attrs \in Seq(Attributes) /\ DOMAIN m.attrs = 1 .. n
  BY DEF Messages, Byte
<1>2. \A i \in 1 .. n : m.attrs[i] \in Attributes /\ b[i] = AttrBytes(m.attrs[i])
  BY <1>1
<1>3. b \in [1 .. n -> Seq(Byte)]
  BY <1>1, <1>2, AttrBytesAre
<1>4. Marshall(m) = HeaderBytes(m) \o FlattenSeq(b)
  BY DEF Marshall
<1> HIDE DEF b, n
<1>5. b \in Seq(Seq(Byte)) /\ Len(b) = n
  BY <1>1, <1>3
<1>6. PICK p : IsPrefixes(p, b, n) /\ p[n] = FlattenSeq(b)
  BY <1>5, Flattened
<1>7. p[n] \in Seq(Byte)
  BY <1>1, <1>6 DEF IsPrefixes
<1>8. IsBytesOf(b, m.attrs, n)
  BY <1>2, <1>3 DEF IsBytesOf
<1> QED BY <1>4, <1>6, <1>7, <1>8 DEF n

Bare(m) ==
  [seq |-> m.seq, ack |-> m.ack, flag |-> m.flag, win |-> m.win, num |-> m.num, attrs |-> <<>>]

LEMMA AfterHeader ==
  ASSUME NEW m \in Messages, NEW t \in Seq(Byte), NEW s, s = HeaderBytes(m) \o t
  PROVE  /\ s \in Seq(Byte) /\ Len(s) = 9 + Len(t) /\ s[9] = m.num /\ SubSeq(s, 10, Len(s)) = t
         /\ ReadHeader(s) = Bare(m)
<1>1. /\ m.seq \in Word /\ m.ack \in Word /\ m.flag \in Word /\ m.win \in Word /\ m.num \in Byte
      /\ m = [seq |-> m.seq, ack |-> m.ack, flag |-> m.flag, win |-> m.win, num |-> m.num,
              attrs |-> m.attrs]
  BY DEF Messages
<1> DEFINE h == HeaderBytes(m)
<1>2. h \in Seq(Byte) /\ Len(h) = 9 /\ h[9] = m.num
  BY <1>1, HeaderBytesAre
<1>3. ReadHeader(s) = Bare(m)
  <2>1. ReadHeader(s) = [seq |-> m.seq, ack |-> m.ack, flag |-> m.flag, win |-> m.win,
                         num |-> m.num, attrs |-> <<>>]
    BY <1>1, HeaderRoundTrip
  <2> QED BY <1>1, <2>1 DEF Bare
<1> HIDE DEF h
<1>4. Joins(s, h, t)
  BY <1>2, Joined DEF h
<1>5. /\ s \in Seq(Byte) /\ Len(s) = 9 + Len(t) /\ s[9] = m.num
      /\ \A i \in 1 .. Len(t) : s[i + 9] = t[i]
  BY <1>2, <1>4 DEF Joins
<1>6. SubSeq(s, 10, Len(s)) = t
  <2>1. \A i \in 10 .. Len(s) : s[i] \in Byte
    BY <1>5
  <2>2. /\ SubSeq(s, 10, Len(s)) \in Seq(Byte) /\ Len(SubSeq(s, 10, Len(s))) = Len(t)
        /\ \A i \in 1 .. Len(t) : SubSeq(s, 10, Len(s))[i] = s[i + 9]
    BY <1>5, <2>1, SubSeqProperties
  <2> QED BY <1>5, <2>2, SeqEqual
<1> QED BY <1>3, <1>5, <1>6

\* rest[i - 1] starts with the attribute i, and rest[i] is what follows it.
Stands(rest, b, n) == \A i \in 1 .. n : \E t \in Seq(Byte) : rest[i - 1] = b[i] \o t /\ rest[i] = t

\* rest[i] is what p[n] has after p[i].
LeftIs(rest, p, n) == \A i \in 0 .. n : rest[i] \in Seq(Byte) /\ p[n] = p[i] \o rest[i]

\* UnMarshall, on the bytes of any message, stands before an attribute with each step.
LEMMA LeftToRead ==
  ASSUME NEW n \in Nat, NEW b, NEW p, NEW rest, NEW attrs,
         IsBytesOf(b, attrs, n),
         IsPrefixes(p, b, n), p[n] \in Seq(Byte), IsRest(rest, p[n], n)
  PROVE  /\ Stands(rest, b, n)
         /\ LeftIs(rest, p, n)
<1> DEFINE T(k) == rest[k] \in Seq(Byte) /\ p[n] = p[k] \o rest[k]
           S == {k \in Nat : k <= n => T(k)}
<1>1. 0 \in S
  <2>1. rest[0] = p[n] /\ p[0] = <<>>
    BY DEF IsRest, IsPrefixes
  <2>2. p[n] = p[0] \o rest[0]
    BY <2>1, ByteEmpty
  <2> QED BY <2>1, <2>2
<1>2. ASSUME NEW j \in 1 .. n, T(j - 1)
      PROVE  \E t \in Seq(Byte) : rest[j - 1] = b[j] \o t /\ rest[j] = t /\ T(j)
  <2>0. j - 1 \in 0 .. n /\ j \in 0 .. n /\ j # 0
    OBVIOUS
  <2>1. PICK t \in Seq(Byte) : p[n] = p[j] \o t
    BY <2>0, Remainder DEF IsBytesOf
  <2>2. /\ p[j] = p[j - 1] \o b[j] /\ p[j - 1] \in Seq(Byte) /\ p[j] \in Seq(Byte)
        /\ b[j] \in Seq(Byte) /\ attrs[j] \in Attributes /\ b[j] = AttrBytes(attrs[j])
    BY <2>0 DEF IsPrefixes, IsBytesOf
  <2>3. p[n] = p[j - 1] \o (b[j] \o t)
    <3>1. p[n] = (p[j - 1] \o b[j]) \o t
      BY <2>1, <2>2
    <3> QED BY <2>2, <3>1, ByteAssociative
  <2>4. b[j] \o t \in Seq(Byte)
    BY <2>2, ByteConcat
  <2>5. p[n] = p[j - 1] \o rest[j - 1] /\ rest[j - 1] \in Seq(Byte)
    BY <1>2
  <2>6. rest[j - 1] = b[j] \o t
    BY <2>2, <2>3, <2>4, <2>5, ByteCancel, Zenon
  <2>7. rest[j] = AfterAttr(rest[j - 1])
    BY <2>0, Zenon DEF IsRest
  <2>8. rest[j] = t
    BY <2>2, <2>6, <2>7, AttributeRead
  <2> QED BY <2>1, <2>6, <2>8
<1> HIDE DEF T
<1>3. ASSUME NEW k \in Nat, k \in S PROVE k + 1 \in S
  <2> DEFINE j == k + 1
  <2> SUFFICES ASSUME j <= n PROVE T(j)
    OBVIOUS
  <2>1. j \in 1 .. n /\ j - 1 = k /\ T(k)
    BY <1>3
  <2> HIDE DEF j
  <2>2. T(j - 1)
    BY <2>1
  <2> QED BY <1>2, <2>1, <2>2
<1> HIDE DEF S
<1>4. \A k \in Nat : k \in S
  BY <1>1, <1>3, SetInduction
<1>5. \A k \in 0 .. n : T(k)
  BY <1>4 DEF S
<1>6. Stands(rest, b, n)
  <2> SUFFICES ASSUME NEW j \in 1 .. n
               PROVE  \E t \in Seq(Byte) : rest[j - 1] = b[j] \o t /\ rest[j] = t
    BY DEF Stands
  <2>1. j - 1 \in 0 .. n
    OBVIOUS
  <2>2. T(j - 1)
    BY <1>5, <2>1
  <2> QED BY <1>2, <2>2
<1> QED BY <1>5, <1>6 DEF T, LeftIs

\* .. and at the end after the last one.
LEMMA NothingLeft ==
  ASSUME NEW n \in Nat, NEW b, NEW p, NEW rest, NEW attrs, IsBytesOf(b, attrs, n),
         IsPrefixes(p, b, n), p[n] \in Seq(Byte), IsRest(rest, p[n], n)
  PROVE  rest[n] = <<>>
<1>1. rest[n] \in Seq(Byte) /\ p[n] = p[n] \o rest[n]
  <2>1. LeftIs(rest, p, n)
    BY LeftToRead, Zenon
  <2>2. n \in 0 .. n
    OBVIOUS
  <2> QED BY <2>1, <2>2 DEF LeftIs
<1>2. p[n] \o <<>> = p[n] /\ <<>> \in Seq(Byte)
  BY ByteEmpty
<1> QED BY <1>1, <1>2, ByteCancel

\* UnMarshall gets back every message that Marshall can write, whatever attributes it has.
THEOREM MessageRoundTrip == \A m \in Messages : UnMarshall(Marshall(m)) = m
<1> SUFFICES ASSUME NEW m \in Messages PROVE UnMarshall(Marshall(m)) = m
  OBVIOUS
<1> DEFINE n == m.num
           s == Marshall(m)
<1>1. PICK b, p :
        /\ IsBytesOf(b, m.attrs, n)
        /\ IsPrefixes(p, b, n) /\ p[n] \in Seq(Byte) /\ s = HeaderBytes(m) \o p[n]
  BY Marshalled
<1>2. n \in Nat /\ m = [Bare(m) EXCEPT !.attrs = [i \in 1 .. n |-> m.attrs[i]]]
  <2>1. n \in Nat /\ m.attrs \in Seq(Attributes) /\ DOMAIN m.attrs = 1 .. n
    BY DEF Messages, Byte
  <2>2. m.attrs = [i \in 1 .. n |-> m.attrs[i]]
    BY <2>1, AsFunction
  <2>3. m = [Bare(m) EXCEPT !.attrs = m.attrs]
    BY DEF Messages, Bare
  <2> QED BY <2>1, <2>2, <2>3
<1> DEFINE body == p[n]
<1> HIDE DEF s, body
<1>3. body \in Seq(Byte) /\ s = HeaderBytes(m) \o body
  BY <1>1 DEF body
<1>4. /\ s \in Seq(Byte) /\ Len(s) = 9 + Len(body) /\ s[9] = n /\ SubSeq(s, 10, Len(s)) = body
      /\ ReadHeader(s) = Bare(m)
  BY <1>3, AfterHeader
<1> HIDE DEF n
<1>5. PICK rest : IsRest(rest, body, n) /\ UnMarshall(s) = Parsed(s, rest, n)
  BY <1>2, <1>4, UnMarshallIs
<1>6. Stands(rest, b, n)
  <2>1. IsPrefixes(p, b, n) /\ p[n] \in Seq(Byte) /\ IsRest(rest, p[n], n)
    BY <1>1, <1>5 DEF body
  <2>2. n \in Nat /\ IsBytesOf(b, m.attrs, n)
    BY <1>1, <1>2
  <2> QED BY <2>1, <2>2, LeftToRead, Zenon
<1>7. \A i \in 1 .. n : AttrWhole(rest[i - 1]) /\ ReadAttr(rest[i - 1]) = m.attrs[i]
  <2> TAKE i \in 1 .. n
  <2>1. PICK t \in Seq(Byte) : rest[i - 1] = AttrBytes(m.attrs[i]) \o t /\ m.attrs[i] \in Attributes
    BY <1>1, <1>6 DEF IsBytesOf, Stands
  <2> QED BY <2>1, AttributeRead
<1>8. ~(Len(s) < 9)
  BY <1>3, <1>4
<1>9. [i \in 1 .. n |-> ReadAttr(rest[i - 1])] = [i \in 1 .. n |-> m.attrs[i]]
  BY <1>7
<1>10. UnMarshall(s) = [Bare(m) EXCEPT !.attrs = [i \in 1 .. n |-> m.attrs[i]]]
  BY <1>4, <1>5, <1>7, <1>8, <1>9 DEF Parsed
<1> QED BY <1>2, <1>10 DEF s

-----------------------------------------------------------------------------
\* x is y without its last d bytes.
Cut(x, y, d) ==
  /\ x \in Seq(Byte) /\ y \in Seq(Byte) /\ Len(y) = Len(x) + d
  /\ \A j \in 1 .. Len(x) : x[j] = y[j]

\* An attribute that is whole in x is the same in y.
LEMMA CutAfter ==
  ASSUME NEW x, NEW y, NEW d \in Nat, Cut(x, y, d), AttrWhole(x)
  PROVE  Cut(AfterAttr(x), AfterAttr(y), d)
<1> DEFINE l == AttrLen(x)
           k == Len(x)
<1>1. /\ x \in Seq(Byte) /\ y \in Seq(Byte) /\ k \in Nat /\ Len(y) = k + d
      /\ \A j \in 1 .. k : x[j] = y[j]
  BY DEF Cut
<1>2. k >= 3 /\ k >= 3 + l
  BY DEF AttrWhole
<1>3. x[2] = y[2] /\ x[3] = y[3] /\ x[2] \in Nat /\ x[3] \in Nat
  <2>1. x[2] \in Byte /\ x[3] \in Byte /\ x[2] = y[2] /\ x[3] = y[3]
    BY <1>1, <1>2
  <2>2. \A b \in Byte : b \in Nat
    BY DEF Byte
  <2> QED BY <2>1, <2>2
<1>4. AttrLen(y) = l
  BY <1>3 DEF AttrLen, Int16
<1>5. l \in Nat
  BY <1>3 DEF AttrLen, Int16, Uint16
<1> HIDE DEF l, k
<1>6. AfterAttr(x) = SubSeq(x, 4 + l, k) /\ AfterAttr(y) = SubSeq(y, 4 + l, k + d)
  BY <1>1, <1>4 DEF AfterAttr, l, k
<1>7. (\A j \in 4 + l .. k : x[j] \in Byte) /\ (\A j \in 4 + l .. k + d : y[j] \in Byte)
  <2>1. Len(x) = k
    BY DEF k
  <2> QED BY <1>1, <1>5, <2>1
<1>8. /\ SubSeq(x, 4 + l, k) \in Seq(Byte) /\ Len(SubSeq(x, 4 + l, k)) = k - 3 - l
      /\ \A j \in 1 .. k - 3 - l : SubSeq(x, 4 + l, k)[j] = x[j + 3 + l]
  BY <1>1, <1>2, <1>5, <1>7, SubSeqProperties
<1>9. /\ SubSeq(y, 4 + l, k + d) \in Seq(Byte) /\ Len(SubSeq(y, 4 + l, k + d)) = k - 3 - l + d
      /\ \A j \in 1 .. k - 3 - l : SubSeq(y, 4 + l, k + d)[j] = y[j + 3 + l]
  BY <1>1, <1>2, <1>5, <1>7, SubSeqProperties
<1>10. \A j \in 1 .. k - 3 - l : x[j + 3 + l] = y[j + 3 + l]
  BY <1>1, <1>2, <1>5
<1> QED BY <1>1, <1>6, <1>8, <1>9, <1>10 DEF Cut

LEMMA CutRests ==
  ASSUME NEW n \in Nat, NEW d \in Nat, NEW x, NEW y, Cut(x, y, d), NEW f, NEW g,
         IsRest(f, x, n), IsRest(g, y, n), \A i \in 1 .. n : AttrWhole(f[i - 1])
  PROVE  Cut(f[n], g[n], d)
<1> DEFINE T(k) == Cut(f[k], g[k], d)
           S == {k \in Nat : k <= n => T(k)}
<1>1. 0 \in S
  <2>1. f[0] = x /\ g[0] = y
    BY DEF IsRest
  <2> QED BY <2>1
<1>2. ASSUME NEW j \in 1 .. n, T(j - 1) PROVE T(j)
  <2>1. j \in 0 .. n /\ j # 0
    OBVIOUS
  <2>2. f[j] = AfterAttr(f[j - 1]) /\ g[j] = AfterAttr(g[j - 1])
    BY <2>1, Zenon DEF IsRest
  <2>3. AttrWhole(f[j - 1])
    OBVIOUS
  <2> QED BY <1>2, <2>2, <2>3, CutAfter
<1> HIDE DEF T
<1>3. ASSUME NEW k \in Nat, k \in S PROVE k + 1 \in S
  <2> DEFINE j == k + 1
  <2> SUFFICES ASSUME j <= n PROVE T(j)
    OBVIOUS
  <2>1. j \in 1 .. n /\ j - 1 = k /\ T(k)
    BY <1>3
  <2> HIDE DEF j
  <2>2. T(j - 1)
    BY <2>1
  <2> QED BY <1>2, <2>1, <2>2
<1> HIDE DEF S
<1>4. \A k \in Nat : k \in S
  BY <1>1, <1>3, SetInduction
<1>5. T(n)
  BY <1>4 DEF S
<1> QED BY <1>5 DEF T

\* A datagram that is cut anywhere is refused, whatever it carries: no reader takes the
\* beginning of a message for a message.
THEOREM CutMessageRefused ==
  \A m \in Messages : \A k \in Nat :
    k < Len(Marshall(m)) => UnMarshall(SubSeq(Marshall(m), 1, k)) = Err
<1> SUFFICES ASSUME NEW m \in Messages, NEW k \in Nat, k < Len(Marshall(m))
             PROVE  UnMarshall(SubSeq(Marshall(m), 1, k)) = Err
  OBVIOUS
<1> DEFINE n == m.num
           s == Marshall(m)
           c == SubSeq(s, 1, k)
<1>1. PICK b, p :
        /\ IsBytesOf(b, m.attrs, n)
        /\ IsPrefixes(p, b, n) /\ p[n] \in Seq(Byte) /\ s = HeaderBytes(m) \o p[n]
  BY Marshalled
<1>2. n \in Nat
  BY DEF Messages, Byte
<1> DEFINE body == p[n]
<1> HIDE DEF s, body
<1>3. body \in Seq(Byte) /\ s = HeaderBytes(m) \o body
  BY <1>1 DEF body
<1>4. s \in Seq(Byte) /\ Len(s) = 9 + Len(body) /\ s[9] = n /\ SubSeq(s, 10, Len(s)) = body
  BY <1>3, AfterHeader
<1> HIDE DEF n
<1>5. k < Len(s) /\ Len(s) \in Nat
  BY <1>4 DEF s
<1>6. /\ c \in Seq(Byte) /\ Len(c) = k /\ \A i \in 1 .. k : c[i] = s[i]
  <2>1. \A i \in 1 .. k : s[i] \in Byte
    BY <1>4, <1>5
  <2> QED BY <2>1, SubSeqProperties
<1> HIDE DEF c
<1>7. ASSUME k < 9 PROVE UnMarshall(c) = Err
  BY <1>6, <1>7 DEF UnMarshall
<1>8. ASSUME k >= 9 PROVE UnMarshall(c) = Err
  <2> DEFINE x == SubSeq(c, 10, Len(c))
             d == Len(s) - k
  <2>1. d \in Nat /\ d > 0
    BY <1>5
  <2>2. Cut(x, body, d)
    <3>1. \A i \in 10 .. k : c[i] \in Byte
      BY <1>6
    <3>2. /\ x \in Seq(Byte) /\ Len(x) = k - 9 /\ \A i \in 1 .. k - 9 : x[i] = c[i + 9]
      BY <1>6, <1>8, <3>1, SubSeqProperties
    <3>3. \A i \in 10 .. Len(s) : s[i] \in Byte
      BY <1>4
    <3>4. \A i \in 1 .. Len(s) - 9 : body[i] = s[i + 9]
      BY <1>4, <1>5, <3>3, SubSeqProperties
    <3>5. \A i \in 1 .. k - 9 : x[i] = body[i]
      BY <1>5, <1>6, <1>8, <3>2, <3>4
    <3>6. Len(body) = Len(x) + d
      BY <1>4, <1>5, <3>2
    <3> HIDE DEF x, d
    <3> QED BY <1>3, <3>2, <3>5, <3>6 DEF Cut
  <2>3. c[9] = n
    BY <1>4, <1>6, <1>8
  <2> HIDE DEF x, d
  <2>4. PICK f : IsRest(f, x, n) /\ UnMarshall(c) = Parsed(c, f, n)
    BY <1>2, <2>3, UnMarshallIs DEF x
  <2>5. PICK g : IsRest(g, body, n)
    BY <1>2, RestExists
  <2>6. \E i \in 1 .. n : ~AttrWhole(f[i - 1])
    <3> SUFFICES ASSUME \A i \in 1 .. n : AttrWhole(f[i - 1]) PROVE FALSE
      OBVIOUS
    <3>1. Cut(f[n], g[n], d)
      BY <1>2, <2>1, <2>2, <2>4, <2>5, CutRests
    <3>2. g[n] = <<>>
      BY <1>1, <1>2, <2>5, NothingLeft DEF body
    <3> QED BY <2>1, <3>1, <3>2 DEF Cut
  <2> QED BY <2>4, <2>6 DEF Parsed
<1>9. UnMarshall(c) = Err
  BY <1>7, <1>8
<1> QED BY <1>9 DEF c, s

-----------------------------------------------------------------------------
\* The object of a constructor, field by field.
Fields(s, a, f, w, n, t) == [seq |-> s, ack |-> a, flag |-> f, win |-> w, num |-> n, attrs |-> t]

LEMMA FieldsTyped ==
  ASSUME NEW s \in Word, NEW a \in Word, NEW f \in Word, NEW w \in Word, NEW n \in Byte,
         NEW t \in Seq(Attributes), Len(t) = n
  PROVE  Fields(s, a, f, w, n, t) \in Messages
BY DEF Messages, Fields

LEMMA NewMessageIs ==
  ASSUME NEW s, NEW a, NEW f, NEW w, NEW n, NEW t, NEW c
  PROVE  newMessage(Fields(s, a, f, w, n, t), c) = Fields(c.seq, c.ack, c.flag, c.win, 0, t)
<1> DEFINE m1 == [Fields(s, a, f, w, n, t) EXCEPT !.seq = c.seq]
           m2 == [m1 EXCEPT !.ack = c.ack]
           m3 == [m2 EXCEPT !.flag = c.flag]
           m4 == [m3 EXCEPT !.win = c.win]
           m5 == [m4 EXCEPT !.num = 0]
<1>1. newMessage(Fields(s, a, f, w, n, t), c) = m5
  BY DEF newMessage
<1>2. m1 = Fields(c.seq, a, f, w, n, t)
  BY DEF Fields
<1> HIDE DEF m1
<1>3. m2 = Fields(c.seq, c.ack, f, w, n, t)
  BY <1>2 DEF Fields
<1> HIDE DEF m2
<1>4. m3 = Fields(c.seq, c.ack, c.flag, w, n, t)
  BY <1>3 DEF Fields
<1> HIDE DEF m3
<1>5. m4 = Fields(c.seq, c.ack, c.flag, c.win, n, t)
  BY <1>4 DEF Fields
<1> HIDE DEF m4
<1>6. m5 = Fields(c.seq, c.ack, c.flag, c.win, 0, t)
  BY <1>5 DEF Fields
<1> QED BY <1>1, <1>6

PutPayload(m, x) == [m EXCEPT !.attrs = x, !.num = 1]

LEMMA PutPayloadIs ==
  ASSUME NEW s, NEW a, NEW f, NEW w, NEW n, NEW t, NEW x
  PROVE  PutPayload(Fields(s, a, f, w, n, t), x) = Fields(s, a, f, w, 1, x)
<1> DEFINE m1 == [Fields(s, a, f, w, n, t) EXCEPT !.attrs = x]
           m2 == [m1 EXCEPT !.num = 1]
<1>1. PutPayload(Fields(s, a, f, w, n, t), x) = m2
  BY DEF PutPayload
<1>2. m1 = Fields(s, a, f, w, n, x)
  BY DEF Fields
<1> HIDE DEF m1
<1>3. m2 = Fields(s, a, f, w, 1, x)
  BY <1>2 DEF Fields
<1> QED BY <1>1, <1>3

LEMMA WordIs == \A n \in Nat : n <= 65535 => n \in Word
<1> DEFINE a == 65535
<1>1. Word = 0 .. a /\ a \in Nat
  BY DEF Word
<1> HIDE DEF a
<1>2. \A n \in Nat : n <= a => n \in Word
  BY <1>1
<1> QED BY <1>2 DEF a

LEMMA ShortLength == \A n \in Nat : n <= 1442 => Uint16(n) = n /\ n + 3 \in Word
<1> SUFFICES ASSUME NEW n \in Nat, n <= 1442 PROVE Uint16(n) = n /\ n + 3 \in Word
  OBVIOUS
<1>1. n % 65536 = n /\ n + 3 \in Nat /\ n + 3 <= 65535
  OBVIOUS
<1>2. n + 3 \in Word
  BY <1>1, WordIs
<1> QED BY <1>1, <1>2 DEF Uint16

LEMMA ByteIs == \A n \in Nat : n <= 255 => n \in Byte
<1> QED BY DEF Byte

-----------------------------------------------------------------------------
\* What a constructor can be called with, or Nothing.of.
CallTypes ==
  {c \in [flag : Flags \cup {0}, seq : Word, ack : Word, win : Word, payload : Seq(Byte)] :
     Len(c.payload) <= mss /\ (c.flag # FlagPAYLOAD => c.payload = <<>>)}

\* Every message on its way is the one of its constructor's call, built of a new object.
MessageInv ==
  /\ obj \in [Goroutines -> Messages] /\ meant \in [Goroutines -> CallTypes]
  /\ \A g \in Goroutines : obj[g] = Build(New, meant[g])
  /\ \A i \in 1 .. Len(wire) :
       wire[i].of \in CallTypes /\ wire[i].bytes = Marshall(Build(New, wire[i].of))
  /\ got.of \in CallTypes
  /\ got.m = Build(New, got.of) \/ (got.m = Err /\ ~Drawn(got.iv))

LEMMA FlagsAre == \A f \in Flags \cup {0} : f \in Word
<1> QED BY WordIs DEF Flags, FlagSYN1, FlagSYN2, FlagFIN1, FlagFIN2, FlagACK, FlagPAYLOAD, FlagKeepAlive

\* A constructor, of a new object.
LEMMA BuildIs ==
  ASSUME NEW c \in CallTypes
  PROVE  /\ Build(New, c) \in Messages
         /\ Build(New, c).flag = c.flag /\ Build(New, c).seq = c.seq
         /\ Build(New, c).ack = c.ack /\ Build(New, c).win = c.win
         /\ c.flag = FlagPAYLOAD => /\ Build(New, c).num = 1
                                    /\ Build(New, c).attrs = <<Attr(AttrPAYLOAD, c.payload)>>
         /\ c.flag # FlagPAYLOAD => Build(New, c).num = 0 /\ Build(New, c).attrs = <<>>
<1>1. /\ c.flag \in Word /\ c.seq \in Word /\ c.ack \in Word /\ c.win \in Word
      /\ c.payload \in Seq(Byte) /\ Len(c.payload) \in Nat /\ Len(c.payload) <= 1442
  BY FlagsAre DEF CallTypes, mss
<1>2. newMessage(New, c) = Fields(c.seq, c.ack, c.flag, c.win, 0, <<>>)
  <2>1. New = Fields(0, 0, 0, 0, 0, <<>>)
    BY DEF New, Fields
  <2> QED BY <2>1, NewMessageIs
<1>3. 0 \in Byte /\ 1 \in Byte
  BY ByteIs
<1>4. CASE c.flag = FlagPAYLOAD
  <2> DEFINE a == Attr(AttrPAYLOAD, c.payload)
  <2>1. Uint16(Len(c.payload)) = Len(c.payload) /\ Len(c.payload) + 3 \in Word
    BY <1>1, ShortLength
  <2>2. a = [t |-> AttrPAYLOAD, l |-> Uint16(Len(c.payload)), v |-> c.payload]
    <3>1. Uint16(Len(c.payload)) = Len(c.payload)
      BY <2>1
    <3> QED BY <3>1 DEF Attr
  <2>3. a \in Attributes
    BY <1>1, <1>3, <2>1 DEF Attributes, AttrPAYLOAD
  <2> HIDE DEF a
  <2>4. Build(New, c) = PutPayload(newMessage(New, c), <<a>>)
    BY <1>4, <2>2 DEF Build, PutPayload
  <2>5. Build(New, c) = Fields(c.seq, c.ack, c.flag, c.win, 1, <<a>>)
    BY <1>2, <2>4, PutPayloadIs
  <2>6. <<a>> \in Seq(Attributes) /\ Len(<<a>>) = 1
    BY <2>3
  <2>7. Build(New, c) \in Messages
    <3> DEFINE q == <<a>>
    <3>1. q \in Seq(Attributes) /\ Len(q) = 1 /\ Build(New, c) = Fields(c.seq, c.ack, c.flag, c.win, 1, q)
      BY <2>5, <2>6
    <3> HIDE DEF q
    <3>2. Fields(c.seq, c.ack, c.flag, c.win, 1, q) \in Messages
      BY <1>1, <1>3, <3>1, FieldsTyped
    <3> QED BY <3>1, <3>2
  <2> QED BY <1>4, <2>5, <2>7 DEF Fields, a
<1>5. CASE c.flag # FlagPAYLOAD
  <2>1. Build(New, c) = Fields(c.seq, c.ack, c.flag, c.win, 0, <<>>)
    BY <1>2, <1>5 DEF Build
  <2>2. <<>> \in Seq(Attributes) /\ Len(<<>>) = 0
    OBVIOUS
  <2>3. Build(New, c) \in Messages
    BY <1>1, <1>3, <2>1, <2>2 DEF Messages, Fields
  <2> QED BY <1>5, <2>1, <2>3 DEF Fields
<1> QED BY <1>4, <1>5

\* .. and of the object of a FIN1, which has no attributes to keep.
LEMMA RebuildIs ==
  ASSUME NEW b, NEW c, b.flag = FlagFIN1, c.flag = FlagFIN2
  PROVE  Build(Build(New, b), c) = Build(New, c)
<1>1. b.flag # FlagPAYLOAD /\ c.flag # FlagPAYLOAD
  BY DEF FlagFIN1, FlagFIN2, FlagPAYLOAD
<1>2. New = Fields(0, 0, 0, 0, 0, <<>>)
  BY DEF New, Fields
<1>3. Build(New, b) = Fields(b.seq, b.ack, b.flag, b.win, 0, <<>>)
  BY <1>1, <1>2, NewMessageIs DEF Build
<1>4. newMessage(New, c) = newMessage(Build(New, b), c)
  BY <1>2, <1>3, NewMessageIs
<1> QED BY <1>1, <1>4 DEF Build

\* A datagram and its IV fit into the reader's buffer.
LEMMA Fits ==
  ASSUME NEW c \in CallTypes
  PROVE  /\ Marshall(Build(New, c)) \in Seq(Byte)
         /\ Len(Marshall(Build(New, c))) <= 12 + mss
<1> DEFINE m == Build(New, c)
<1>1. m \in Messages
  BY BuildIs
<1>2. PICK b, p : /\ IsBytesOf(b, m.attrs, m.num) /\ IsPrefixes(p, b, m.num)
                  /\ p[m.num] \in Seq(Byte) /\ Marshall(m) = HeaderBytes(m) \o p[m.num]
  BY <1>1, Marshalled
<1>3. /\ c.flag = FlagPAYLOAD => m.num = 1 /\ m.attrs = <<Attr(AttrPAYLOAD, c.payload)>>
      /\ c.flag # FlagPAYLOAD => m.num = 0
  BY BuildIs
<1> HIDE DEF m
<1>4. Marshall(m) \in Seq(Byte) /\ Len(Marshall(m)) = 9 + Len(p[m.num])
  BY <1>1, <1>2, AfterHeader
<1>5. Len(p[m.num]) <= 3 + mss
  <2>1. CASE c.flag = FlagPAYLOAD
    <3>1. m.num = 1 /\ m.attrs[1] = Attr(AttrPAYLOAD, c.payload)
      BY <1>3, <2>1
    <3>2. b[1] \in Seq(Byte) /\ m.attrs[1] \in Attributes /\ b[1] = AttrBytes(m.attrs[1])
      BY <1>2, <3>1 DEF IsBytesOf
    <3>3. p[1] = b[1]
      <4>1. IsPrefixes(p, b, 1)
        BY <1>2, <3>1
      <4>2. p[0] = <<>> /\ p[1] = p[1 - 1] \o b[1]
        BY <4>1, 1 \in 1 .. 1 DEF IsPrefixes
      <4>3. p[1] = p[0] \o b[1]
        <5>1. 1 - 1 = 0
          OBVIOUS
        <5> QED BY <4>2, <5>1, Zenon
      <4>4. p[1] = <<>> \o b[1]
        BY <4>2, <4>3, Zenon
      <4> QED BY <3>2, <4>4, ByteEmpty
    <3>4. Len(b[1]) = 3 + Len(c.payload)
      BY <3>1, <3>2, AttrBytesAre DEF Attr
    <3>5. Len(c.payload) <= mss /\ Len(c.payload) \in Nat
      BY DEF CallTypes
    <3> QED BY <3>1, <3>3, <3>4, <3>5 DEF mss
  <2>2. CASE c.flag # FlagPAYLOAD
    <3>1. p[m.num] = <<>>
      BY <1>2, <1>3, <2>2 DEF IsPrefixes
    <3> QED BY <3>1 DEF mss
  <2> QED BY <2>1, <2>2
<1>6. Len(Marshall(m)) <= 12 + mss
  <2>1. Len(p[m.num]) \in Nat
    BY <1>2
  <2> QED BY <1>4, <1>5, <2>1 DEF mss
<1> QED BY <1>4, <1>6 DEF m

LEMMA MinIs == ASSUME NEW x \in Nat, NEW y \in Nat, x <= y PROVE Min({x, y}) = x
<1> QED BY DEF Min

LEMMA IvShort == \A m \in Methods \cup {"none"} : ivLen(m) \in Nat /\ ivLen(m) <= 16
<1> SUFFICES ASSUME NEW m \in Methods \cup {"none"} PROVE ivLen(m) \in Nat /\ ivLen(m) <= 16
  OBVIOUS
<1>1. CASE m = "none"
  BY <1>1 DEF ivLen
<1>2. CASE m \in Methods /\ m # "none"
  <2>1. m \in {"aes128", "aes192", "aes256", "des", "bf", "cast5", "rc4md5", "rc4md56",
               "chacha20", "chacha20ietf", "salsa20"}
    BY <1>2 DEF Methods, cipherMethod
  <2>2. ivLen(m) = cipherMethod[m][2]
    BY <1>2 DEF ivLen
  <2>3. cipherMethod[m][2] \in {6, 8, 12, 16}
    BY <2>1 DEF cipherMethod
  <2> QED BY <2>2, <2>3
<1> QED BY <1>1, <1>2

\* A datagram that is decrypted with its own stream is handed on as it was built.
LEMMA HandedIs ==
  ASSUME method \in Methods \cup {"none"}, NEW e, NEW d, NEW c \in CallTypes, d.stream = d.iv,
         d.of = c, d.bytes = Marshall(Build(New, c))
  PROVE  Handed(e, d) = [at |-> e, m |-> Build(New, c), of |-> c, iv |-> d.iv]
<1> DEFINE s == d.bytes
           k == udpmss - ivLen(method)
<1>1. s \in Seq(Byte) /\ Len(s) \in Nat /\ Len(s) <= 12 + mss
  BY Fits
<1>2. k \in Nat /\ 12 + mss <= k
  BY IvShort DEF mss, udpmss
<1> HIDE DEF k
<1>3. Len(s) <= k
  BY <1>1, <1>2 DEF mss
<1>4. Min({Len(s), k}) = Len(s)
  BY <1>1, <1>2, <1>3, MinIs
<1>5. SubSeq(s, 1, Len(s)) = s
  BY <1>1, SubSeqFull
<1>6. UnMarshall(s) = Build(New, c)
  BY BuildIs, MessageRoundTrip
<1>7. Handed(e, d) = [at |-> e, m |-> UnMarshall(SubSeq(s, 1, Min({Len(s), k}))), of |-> c,
                      iv |-> d.iv]
  BY DEF Handed, k
<1> QED BY <1>4, <1>5, <1>6, <1>7

-----------------------------------------------------------------------------
LEMMA CallIs ==
  ASSUME NEW f \in Flags \cup {0}, NEW s \in Word, NEW a \in Word, NEW w \in Word, NEW v \in Seq(Byte),
         Len(v) <= mss, f # FlagPAYLOAD => v = <<>>
  PROVE  Call(f, s, a, w, v) \in CallTypes
<1> QED BY DEF Call, CallTypes

LEMMA EmptyCallIs ==
  ASSUME NEW f \in Flags \cup {0}, f # FlagPAYLOAD, NEW s \in Word, NEW a \in Word, NEW w \in Word
  PROVE  Call(f, s, a, w, <<>>) \in CallTypes
<1>1. <<>> \in Seq(Byte) /\ Len(<<>>) <= mss
  BY DEF mss
<1> QED BY <1>1, CallIs

LEMMA WordMinus == \A n \in Word : 65535 - n \in Word
<1> SUFFICES ASSUME NEW n \in Word PROVE 65535 - n \in Word
  OBVIOUS
<1>1. 65535 - n \in Nat /\ 65535 - n <= 65535
  BY WordRange
<1> QED BY <1>1, WordIs

LEMMA AckOfIs == \A n \in Word : AckOf(n) \in Word
<1> SUFFICES ASSUME NEW n \in Word PROVE AckOf(n) \in Word
  OBVIOUS
<1>1. n \in Nat
  BY WordRange
<1>2. AckOf(n) \in Nat /\ AckOf(n) <= 65535
  BY <1>1 DEF AckOf, Uint16
<1> QED BY <1>2, WordIs

LEMMA CallsTyped == \A c \in Calls : c \in CallTypes
<1> SUFFICES ASSUME NEW c \in Calls PROVE c \in CallTypes
  OBVIOUS
<1>1. /\ \A n \in Seqs : n \in Word /\ 65535 - n \in Word
      /\ 0 \in Word /\ \A p \in Payloads : p \in Nat
  BY CodecAssumption, WordMinus, WordIs
<1>3. \A f \in {FlagSYN1, FlagSYN2, FlagFIN1, FlagACK, FlagKeepAlive} : f \in Flags /\ f # FlagPAYLOAD
  BY DEF Flags, FlagSYN1, FlagSYN2, FlagFIN1, FlagFIN2, FlagACK, FlagPAYLOAD, FlagKeepAlive
<1>4. CASE \E f \in {FlagSYN1, FlagFIN1}, n \in Seqs : c = Call(f, n, 0, 0, <<>>)
  <2>1. PICK f \in {FlagSYN1, FlagFIN1}, n \in Seqs : c = Call(f, n, 0, 0, <<>>)
    BY <1>4
  <2>2. f \in Flags \cup {0} /\ f # FlagPAYLOAD /\ n \in Word /\ 0 \in Word
    BY <1>1, <1>3
  <2> QED BY <2>1, <2>2, EmptyCallIs
<1>5. CASE \E n \in Seqs : c = Call(FlagSYN2, n, 65535 - n, 0, <<>>)
  <2>1. PICK n \in Word, k \in Word : c = Call(FlagSYN2, n, k, 0, <<>>)
    BY <1>1, <1>5
  <2>2. FlagSYN2 \in Flags \cup {0} /\ FlagSYN2 # FlagPAYLOAD /\ 0 \in Word
    BY <1>1, <1>3
  <2> QED BY <2>1, <2>2, EmptyCallIs
<1>6. CASE \E n \in Seqs : c = Call(FlagACK, n, n, 65535 - n, <<>>)
  <2>1. PICK n \in Word, k \in Word : c = Call(FlagACK, n, n, k, <<>>)
    BY <1>1, <1>6
  <2>2. FlagACK \in Flags \cup {0} /\ FlagACK # FlagPAYLOAD
    BY <1>1, <1>3
  <2> QED BY <2>1, <2>2, EmptyCallIs
<1>7. CASE \E l \in {p \in Payloads : p <= mss} :
             c = Call(FlagPAYLOAD, l, 0, 0, [i \in 1 .. l |-> i % 256])
  <2>1. PICK l \in Payloads : l <= mss /\ c = Call(FlagPAYLOAD, l, 0, 0, [i \in 1 .. l |-> i % 256])
    BY <1>7
  <2> DEFINE v == [i \in 1 .. l |-> i % 256]
  <2>2. \A i \in 1 .. l : i % 256 \in Byte
    BY <1>1, ByteIs
  <2>3. v \in Seq(Byte) /\ Len(v) = l
    BY <1>1, <2>2
  <2>4. l \in Word
    BY <1>1, <2>1, WordIs DEF mss
  <2> HIDE DEF v
  <2>5. Call(FlagPAYLOAD, l, 0, 0, v) \in CallTypes
    <3>1. FlagPAYLOAD \in Flags \cup {0} /\ 0 \in Word
      BY <1>1 DEF Flags
    <3> QED BY <2>1, <2>3, <2>4, <3>1, CallIs
  <2> QED BY <2>1, <2>5 DEF v
<1>8. CASE c = Call(FlagKeepAlive, 0, 0, 0, <<>>)
  <2>1. FlagKeepAlive \in Flags \cup {0} /\ FlagKeepAlive # FlagPAYLOAD /\ 0 \in Word
    BY <1>1, <1>3
  <2> QED BY <1>8, <2>1, EmptyCallIs
<1> QED BY <1>4, <1>5, <1>6, <1>7, <1>8 DEF Calls

\* Nothing, and an idle goroutine, hold a new object.
LEMMA NothingIs ==
  Nothing.of \in CallTypes /\ Nothing.m = New /\ New \in Messages /\ New = Build(New, Nothing.of)
<1>1. Nothing.of = Call(0, 0, 0, 0, <<>>) /\ Nothing.m = New
  BY DEF Nothing
<1>2. Call(0, 0, 0, 0, <<>>) \in CallTypes
  <2>1. 0 \in Flags \cup {0} /\ 0 # FlagPAYLOAD /\ 0 \in Word
    BY WordIs DEF FlagPAYLOAD
  <2> QED BY <2>1, EmptyCallIs
<1>3. Call(0, 0, 0, 0, <<>>).flag # FlagPAYLOAD
  BY DEF Call, FlagPAYLOAD
<1>4. Build(New, Call(0, 0, 0, 0, <<>>)) = Fields(0, 0, 0, 0, 0, <<>>)
  <2>1. New = Fields(0, 0, 0, 0, 0, <<>>)
    BY DEF New, Fields
  <2> QED BY <1>3, <2>1, NewMessageIs DEF Build, Call
<1>5. New = Build(New, Nothing.of)
  BY <1>1, <1>4 DEF New, Fields
<1> QED BY <1>1, <1>2, <1>5, BuildIs

LEMMA MessageInit == Init => MessageInv
<1> SUFFICES ASSUME Init PROVE MessageInv
  OBVIOUS
<1>1. /\ obj = [g \in Goroutines |-> New] /\ meant = [g \in Goroutines |-> Nothing.of]
      /\ wire = <<>> /\ got = Nothing
  BY DEF Init
<1> QED BY <1>1, NothingIs DEF MessageInv

LEMMA MessageStep == Inv /\ MessageInv /\ [Next]_vars => MessageInv'
<1> SUFFICES ASSUME Inv, MessageInv, [Next]_vars PROVE MessageInv'
  OBVIOUS
<1>1. CASE UNCHANGED vars
  BY <1>1 DEF vars, MessageInv, Drawn
<1>2. ASSUME NEW g \in Goroutines, NEW c \in CallTypes, obj' = [obj EXCEPT ![g] = Build(New, c)],
             meant' = [meant EXCEPT ![g] = c]
      PROVE  /\ obj' \in [Goroutines -> Messages] /\ meant' \in [Goroutines -> CallTypes]
             /\ \A h \in Goroutines : obj'[h] = Build(New, meant'[h])
  <2>1. Build(New, c) \in Messages
    BY BuildIs
  <2> QED BY <1>2, <2>1 DEF MessageInv
<1>3. ASSUME NEW g \in Goroutines, Construct(g) PROVE MessageInv'
  <2>1. PICK c \in Calls : obj' = [obj EXCEPT ![g] = Build(New, c)] /\ meant' = [meant EXCEPT ![g] = c]
    BY <1>3 DEF Construct
  <2>2. UNCHANGED <<method, wire, got>>
    BY <1>3 DEF Construct
  <2> QED BY <1>2, <2>1, <2>2, CallsTyped DEF MessageInv, Drawn
<1>4. ASSUME NEW g \in Goroutines, Reply(g) PROVE MessageInv'
  <2> DEFINE m == got.m
  <2>1. PICK n \in Seqs :
          /\ obj' = [obj EXCEPT ![g] = Build(m, Call(FlagFIN2, n, AckOf(m.seq), 0, <<>>))]
          /\ meant' = [meant EXCEPT ![g] = Call(FlagFIN2, n, AckOf(m.seq), 0, <<>>)]
    BY <1>4 DEF Reply
  <2> DEFINE c == Call(FlagFIN2, n, AckOf(m.seq), 0, <<>>)
  <2>2. m = Build(New, got.of) /\ got.of \in CallTypes /\ m.flag = FlagFIN1
    BY <1>4 DEF Reply, MessageInv
  <2>3. m.seq \in Word /\ got.of.flag = FlagFIN1
    BY <2>2, BuildIs DEF CallTypes
  <2>4. c \in CallTypes /\ c.flag = FlagFIN2
    <3>1. n \in Word /\ AckOf(m.seq) \in Word /\ 0 \in Word
      BY <2>3, CodecAssumption, AckOfIs, WordIs
    <3>2. FlagFIN2 \in Flags \cup {0} /\ FlagFIN2 # FlagPAYLOAD
      BY DEF Flags, FlagFIN2, FlagPAYLOAD
    <3>3. c \in CallTypes
      BY <3>1, <3>2, EmptyCallIs
    <3> QED BY <3>3 DEF Call
  <2> HIDE DEF c
  <2>5. Build(m, c) = Build(New, c)
    BY <2>2, <2>3, <2>4, RebuildIs
  <2>6. obj' = [obj EXCEPT ![g] = Build(New, c)] /\ meant' = [meant EXCEPT ![g] = c]
    BY <2>1, <2>5 DEF c
  <2>7. wire' = wire /\ got' = Nothing
    BY <1>4 DEF Reply
  <2> QED BY <1>2, <2>4, <2>6, <2>7, NothingIs DEF MessageInv
<1>5. ASSUME NEW g \in Goroutines, NEW v, NEW stream, Write(g, v, stream) PROVE MessageInv'
  <2>1. /\ obj' \in [Goroutines -> Messages] /\ meant' \in [Goroutines -> CallTypes]
        /\ \A h \in Goroutines : obj'[h] = Build(New, meant'[h])
    <3>1. \/ obj' = [obj EXCEPT ![g] = New] /\ meant' = [meant EXCEPT ![g] = Nothing.of]
          \/ UNCHANGED <<obj, meant>>
      BY <1>5 DEF Write
    <3>2. CASE obj' = [obj EXCEPT ![g] = New] /\ meant' = [meant EXCEPT ![g] = Nothing.of]
      BY <1>2, <3>2, NothingIs
    <3>3. CASE UNCHANGED <<obj, meant>>
      BY <3>3 DEF MessageInv
    <3> QED BY <3>1, <3>2, <3>3
  <2>2. PICK d : wire' = Append(wire, d) /\ d.bytes = Marshall(obj[g]) /\ d.of = meant[g]
    BY <1>5 DEF Write
  <2>3. d.of \in CallTypes /\ d.bytes = Marshall(Build(New, d.of))
    BY <2>2 DEF MessageInv
  <2>4. PICK S : wire \in Seq(S)
    BY DEF Inv
  <2>5. Len(wire') = Len(wire) + 1 /\ wire'[Len(wire) + 1] = d
        /\ \A i \in 1 .. Len(wire) : wire'[i] = wire[i]
    BY <2>2, <2>4
  <2>6. \A i \in 1 .. Len(wire') :
          wire'[i].of \in CallTypes /\ wire'[i].bytes = Marshall(Build(New, wire'[i].of))
    <3> TAKE i \in 1 .. Len(wire')
    <3>1. i \in 1 .. Len(wire) \/ i = Len(wire) + 1
      BY <2>4, <2>5
    <3> QED BY <2>3, <2>5, <3>1 DEF MessageInv
  <2>7. got' = got /\ method' = method
    BY <1>5 DEF Write
  <2> QED BY <2>1, <2>6, <2>7 DEF MessageInv, Drawn
<1>6. ASSUME NEW g \in Goroutines, EncryptStart(g) PROVE MessageInv'
  BY <1>6 DEF EncryptStart, MessageInv, Drawn
<1>7. CASE Receive
  <2>1. PICK i \in 1 .. Len(wire), e \in Ends : got' = Handed(e, wire[i])
    BY <1>7 DEF Receive, Ends, Inv
  <2>2. wire[i].of \in CallTypes /\ wire[i].bytes = Marshall(Build(New, wire[i].of))
    BY DEF MessageInv
  <2>3. UNCHANGED <<obj, meant, wire, method>> /\ method \in Methods \cup {"none"}
    BY <1>7 DEF Inv, Receive
  <2>4. CASE Drawn(wire[i].iv)
    <3>1. wire[i].stream = wire[i].iv
      BY <2>4 DEF Inv, OwnStream
    <3>2. got' = [at |-> e, m |-> Build(New, wire[i].of), of |-> wire[i].of, iv |-> wire[i].iv]
      BY <2>1, <2>2, <2>3, <3>1, HandedIs
    <3> QED BY <2>2, <2>3, <3>2 DEF MessageInv
  <2>5. CASE ~Drawn(wire[i].iv)
    <3>1. wire[i].stream # wire[i].iv
      BY <2>5 DEF Inv, OwnStream
    <3>2. got'.m = Err /\ got'.of = wire[i].of /\ got'.iv = wire[i].iv
      BY <2>1, <3>1 DEF Handed
    <3> QED BY <2>2, <2>3, <2>5, <3>2 DEF MessageInv, Drawn
  <2> QED BY <2>4, <2>5
<1> QED BY <1>1, <1>3, <1>4, <1>5, <1>6, <1>7 DEF Next, SendPlain, EncryptEnd

LEMMA MessageInvariance == Spec => [](Inv /\ MessageInv)
<1> QED BY InvInit, InvStep, MessageInit, MessageStep, PTL DEF Spec

\* The objects and the datagrams have their types; every byte of a datagram is one.
THEOREM Typed == Spec => []TypeOK
<1>1. Inv /\ MessageInv => TypeOK
  <2> SUFFICES ASSUME Inv, MessageInv PROVE TypeOK
    OBVIOUS
  <2>1. \A g \in Goroutines : /\ obj[g].seq \in Word /\ obj[g].ack \in Word /\ obj[g].win \in Word
                              /\ obj[g].num \in {0, 1} /\ Len(obj[g].attrs) = obj[g].num
    <3> TAKE g \in Goroutines
    <3>1. meant[g] \in CallTypes /\ obj[g] = Build(New, meant[g]) /\ obj[g] \in Messages
      BY DEF MessageInv
    <3>2. obj[g].num \in {0, 1}
      BY <3>1, BuildIs
    <3> QED BY <3>1, <3>2 DEF Messages
  <2>2. \A i \in DOMAIN wire : wire[i].bytes \in Seq(0 .. 255)
    <3>1. PICK S : wire \in Seq(S)
      BY DEF Inv
    <3>2. \A i \in 1 .. Len(wire) : wire[i].bytes \in Seq(Byte)
      BY Fits DEF MessageInv
    <3>3. DOMAIN wire = 1 .. Len(wire)
      BY <3>1
    <3> QED BY <3>2, <3>3 DEF Byte
  <2> QED BY <2>1, <2>2 DEF TypeOK, Inv, States
<1> QED BY <1>1, MessageInvariance, PTL

LEMMA MaxIs == Max({1}) = 1
<1> QED BY DEF Max

\* RoundTrip: whatever goroutines share a cipher, whatever object a message was built
\* of, however often and in which order its datagram is read: a handler gets the
\* message its constructor was called for, with its whole payload, if the IV was drawn.
THEOREM HandlersGetWhatWasSent == Spec => []RoundTrip
<1>1. MessageInv => RoundTrip
  <2> SUFFICES ASSUME MessageInv, Drawn(got.iv) PROVE RoundTrip
    BY DEF RoundTrip
  <2> DEFINE c == got.of
             m == got.m
  <2>1. c \in CallTypes /\ m = Build(New, c)
    BY DEF MessageInv
  <2>2. m \in Messages /\ m.flag = c.flag /\ m.seq = c.seq /\ m.ack = c.ack /\ m.win = c.win
    BY <2>1, BuildIs
  <2>3. AttributeByType(m, AttrPAYLOAD) = c.payload
    <3>1. CASE c.flag = FlagPAYLOAD
      <4>1. m.attrs = <<Attr(AttrPAYLOAD, c.payload)>>
        BY <2>1, <3>1, BuildIs
      <4>2. {i \in DOMAIN m.attrs : m.attrs[i].t = AttrPAYLOAD} = {1} /\ m.attrs[1].v = c.payload
        BY <4>1 DEF Attr
      <4> QED BY <4>2, MaxIs DEF AttributeByType
    <3>2. CASE c.flag # FlagPAYLOAD
      <4>1. m.attrs = <<>> /\ c.payload = <<>>
        BY <2>1, <3>2, BuildIs DEF CallTypes
      <4>2. {i \in DOMAIN m.attrs : m.attrs[i].t = AttrPAYLOAD} = {}
        BY <4>1
      <4> QED BY <4>1, <4>2 DEF AttributeByType
    <3> QED BY <3>1, <3>2
  <2>4. m # Err
    <3>1. "seq" \in DOMAIN m /\ "seq" \notin DOMAIN Err
      BY <2>2 DEF Messages, Err
    <3> QED BY <3>1
  <2>5. c = [flag |-> c.flag, seq |-> c.seq, ack |-> c.ack, win |-> c.win, payload |-> c.payload]
    BY <2>1 DEF CallTypes
  <2> QED BY <2>2, <2>3, <2>4, <2>5 DEF RoundTrip
<1> QED BY <1>1, MessageInvariance, PTL
=============================================================================
