------------------------------- MODULE Codec -------------------------------
(***************************************************************************)
(* rule/ and cipher/: a message from the goroutine that builds it to the   *)
(* one that handles it.  The version 1 is the plain form, the version 2    *)
(* encrypts it with a cipher that all goroutines of a dialer, or of a      *)
(* listener with all its connections, share (rule/fac).                    *)
(*                                                                         *)
(* Messages are bytes where their layout matters.  A key stream is known   *)
(* by its IV, an IV by the call of Encrypt that drew it; encrypted bytes   *)
(* are kept with the stream they were encrypted with, and are garbage      *)
(* under any other one.                                                    *)
(***************************************************************************)
EXTENDS Naturals, FiniteSets, Sequences, SequencesExt

CONSTANTS
  Goroutines,   \* that send messages
  EndOf,        \* the end of the connection each belongs to
  Seqs,         \* values of the 16-bit fields that are tried
  Payloads,     \* lengths of payloads that are tried, as far as readMSS cuts them so
  MaxSent       \* bound: datagrams, with the messages that are being sent

Ends == {"cli", "ser"}
Word == 0 .. 65535

ASSUME CodecAssumption ==
  /\ EndOf \in [Goroutines -> Ends]
  /\ Seqs \subseteq Word
  /\ Payloads \subseteq Nat
  /\ MaxSent \in Nat

VARIABLES
  method,       \* of the ciphers, or none (version 1)
  pc,           \* of a goroutine: idle, built, sealing, panic
  obj,          \* its message object
  meant,        \* what its constructor was called with
  iv,           \* of its call of Encrypt, or Nil
  lock,         \* who holds the lock of the cipher of an end
  enc,          \* the field of that cipher: its key stream, or Nil
  wire,         \* the datagrams, in the order they were sent
  got           \* the last message that a reader has handed on, and at which end

vars == <<method, pc, obj, meant, iv, lock, enc, wire, got>>

-----------------------------------------------------------------------------
\* rule/header.go
FlagSYN1 == 1
FlagSYN2 == 2
FlagFIN1 == 4
FlagFIN2 == 8
FlagACK == 16
FlagPAYLOAD == 32
FlagKeepAlive == 64
Flags == {FlagSYN1, FlagSYN2, FlagFIN1, FlagFIN2, FlagACK, FlagPAYLOAD, FlagKeepAlive}
AttrPAYLOAD == 1

\* cipherMethod: the lengths of the key and of the IV.
cipherMethod == [
  aes128 |-> <<16, 16>>, aes192 |-> <<24, 16>>, aes256 |-> <<32, 16>>,
  des |-> <<8, 8>>, bf |-> <<16, 8>>, cast5 |-> <<16, 8>>, rc4md5 |-> <<16, 16>>,
  rc4md56 |-> <<16, 6>>, chacha20 |-> <<32, 8>>, chacha20ietf |-> <<32, 12>>,
  salsa20 |-> <<32, 8>>]
Methods == DOMAIN cipherMethod
ivLen(m) == IF m = "none" THEN 0 ELSE cipherMethod[m][2]

\* The payload of a segment is cut to mss; first a form that forgets the IV.
MssWithoutIv == 1472 - 14
mss == 1472 - 14 - 16
udpmss == 1472

-----------------------------------------------------------------------------
\* A message object.  A constructor overwrites the header and nothing else, except
\* PAYLOAD; the mutated form keeps the fields that the call leaves zero.
New == [seq |-> 0, ack |-> 0, flag |-> 0, win |-> 0, num |-> 0, attrs |-> <<>>]

FlagAdded(m, c) ==
  [m EXCEPT !.seq = c.seq, !.ack = c.ack, !.flag = @ + c.flag, !.win = c.win, !.num = 0]
newMessage(m, c) ==
  [m EXCEPT !.seq = c.seq, !.ack = c.ack, !.flag = c.flag, !.win = c.win, !.num = 0]

\* uint16(n)
Uint16(n) == n % 65536

Build(m, c) ==
  IF c.flag = FlagPAYLOAD
    THEN [newMessage(m, c) EXCEPT
            !.attrs = <<[t |-> AttrPAYLOAD, l |-> Uint16(Len(c.payload)), v |-> c.payload]>>,
            !.num = 1]
    ELSE newMessage(m, c)

U16(n) == <<n \div 256, n % 256>>
Int16(s, i) == 256 * s[i] + s[i + 1]

\* The length of an attribute counts its own three bytes.
HeaderBytes(m) == U16(m.seq) \o U16(m.ack) \o U16(m.flag) \o U16(m.win) \o <<m.num>>
AttrBytes(a) == <<a.t>> \o U16(Uint16(a.l + 3)) \o a.v
Marshall(m) == HeaderBytes(m) \o FlattenSeq([i \in DOMAIN m.attrs |-> AttrBytes(m.attrs[i])])

ReadHeader(s) ==
  [seq |-> Int16(s, 1), ack |-> Int16(s, 3), flag |-> Int16(s, 5), win |-> Int16(s, 7),
   num |-> s[9], attrs |-> <<>>]
AttrLen(s) == Uint16(Int16(s, 2) + 65536 - 3)
AttrWhole(s) == Len(s) >= 3 /\ Len(s) >= 3 + AttrLen(s)
ReadAttr(s) == [t |-> s[1], l |-> AttrLen(s), v |-> SubSeq(s, 4, 3 + AttrLen(s))]
AfterAttr(s) == SubSeq(s, 4 + AttrLen(s), Len(s))

Err == [err |-> TRUE]

\* rest[i] is left to read after i attributes; Err is the error of binary.Read.
UnMarshall(s) ==
  LET rest[i \in 0 .. s[9]] == IF i = 0 THEN SubSeq(s, 10, Len(s)) ELSE AfterAttr(rest[i - 1])
  IN  IF Len(s) < 9 \/ \E i \in 1 .. s[9] : ~AttrWhole(rest[i - 1]) THEN Err
      ELSE [ReadHeader(s) EXCEPT !.attrs = [i \in 1 .. s[9] |-> ReadAttr(rest[i - 1])]]

\* AttrMaps keeps the last attribute of a type.
AttributeByType(m, t) ==
  LET found == {i \in DOMAIN m.attrs : m.attrs[i].t = t}
  IN  IF found = {} THEN <<>> ELSE m.attrs[Max(found)].v

-----------------------------------------------------------------------------
\* evpBytesToKey repeats md5 until there are enough bytes, and cuts them; first a form
\* that repeats it too little.  Some newStream answers an error for other lengths.
BlocksRoundedDown(len) == len \div 16
Blocks(len) == (len - 1) \div 16 + 1
evpBytesToKey(len) == IF 16 * Blocks(len) >= len THEN len ELSE 0

StreamMade(m) ==
  LET key == evpBytesToKey(cipherMethod[m][1])
  IN  CASE m \in {"aes128", "aes192", "aes256"} -> key \in {16, 24, 32} /\ ivLen(m) = 16
        [] m = "des" -> key = 8 /\ ivLen(m) = 8
        [] m = "bf" -> key \in 1 .. 56 /\ ivLen(m) = 8
        [] m = "cast5" -> key = 16 /\ ivLen(m) = 8
        [] m \in {"rc4md5", "rc4md56"} -> TRUE
        [] m \in {"chacha20", "chacha20ietf"} -> key = 32 /\ ivLen(m) \in {8, 12, 24}
        [] m = "salsa20" -> key >= 32 /\ ivLen(m) >= 8

-----------------------------------------------------------------------------
\* What the constructors are called with.
Call(flag, seq, ack, win, payload) ==
  [flag |-> flag, seq |-> seq, ack |-> ack, win |-> win, payload |-> payload]
Calls ==
  {Call(f, n, 0, 0, <<>>) : f \in {FlagSYN1, FlagFIN1}, n \in Seqs}
    \cup {Call(FlagSYN2, n, 65535 - n, 0, <<>>) : n \in Seqs}
    \cup {Call(FlagACK, n, n, 65535 - n, <<>>) : n \in Seqs}
    \cup {Call(FlagPAYLOAD, l, 0, 0, [i \in 1 .. l |-> i % 256]) :
            l \in {p \in Payloads : p <= mss}}
    \cup {Call(FlagKeepAlive, 0, 0, 0, <<>>)}

\* No IV was drawn, no stream made.
Nil == <<>>

\* What a reader hands on: a message, or Err for garbage if it decrypts with another
\* stream than the sender's, or if it cannot be parsed.  ReadFromUDP cuts at udpmss.
Handed(e, d) ==
  LET bytes == SubSeq(d.bytes, 1, Min({Len(d.bytes), udpmss - ivLen(method)}))
  IN  [at |-> e, m |-> IF d.stream = d.iv THEN UnMarshall(bytes) ELSE Err,
       of |-> d.of, iv |-> d.iv]
Nothing == [at |-> "cli", m |-> New, of |-> Call(0, 0, 0, 0, <<>>), iv |-> Nil]

Init ==
  /\ method \in Methods \cup {"none"}
  /\ pc = [g \in Goroutines |-> "idle"]
  /\ obj = [g \in Goroutines |-> New]
  /\ meant = [g \in Goroutines |-> Nothing.of]
  /\ iv = [g \in Goroutines |-> Nil]
  /\ lock = [e \in Ends |-> "free"]
  /\ enc = [e \in Ends |-> Nil]
  /\ wire = <<>>
  /\ got = Nothing

Room == Len(wire) + Cardinality({g \in Goroutines : pc[g] # "idle"}) < MaxSent

\* A message of the factory.
Construct(g) ==
  /\ pc[g] = "idle" /\ Room
  /\ \E c \in Calls :
       /\ obj' = [obj EXCEPT ![g] = Build(New, c)]
       /\ meant' = [meant EXCEPT ![g] = c]
  /\ pc' = [pc EXCEPT ![g] = "built"]
  /\ UNCHANGED <<method, iv, lock, enc, wire, got>>

\* The FIN2 is built of the object of the FIN1 it answers.  finSeqU + 1 is a uint16,
\* unlike in the mutated form.
AckWide(n) == n + 1
AckOf(n) == Uint16(n + 1)

Reply(g) ==
  LET m == got.m
  IN  /\ pc[g] = "idle" /\ Room /\ got.at = EndOf[g]
      /\ m # Err /\ m.flag = FlagFIN1
      /\ \E n \in Seqs :
           LET c == Call(FlagFIN2, n, AckOf(m.seq), 0, <<>>)
           IN  /\ obj' = [obj EXCEPT ![g] = Build(m, c)]
               /\ meant' = [meant EXCEPT ![g] = c]
      /\ pc' = [pc EXCEPT ![g] = "built"]
      /\ got' = Nothing
      /\ UNCHANGED <<method, iv, lock, enc, wire>>

\* sendMessage hands the bytes to the socket.  SYN1 and FIN1 are sent again from
\* the same object.
Write(g, v, stream) ==
  /\ wire' = Append(wire, [to |-> EndOf[g], iv |-> v, stream |-> stream,
                           bytes |-> Marshall(obj[g]), of |-> meant[g]])
  /\ iv' = [iv EXCEPT ![g] = Nil]
  /\ \/ /\ pc' = [pc EXCEPT ![g] = "idle"]
        /\ obj' = [obj EXCEPT ![g] = New]
        /\ meant' = [meant EXCEPT ![g] = Nothing.of]
     \/ /\ meant[g].flag \in {FlagSYN1, FlagFIN1}
        /\ pc' = [pc EXCEPT ![g] = "built"]
        /\ UNCHANGED <<obj, meant>>
  /\ UNCHANGED <<method, got>>

Sends(g) == pc[g] = "built" /\ Len(wire) < MaxSent

SendPlain(g) ==
  /\ method = "none"
  /\ Sends(g)
  /\ Write(g, Nil, Nil)
  /\ UNCHANGED <<lock, enc>>

\* Encrypt under the lock of the cipher.  First a form without lock.
AnyTime(e) == TRUE
Unlocked(e) == lock[e] = "free"

Fresh(g) == <<g, Len(wire)>>

\* initEncrypt draws a fresh IV and makes its stream, which is a field of the cipher;
\* if rand.Reader fails, the IV stays zero and the field as it was.  Encrypt looks at
\* no error and lets the bytes through the stream it finds: if that is nil, it panics.
\* The mutated form clears the field first.
ClearedFor(g, v) == IF v # Nil /\ StreamMade(method) THEN v ELSE Nil
StreamFor(g, v) ==
  CASE v = Nil -> enc[EndOf[g]]
    [] v # Nil /\ StreamMade(method) -> v
    [] OTHER -> Nil

EncryptStart(g) ==
  /\ method # "none"
  /\ Sends(g) /\ Unlocked(EndOf[g])
  /\ lock' = [lock EXCEPT ![EndOf[g]] = "held"]
  /\ \E v \in {Nil, Fresh(g)} :
       /\ iv' = [iv EXCEPT ![g] = v]
       /\ enc' = [enc EXCEPT ![EndOf[g]] = StreamFor(g, v)]
       /\ pc' = [pc EXCEPT ![g] = IF StreamFor(g, v) = Nil THEN "panic" ELSE "sealing"]
  /\ UNCHANGED <<method, obj, meant, wire, got>>

EncryptEnd(g) ==
  /\ pc[g] = "sealing"
  /\ Write(g, iv[g], enc[EndOf[g]])
  /\ lock' = [lock EXCEPT ![EndOf[g]] = "free"]
  /\ UNCHANGED enc

\* The only reader of the other end, a datagram after the other, in any order and
\* again.  Decrypt has the stream of its own for it.
Receive ==
  \E i \in DOMAIN wire :
    LET e == IF wire[i].to = "cli" THEN "ser" ELSE "cli"
    IN  /\ got' = Handed(e, wire[i])
        /\ UNCHANGED <<method, pc, obj, meant, iv, lock, enc, wire>>

\* A panic ends the program; what the other end does then, it also does while this
\* one is idle.
Running == \A g \in Goroutines : pc[g] # "panic"

Next ==
  /\ Running
  /\ \/ \E g \in Goroutines :
          Construct(g) \/ Reply(g) \/ SendPlain(g) \/ EncryptStart(g) \/ EncryptEnd(g)
     \/ Receive

Spec == Init /\ [][Next]_vars

-----------------------------------------------------------------------------
\* Types: in particular every byte of a datagram is a byte.
TypeOK ==
  /\ method \in Methods \cup {"none"}
  /\ pc \in [Goroutines -> {"idle", "built", "sealing", "panic"}]
  /\ \A g \in Goroutines : /\ obj[g].seq \in Word /\ obj[g].ack \in Word
                           /\ obj[g].win \in Word /\ obj[g].num \in {0, 1}
                           /\ Len(obj[g].attrs) = obj[g].num
  /\ lock \in [Ends -> {"free", "held"}]
  /\ \A i \in DOMAIN wire : wire[i].bytes \in Seq(0 .. 255)

\* What a handler gets is what the other end's constructor was called with, whoever
\* used the cipher at the same time, whatever object the message was built of, and
\* in full length: the IV, the header and a whole mss fit into the reader's buffer.
\* A failure of rand.Reader spoils the datagram it befalls and no later one.
Drawn(v) == method = "none" \/ v # Nil
RoundTrip ==
  Drawn(got.iv) =>
    /\ got.m # Err
    /\ [flag |-> got.m.flag, seq |-> got.m.seq, ack |-> got.m.ack, win |-> got.m.win,
        payload |-> AttributeByType(got.m, AttrPAYLOAD)] = got.of

\* initEncrypt's errors are ignored.  No method of the table gets a key or an IV of a
\* length its algorithm refuses, and without rand.Reader a stream of an earlier call
\* is used: only if it fails at the first datagram of a cipher is there none.
NoPanic ==
  \A g \in Goroutines : pc[g] = "panic" =>
    iv[g] = Nil /\ \A i \in DOMAIN wire : wire[i].to # EndOf[g]
=============================================================================
