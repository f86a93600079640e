--------------------------- MODULE PeerWireProofs ---------------------------
(***************************************************************************)
(* Theorems about one connection: what the listener tells the controller   *)
(* is what the remote side said, for any width of the format, any number   *)
(* of pieces and any messages.                                             *)
(***************************************************************************)
EXTENDS PeerWireLemmas

-----------------------------------------------------------------------------
(* Types *)

Heard == {m \in Messages : Tells(m)}

Types ==
    /\ pc \in {"handshake"} \cup Listening \cup Over
    /\ len \in Numbers
    /\ pc \in {"type", "payload"} => len \in 1 .. MaxSize - 1
    /\ pc = "payload" => HasPayload(len - 1, msg_type)
    /\ msg_type \in Byte
    /\ stream \in Seq(Byte)
    /\ remote \in {"connected", "speaking", "closed", "reset"}
    /\ listened \in BOOLEAN
    /\ events \in Seq(Heard)
    /\ greeted \in 0 .. 3
    /\ said \in Seq(Messages)

LEMMA HandshakeIs ==
    /\ Len(OurHandshake) = 3
    /\ OurHandshake = <<3, OurHash, 1>>
    /\ \A h \in Hashes : /\ Handshake(h, 2) = <<3, h, 2>>
                         /\ Handshake(h, 2) \in Seq(Byte)
                         /\ Len(Handshake(h, 2)) = 3
<1>1. 1 \in Byte /\ 2 \in Byte /\ 3 \in Byte /\ Hashes \subseteq Byte
  BY WireAssumption
<1> QED
  BY <1>1 DEF OurHandshake, Handshake

\* A message sent is one more event, or the end.
LEMMA Sent ==
    ASSUME events \in Seq(Heard), NEW e \in Heard, Send(e)
    PROVE  /\ events' \in Seq(Heard)
           /\ \/ listened /\ events' = Append(events, e) /\ pc' = "length"
              \/ ~listened /\ events' = events /\ pc' = "ended"
<1>1. Append(events, e) \in Seq(Heard)
  BY AppendProperties
<1>2. \/ listened /\ events' = Append(events, e) /\ pc' = "length"
      \/ ~listened /\ events' = events /\ pc' = "ended"
  BY DEF Send
<1> QED
  BY <1>1, <1>2

LEMMA BitfieldHeard ==
    ASSUME NEW bytes, BitfieldOf(bytes) \in SUBSET Pieces
    PROVE  Bitfield(BitfieldOf(bytes)) \in Heard
BY DEF Bitfield, Heard, Messages, Tells

LEMMA PayloadHeard ==
    ASSUME Types, pc = "payload", NEW bytes \in Seq(Byte), Len(bytes) = len - 1, Payload(bytes)
    PROVE  \/ \E e \in Heard : Send(e)
           \/ pc' = "panicked" /\ events' = events
<1>1. HasPayload(Len(bytes), msg_type)
  BY DEF Types
<1>2. msg_type \in {4, 5, 7} /\ Width \in Nat /\ Len(bytes) \in Nat
  BY <1>1, Constants DEF HasPayload
<1>3. CASE msg_type = 4
  <2> DEFINE i == Value(bytes)
  <2>1. Len(bytes) = Width
    BY <1>1, <1>3, <1>2 DEF HasPayload
  <2>2. i \in Numbers
    <3>1. bytes \in [1 .. Width -> Byte]
      BY <2>1
    <3> QED
      BY <3>1, ValueBound
  <2>3. Have(i) \in Heard
    <3> HIDE DEF i
    <3> QED
      BY <2>2 DEF Have, Heard, Messages, Tells
  <2>4. \/ Send(Have(i))
        \/ pc' = "panicked" /\ events' = events
    BY <1>3 DEF Payload
  <2> QED
    BY <2>3, <2>4
<1>4. CASE msg_type = 5
  <2>1. Bitfield(BitfieldOf(bytes)) \in Heard
    <3>1. BitfieldOf(bytes) \in SUBSET Pieces
      BY DEF BitfieldOf
    <3> QED
      BY <3>1, BitfieldHeard
  <2>2. \/ Send(Bitfield(BitfieldOf(bytes)))
        \/ pc' = "panicked" /\ events' = events
    BY <1>4 DEF Payload
  <2> QED
    BY <2>1, <2>2
<1>5. CASE msg_type = 7
  <2>1. Len(bytes) >= 2 * Width
    BY <1>1, <1>2, <1>5 DEF HasPayload
  <2> DEFINE x == SubSeq(bytes, 1, Width)
             y == SubSeq(bytes, Width + 1, 2 * Width)
             z == SubSeq(bytes, 2 * Width + 1, Len(bytes))
  <2>2. x \in [1 .. Width -> Byte]
    <3>1. Width \in 0 .. Len(bytes)
      BY <1>2, <2>1
    <3> QED
      BY <3>1, Parts
  <2>3. y \in [1 .. Width -> Byte]
    <3>1. \A i \in Width + 1 .. 2 * Width : bytes[i] \in Byte
      BY <1>2, <2>1
    <3>2. y \in Seq(Byte) /\ Len(y) = Width
      BY <1>2, <2>1, <3>1, Constants, SubSeqProperties
    <3> HIDE DEF y
    <3> QED
      BY <3>2
  <2>4. z \in Seq(Byte)
    <3>1. 2 * Width \in 0 .. Len(bytes)
      BY <1>2, <2>1
    <3> QED
      BY <3>1, Parts
  <2>5. Value(x) \in Numbers /\ Value(y) \in Numbers
    <3> HIDE DEF x, y
    <3> QED
      BY <2>2, <2>3, ValueBound
  <2>6. BlockOf(bytes) \in Heard
    <3>1. BlockOf(bytes) = Block(Value(x), Value(y), z)
      BY DEF BlockOf
    <3> HIDE DEF x, y, z
    <3> QED
      BY <2>4, <2>5, <3>1 DEF Block, Heard, Messages, Tells
  <2>7. Send(BlockOf(bytes))
    BY <1>5 DEF Payload
  <2> QED
    BY <2>6, <2>7
<1> QED
  BY <1>2, <1>3, <1>4, <1>5

LEMMA ChokedHeard == \A c \in BOOLEAN : Choked(c) \in Heard
BY DEF Choked, Heard, Messages, Tells

\* Bytes that read_exact takes, and those it leaves.
LEMMA Exactly ==
    ASSUME Types, NEW n \in Nat, ReadExact(n)
    PROVE  /\ Taken(n) \in Seq(Byte) /\ Len(Taken(n)) = n
           /\ Taken(n) \in [1 .. n -> Byte]
           /\ stream' \in Seq(Byte)
<1>1. stream \in Seq(Byte) /\ n \in 0 .. Len(stream)
  BY DEF Types, ReadExact
<1> QED
  BY <1>1, Parts DEF Taken, ReadExact

LEMMA TypesKept ==
    ASSUME Types, [Next]_vars
    PROVE  Types'
<1>0. 0 \in Numbers /\ 0 \in Byte
  BY Sizes, Constants, WireAssumption
<1>1. CASE UNCHANGED vars
  BY <1>1 DEF Types, vars, reading, history, Listening, Over, HasPayload
<1>2. CASE \E n \in 0 .. Len(OurHandshake) : ReadHandshake(n)
  <2>1. PICK n \in 0 .. 3 : ReadHandshake(n)
    BY <1>2, HandshakeIs
  <2>2. stream' \in Seq(Byte)
    BY <2>1, Parts DEF ReadHandshake, Types
  <2>3. pc' \in {"panicked", "length", "ended"}
    BY <2>1 DEF ReadHandshake
  <2> QED
    BY <2>1, <2>2, <2>3 DEF ReadHandshake, Types, Listening, Over
<1>3. CASE HandshakeFails
  BY <1>3 DEF HandshakeFails, Types, Listening, Over, history
<1>4. CASE ReadLength
  <2>1. /\ len' = Value(Taken(Width)) /\ stream' \in Seq(Byte)
        /\ Taken(Width) \in [1 .. Width -> Byte]
    BY <1>4, Exactly, Constants DEF ReadLength
  <2>2. len' \in Numbers
    BY <2>1, ValueBound
  <2>3. len' \in Nat
    BY <2>2, NumbersAreNat
  <2>4. \/ pc' = "type" /\ len' \in 1 .. MaxSize - 1
        \/ pc' = "length"
    BY <1>4, <2>3, Constants DEF ReadLength, InRange
  <2> QED
    BY <1>4, <2>1, <2>2, <2>4 DEF ReadLength, Types, Listening, Over, history
<1>5. CASE ReadType
  <2>1. stream' \in Seq(Byte) /\ stream[1] \in Byte
    <3>1. ReadExact(1) /\ stream \in Seq(Byte)
      BY <1>5 DEF ReadType, Types
    <3>2. stream' \in Seq(Byte)
      BY <3>1, Exactly
    <3>3. 1 \in 1 .. Len(stream)
      BY <3>1 DEF ReadExact
    <3> QED
      BY <3>1, <3>2, <3>3, ElementOfSeq
  <2>2. \/ events' \in Seq(Heard) /\ pc' \in {"length", "ended"}
        \/ /\ events' = events
           /\ pc' = "payload" /\ HasPayload(len - 1, msg_type')
        \/ events' = events /\ pc' = "length"
    <3>1. CASE len = 1 /\ msg_type' \in {0, 1}
      <4>1. Send(Choked(msg_type' = 0))
        <5>1. (CASE len = 1 /\ msg_type' \in {0, 1} -> Send(Choked(msg_type' = 0))
                [] HasPayload(len - 1, msg_type') -> pc' = "payload" /\ UNCHANGED events
                [] OTHER -> pc' = "length" /\ UNCHANGED events)
          BY <1>5, Zenon DEF ReadType
        <5>2. ~HasPayload(len - 1, msg_type')
          BY <3>1, Constants DEF HasPayload
        <5> QED
          BY <3>1, <5>1, <5>2, Zenon
      <4>2. Choked(msg_type' = 0) \in Heard
        BY ChokedHeard
      <4> QED
        BY <4>1, <4>2, Sent DEF Types
    <3>2. CASE ~(len = 1 /\ msg_type' \in {0, 1}) /\ HasPayload(len - 1, msg_type')
      BY <1>5, <3>2 DEF ReadType
    <3>3. CASE ~(len = 1 /\ msg_type' \in {0, 1}) /\ ~HasPayload(len - 1, msg_type')
      BY <1>5, <3>3 DEF ReadType
    <3> QED
      BY <3>1, <3>2, <3>3
  <2>3. /\ msg_type' = stream[1] /\ pc = "type"
        /\ UNCHANGED <<len, remote, listened, hello, greeted, said>>
    BY <1>5 DEF ReadType, history
  <2>4. len \in 1 .. MaxSize - 1
    BY <2>3 DEF Types
  <2> QED
    BY <2>1, <2>2, <2>3, <2>4 DEF Types, Listening, Over
<1>6. CASE ReadPayload
  <2> DEFINE bytes == Taken(len - 1)
  <2>1. len - 1 \in Nat /\ pc = "payload"
    BY <1>6, Constants DEF ReadPayload, Types
  <2>2. bytes \in Seq(Byte) /\ Len(bytes) = len - 1 /\ stream' \in Seq(Byte)
    BY <1>6, <2>1, Exactly DEF ReadPayload
  <2>3. Payload(bytes)
    BY <1>6 DEF ReadPayload
  <2> HIDE DEF bytes
  <2>4. \/ \E e \in Heard : Send(e)
        \/ pc' = "panicked" /\ events' = events
    BY <2>1, <2>2, <2>3, PayloadHeard
  <2>5. events' \in Seq(Heard) /\ pc' \in {"length", "ended", "panicked"}
    BY <2>4, Sent DEF Types
  <2> QED
    BY <1>6, <2>2, <2>5 DEF ReadPayload, Types, Listening, Over, history
<1>7. CASE ListenerEnds
  BY <1>7 DEF ListenerEnds, Types, Listening, Over, history
<1>8. CASE \E hash \in Hashes : SayHello(hash)
  <2>1. PICK hash \in Hashes : SayHello(hash)
    BY <1>8
  <2>2. stream' \in Seq(Byte)
    BY <2>1, HandshakeIs, ConcatProperties DEF SayHello, Types
  <2> QED
    BY <2>1, <2>2 DEF SayHello, Types, Listening, Over
<1>9. CASE \E m \in Said : Say(m)
  <2>1. PICK m \in Said : Say(m)
    BY <1>9
  <2>2. m \in Messages
    BY WireAssumption
  <2>3. stream' \in Seq(Byte) /\ said' \in Seq(Messages)
    BY <2>1, <2>2, EncodeBytes, ConcatProperties, AppendProperties DEF Say, Types
  <2> QED
    BY <2>1, <2>3 DEF Say, Types, Listening, Over
<1>10. CASE Close
  BY <1>10 DEF Close, Types, Listening, Over, history, reading
<1>11. CASE Reset
  BY <1>11 DEF Reset, Types, Listening, Over, history
<1>12. CASE StopListening
  BY <1>12 DEF StopListening, Types, Listening, Over, history, reading
<1> QED
  BY <1>1, <1>2, <1>3, <1>4, <1>5, <1>6, <1>7, <1>8, <1>9, <1>10, <1>11, <1>12
  DEF Next, ThreadStep, RemoteStep

LEMMA TypesInvariant == Spec => []Types
<1>1. Init => Types
  <2>1. 0 \in Numbers /\ 0 \in Byte
    BY Sizes, Constants, WireAssumption
  <2> QED
    BY <2>1 DEF Init, Types
<1>2. Types /\ [Next]_vars => Types'
  BY TypesKept
<1> QED
  BY <1>1, <1>2, PTL DEF Spec

\* TypeOK: what a thread knows of the connection stays in its type, and a length
\* that is acted on is positive and below the maximum (start_listener).
THEOREM TypeCorrect == Spec => []TypeOK
<1>1. Types => TypeOK
  <2> SUFFICES ASSUME Types
               PROVE  TypeOK
    OBVIOUS
  <2>1. \A i \in 1 .. Len(stream) : stream[i] \in Byte
    BY ElementOfSeq DEF Types
  <2>2. \A i \in 1 .. Len(events) : events[i].kind \in {"choked", "have", "bitfield", "block"}
    <3>1. ASSUME NEW i \in 1 .. Len(events)
          PROVE  events[i].kind \in {"choked", "have", "bitfield", "block"}
      <4>1. events[i] \in Heard
        BY ElementOfSeq DEF Types
      <4> QED
        BY <4>1, Kinds DEF Heard, Tells
    <3> QED
      BY <3>1
  <2> QED
    BY <2>1, <2>2, HandshakeIs DEF Types, TypeOK, Numbers
<1> QED
  BY <1>1, TypesInvariant, PTL

-----------------------------------------------------------------------------
(* The listener and the remote side in step *)

\* tail holds what the messages said put in the stream: all, all but the first, ...
TailOf(tail) ==
    /\ \A k \in 0 .. Len(said) : tail[k] \in Seq(Byte)
    /\ tail[Len(said)] = <<>>
    /\ \A k \in 0 .. Len(said) - 1 : tail[k] = Encode(said[k + 1]) \o tail[k + 1]

PlainTo(k) == \A i \in 1 .. k : Plain(said[i])
ToldTo(k) == Told(SubSeq(said, 1, k))

\* What is left to read, unless the connection broke.
Left(bytes) ==
    \/ stream = bytes
    \/ remote = "reset" /\ stream = <<>>

\* Message k + 1 is being read.
Within(k) ==
    /\ k < Len(said)
    /\ Plain(said[k + 1])
    /\ said[k + 1].kind # "keepalive"
    /\ len = 1 + Len(PayloadOf(said[k + 1]))

WithPayload == {"have", "bitfield", "block"}

\* The listener told the first k messages, all of them plain, and nothing else.
Position(tail, k) ==
    /\ k \in 0 .. Len(said)
    /\ PlainTo(k)
    /\ events = ToldTo(k)
    /\ \/ pc = "ended"
       \/ pc = "panicked" /\ hello # {OurHash}
       \/ pc = "length" /\ Left(tail[k])
       \/ /\ pc = "type" /\ Within(k)
          /\ Left((<<TypeOf(said[k + 1])>> \o PayloadOf(said[k + 1])) \o tail[k + 1])
       \/ /\ pc = "payload" /\ Within(k)
          /\ said[k + 1].kind \in WithPayload /\ msg_type = TypeOf(said[k + 1])
          /\ Left(PayloadOf(said[k + 1]) \o tail[k + 1])

InStep(tail) == \E k \in 0 .. Len(said) : Position(tail, k)

\* Or a message came that is not plain; the ones before it are told.
OutOfStep ==
    \E k \in 0 .. Len(said) - 1 :
        PlainTo(k) /\ ~Plain(said[k + 1]) /\ IsPrefix(ToldTo(k), events)

\* Before: the answer to the handshake comes first.
Start(tail) ==
    /\ remote = "connected" => pc = "handshake" /\ stream = <<>> /\ said = <<>>
    /\ pc = "handshake" =>
          /\ events = <<>> /\ greeted = 0
          /\ \/ remote # "speaking" /\ stream = <<>>
             \/ \E h \in Hashes : hello = {h} /\ stream = Handshake(h, 2) \o tail[0]

Synchronised ==
    \E tail : TailOf(tail) /\ Start(tail) /\ (Greeted => InStep(tail) \/ OutOfStep)

\* Messages said later change nothing about those said before.
LEMMA Longer ==
    ASSUME NEW s \in Seq(Messages), NEW m \in Messages, NEW k \in 0 .. Len(s)
    PROVE  /\ Append(s, m) \in Seq(Messages) /\ Len(Append(s, m)) = Len(s) + 1
           /\ Append(s, m)[Len(s) + 1] = m
           /\ \A i \in 1 .. Len(s) : Append(s, m)[i] = s[i]
           /\ SubSeq(Append(s, m), 1, k) = SubSeq(s, 1, k)
<1> DEFINE u == Append(s, m)
           x == SubSeq(u, 1, k)
           y == SubSeq(s, 1, k)
<1>1. /\ u \in Seq(Messages) /\ Len(u) = Len(s) + 1 /\ Len(s) \in Nat
      /\ u[Len(s) + 1] = m /\ \A i \in 1 .. Len(s) : u[i] = s[i]
  BY AppendProperties
<1>2. y \in Seq(Messages) /\ Len(y) = k /\ \A i \in 1 .. k : y[i] = s[i]
  BY Parts
<1> HIDE DEF u
<1>3. x \in Seq(Messages) /\ Len(x) = k /\ \A i \in 1 .. k : x[i] = u[i]
  <2>1. k \in 0 .. Len(u)
    BY <1>1
  <2> QED
    BY <1>1, <2>1, Parts
<1> HIDE DEF x, y
<1>4. Len(x) = Len(y) /\ \A i \in 1 .. Len(x) : x[i] = y[i]
  BY <1>1, <1>2, <1>3
<1>5. x = y
  BY <1>2, <1>3, <1>4, SeqEqual
<1> QED
  BY <1>1, <1>5 DEF u, x, y

\* Said and heard only grow.
Grows ==
    /\ \/ said' = said
       \/ \E m \in Messages : said' = Append(said, m)
    /\ \/ events' = events
       \/ \E e \in Heard : events' = Append(events, e)

LEMMA SaidStays ==
    ASSUME Types, Grows, NEW k \in 0 .. Len(said)
    PROVE  /\ k \in 0 .. Len(said') /\ Len(said) \in Nat /\ Len(said') \in Nat
           /\ \A i \in 1 .. Len(said) : said'[i] = said[i]
           /\ ToldTo(k)' = ToldTo(k)
           /\ PlainTo(k) => PlainTo(k)'
<1>1. CASE said' = said
  BY <1>1 DEF Types, ToldTo, PlainTo
<1>2. CASE \E m \in Messages : said' = Append(said, m)
  <2>1. PICK m \in Messages : said' = Append(said, m)
    BY <1>2
  <2>2. /\ Len(said') = Len(said) + 1 /\ Len(said) \in Nat
        /\ \A i \in 1 .. Len(said) : said'[i] = said[i]
        /\ SubSeq(said', 1, k) = SubSeq(said, 1, k)
    BY <2>1, Longer DEF Types
  <2>3. ToldTo(k)' = ToldTo(k)
    BY <2>2 DEF ToldTo
  <2>4. ASSUME PlainTo(k), NEW i \in 1 .. k
        PROVE  Plain(said'[i])
    <3>1. said'[i] = said[i]
      BY <2>2
    <3> QED
      BY <2>4, <3>1 DEF PlainTo
  <2>5. PlainTo(k) => PlainTo(k)'
    BY <2>4 DEF PlainTo
  <2> QED
    BY <2>2, <2>3, <2>5
<1> QED
  BY <1>1, <1>2 DEF Grows

LEMMA OutOfStepStays ==
    ASSUME Types, Grows, OutOfStep
    PROVE  OutOfStep'
<1>1. PICK k \in 0 .. Len(said) - 1 :
        PlainTo(k) /\ ~Plain(said[k + 1]) /\ IsPrefix(ToldTo(k), events)
  BY DEF OutOfStep
<1>2. k \in 0 .. Len(said) /\ k + 1 \in 1 .. Len(said) /\ Len(said) \in Nat
  BY DEF Types
<1>3. /\ ToldTo(k)' = ToldTo(k) /\ PlainTo(k)' /\ said'[k + 1] = said[k + 1]
      /\ k \in 0 .. Len(said') - 1
  <2>1. /\ ToldTo(k)' = ToldTo(k) /\ PlainTo(k)' /\ said'[k + 1] = said[k + 1]
    BY <1>1, <1>2, SaidStays
  <2>2. k + 1 \in 0 .. Len(said)
    BY <1>2
  <2>3. k + 1 \in 0 .. Len(said') /\ Len(said') \in Nat
    BY <2>2, SaidStays
  <2> QED
    BY <1>2, <2>1, <2>3
<1>4. IsPrefix(ToldTo(k), events')
  <2>1. CASE events' = events
    BY <1>1, <2>1
  <2>2. CASE \E e \in Heard : events' = Append(events, e)
    <3>1. PICK e \in Heard : events' = Append(events, e)
      BY <2>2
    <3>2. e \in Messages /\ events \in Seq(Messages)
      <4>1. Heard \subseteq Messages
        BY DEF Heard
      <4> QED
        BY <4>1, SeqMonotonic DEF Types
    <3>3. ToldTo(k) \in Seq(Messages)
      BY <1>2, ToldSteps DEF Types, ToldTo
    <3> QED
      BY <1>1, <3>1, <3>2, <3>3, PrefixOfMore
  <2> QED
    BY <2>1, <2>2 DEF Grows
<1>5. ~Plain(said'[k + 1]) /\ IsPrefix(ToldTo(k)', events')
  BY <1>1, <1>3, <1>4
<1> QED
  BY <1>3, <1>5 DEF OutOfStep

\* One more plain message, and what it tells.
LEMMA OneMore ==
    ASSUME Types, NEW k \in 0 .. Len(said) - 1, PlainTo(k), Plain(said[k + 1])
    PROVE  /\ PlainTo(k + 1)
           /\ ToldTo(k + 1) = More(ToldTo(k), said[k + 1])
           /\ k + 1 \in 0 .. Len(said)
<1>1. Len(said) \in Nat /\ k \in Nat
  BY DEF Types
<1>2. PlainTo(k + 1)
  <2>1. \A i \in 1 .. k + 1 : i = k + 1 \/ i \in 1 .. k
    BY <1>1
  <2> QED
    BY <2>1 DEF PlainTo
<1>3. ToldTo(k + 1) = More(ToldTo(k), said[k + 1])
  BY ToldSteps DEF ToldTo, Types
<1> QED
  BY <1>1, <1>2, <1>3

\* A message that is long is not plain.
LEMMA PlainSize ==
    ASSUME NEW m \in Messages, m.kind # "keepalive", Plain(m)
    PROVE  1 + Len(PayloadOf(m)) \in 1 .. MaxSize - 1
<1>1. Len(Encode(m)) = Width + 1 + Len(PayloadOf(m)) /\ Len(PayloadOf(m)) \in Nat
  BY MessageParts
<1>2. Len(Encode(m)) < Width + MaxSize
  BY DEF Plain
<1> DEFINE n == Len(PayloadOf(m))
           l == Len(Encode(m))
<1> HIDE DEF n, l
<1>3. l = Width + 1 + n /\ n \in Nat /\ l < Width + MaxSize
  BY <1>1, <1>2 DEF n, l
<1>4. 1 + n \in 1 .. MaxSize - 1
  BY <1>3, Constants
<1> QED
  BY <1>4 DEF n

\* The next message in the stream.
LEMMA NextInStream ==
    ASSUME Types, NEW tail, TailOf(tail), NEW k \in 0 .. Len(said) - 1
    PROVE  /\ said[k + 1] \in Messages
           /\ tail[k + 1] \in Seq(Byte)
           /\ tail[k] = Encode(said[k + 1]) \o tail[k + 1]
           /\ k + 1 \in 0 .. Len(said)
<1>1. Len(said) \in Nat /\ k + 1 \in 1 .. Len(said) /\ k + 1 \in 0 .. Len(said)
  BY DEF Types
<1> QED
  BY <1>1, ElementOfSeq DEF TailOf, Types

LEMMA LengthOfMessage ==
    ASSUME NEW m \in Messages, NEW rest \in Seq(Byte), Plain(m),
           stream = Encode(m) \o rest, ReadLength
    PROVE  \/ m.kind = "keepalive" /\ pc' = "length" /\ stream' = rest
           \/ /\ m.kind # "keepalive" /\ pc' = "type"
              /\ len' = 1 + Len(PayloadOf(m))
              /\ stream' = (<<TypeOf(m)>> \o PayloadOf(m)) \o rest
<1>1. CASE m.kind = "keepalive"
  <2> DEFINE n == Number(0)
  <2>1. Encode(m) = n /\ n \in Seq(Byte) /\ Len(n) = Width
    BY <1>1, NumberSeq DEF Encode
  <2>2. Value(n) = 0
    BY Sizes, Constants, NumberRead
  <2> HIDE DEF n
  <2>3. SubSeq(stream, 1, Width) = n /\ SubSeq(stream, Width + 1, Len(stream)) = rest
    BY <2>1, Cut
  <2>4. len' = 0 /\ stream' = rest
    BY <2>2, <2>3 DEF ReadLength, ReadExact, Taken
  <2> QED
    BY <1>1, <2>4 DEF ReadLength, InRange
<1>2. CASE m.kind # "keepalive"
  <2> DEFINE p == PayloadOf(m)
             n == Number(1 + Len(p))
             t == <<TypeOf(m)>> \o p
  <2>1. n \in Seq(Byte) /\ Len(n) = Width /\ t \in Seq(Byte) /\ Encode(m) = n \o t
    BY <1>2, MessageParts
  <2>2. 1 + Len(p) \in 1 .. MaxSize - 1
    BY <1>2, PlainSize
  <2>3. Value(n) = 1 + Len(p)
    <3>1. 1 + Len(p) \in Numbers
      <4>1. 1 + Len(p) \in 0 .. MaxSize - 1
        BY <2>2
      <4> QED
        BY <4>1, Sizes
    <3> QED
      BY <3>1, NumberRead
  <2> HIDE DEF n, t, p
  <2>4. stream = n \o (t \o rest) /\ t \o rest \in Seq(Byte)
    <3>1. n \in Seq(Byte) /\ t \in Seq(Byte)
      BY <2>1
    <3>2. (n \o t) \o rest = n \o (t \o rest)
      BY <3>1, ConcatAssociative
    <3>3. t \o rest \in Seq(Byte)
      BY <3>1, ConcatProperties
    <3> QED
      BY <2>1, <3>2, <3>3
  <2>5. SubSeq(stream, 1, Width) = n /\ SubSeq(stream, Width + 1, Len(stream)) = t \o rest
    <3> DEFINE u == t \o rest
    <3>1. stream = n \o u /\ u \in Seq(Byte) /\ n \in Seq(Byte) /\ Len(n) = Width
      BY <2>1, <2>4
    <3> HIDE DEF u
    <3>2. SubSeq(n \o u, 1, Len(n)) = n /\ SubSeq(n \o u, Len(n) + 1, Len(n \o u)) = u
      BY <3>1, Cut
    <3> QED
      BY <3>1, <3>2 DEF u
  <2>6. len' = 1 + Len(p) /\ stream' = t \o rest
    BY <2>3, <2>5 DEF ReadLength, ReadExact, Taken
  <2>7. pc' = "type"
    BY <2>2, <2>6, Constants DEF ReadLength, InRange
  <2> QED
    BY <1>2, <2>6, <2>7 DEF p, t
<1> QED
  BY <1>1, <1>2

LEMMA LengthInStep ==
    ASSUME Types, NEW tail, TailOf(tail), NEW k, Position(tail, k), ReadLength
    PROVE  InStep(tail)' \/ OutOfStep'
<1>1. /\ pc = "length" /\ stream = tail[k] /\ Len(stream) >= Width
      /\ k \in 0 .. Len(said) /\ Len(said) \in Nat
      /\ PlainTo(k) /\ events = ToldTo(k)
  BY Constants DEF Position, ReadLength, ReadExact, Left, Types
<1>2. k \in 0 .. Len(said) - 1
  <2>1. k # Len(said)
    BY <1>1, Constants DEF TailOf
  <2> QED
    BY <1>1, <2>1
<1> DEFINE m == said[k + 1]
           rest == tail[k + 1]
<1>3. m \in Messages /\ rest \in Seq(Byte) /\ stream = Encode(m) \o rest
  BY <1>1, <1>2, NextInStream
<1>4. /\ said' = said /\ events' = events /\ remote' = remote
      /\ hello' = hello /\ greeted' = greeted
  BY DEF ReadLength, history
<1>5. CASE ~Plain(m)
  <2>1. IsPrefix(ToldTo(k), events)
    <3>1. ToldTo(k) \in Seq(Messages)
      BY <1>1, ToldSteps DEF ToldTo, Types
    <3> QED
      BY <1>1, <3>1, PrefixOfItself
  <2>2. OutOfStep
    BY <1>1, <1>2, <1>5, <2>1 DEF OutOfStep
  <2> QED
    BY <1>4, <2>2 DEF OutOfStep, PlainTo, ToldTo
<1>6. CASE Plain(m)
  <2> HIDE DEF rest
  <2>1. \/ m.kind = "keepalive" /\ pc' = "length" /\ stream' = rest
        \/ /\ m.kind # "keepalive" /\ pc' = "type"
           /\ len' = 1 + Len(PayloadOf(m))
           /\ stream' = (<<TypeOf(m)>> \o PayloadOf(m)) \o rest
    <3> HIDE DEF m
    <3> QED
      BY <1>3, <1>6, LengthOfMessage
  <2>2. CASE m.kind = "keepalive"
    <3>1. PlainTo(k + 1) /\ ToldTo(k + 1) = More(ToldTo(k), m) /\ k + 1 \in 0 .. Len(said)
      BY <1>1, <1>2, <1>6, OneMore
    <3>2. ToldTo(k + 1) = events
      BY <1>1, <2>2, <3>1 DEF More, Tells
    <3>3. pc' = "length" /\ stream' = tail[k + 1]
      BY <2>1, <2>2 DEF rest
    <3>4. Position(tail, k + 1)'
      BY <1>4, <3>1, <3>2, <3>3 DEF Position, PlainTo, ToldTo, Left
    <3>5. k + 1 \in 0 .. Len(said')
      BY <1>4, <3>1
    <3> QED
      BY <3>4, <3>5 DEF InStep
  <2>3. CASE m.kind # "keepalive"
    <3>1. /\ pc' = "type" /\ len' = 1 + Len(PayloadOf(m))
          /\ stream' = (<<TypeOf(m)>> \o PayloadOf(m)) \o tail[k + 1]
      BY <2>1, <2>3 DEF rest
    <3>2. Within(k)'
      <4>1. k < Len(said)
        BY <1>1, <1>2
      <4> QED
        BY <1>4, <1>6, <2>3, <3>1, <4>1 DEF Within
    <3>3. PlainTo(k)' /\ events' = ToldTo(k)' /\ k \in 0 .. Len(said')
      BY <1>1, <1>4 DEF PlainTo, ToldTo
    <3>4. Left((<<TypeOf(said[k + 1])>> \o PayloadOf(said[k + 1])) \o tail[k + 1])'
      BY <1>4, <3>1 DEF Left
    <3>5. Position(tail, k)'
      BY <3>1, <3>2, <3>3, <3>4 DEF Position
    <3> QED
      BY <3>3, <3>5 DEF InStep
  <2> QED
    BY <2>2, <2>3
<1> QED
  BY <1>5, <1>6

\* A message that was read is told, or nobody listens any more.
LEMMA ToldInStep ==
    ASSUME Types, NEW tail, NEW k \in 0 .. Len(said) - 1,
           PlainTo(k), events = ToldTo(k), Plain(said[k + 1]), said' = said,
           Left(tail[k + 1])',
           \/ Tells(said[k + 1]) /\ Send(said[k + 1])
           \/ ~Tells(said[k + 1]) /\ events' = events /\ pc' = "length"
    PROVE  InStep(tail)'
<1> DEFINE m == said[k + 1]
<1>1. PlainTo(k + 1) /\ ToldTo(k + 1) = More(ToldTo(k), m) /\ k + 1 \in 0 .. Len(said)
  BY OneMore
<1>2. k \in 0 .. Len(said) /\ Len(said) \in Nat
  BY DEF Types
<1>3. CASE pc' = "length" /\ events' = ToldTo(k + 1)
  <2>1. Position(tail, k + 1)'
    BY <1>1, <1>3 DEF Position, PlainTo, ToldTo
  <2>2. k + 1 \in 0 .. Len(said')
    BY <1>1
  <2> QED
    BY <2>1, <2>2 DEF InStep
<1>4. CASE pc' = "ended" /\ events' = ToldTo(k)
  <2>1. Position(tail, k)'
    BY <1>2, <1>4 DEF Position, PlainTo, ToldTo
  <2> QED
    BY <1>2, <2>1 DEF InStep
<1>5. CASE Tells(m) /\ Send(m)
  BY <1>1, <1>3, <1>4, <1>5 DEF Send, More
<1>6. CASE ~Tells(m) /\ events' = events /\ pc' = "length"
  BY <1>1, <1>3, <1>6 DEF More
<1> QED
  BY <1>5, <1>6

\* The type of a message, and what becomes of it.
LEMMA TypeOfMessage ==
    ASSUME NEW m \in Messages, m.kind # "keepalive", Plain(m), NEW rest \in Seq(Byte),
           len = 1 + Len(PayloadOf(m)),
           stream = (<<TypeOf(m)>> \o PayloadOf(m)) \o rest, ReadType
    PROVE  /\ stream' = PayloadOf(m) \o rest
           /\ msg_type' = TypeOf(m)
           /\ \/ m.kind = "choked" /\ PayloadOf(m) = <<>> /\ Send(m)
              \/ m.kind \in WithPayload /\ pc' = "payload" /\ events' = events
              \/ /\ m.kind = "other" /\ PayloadOf(m) = <<>>
                 /\ pc' = "length" /\ events' = events
<1> DEFINE p == PayloadOf(m)
           t == <<TypeOf(m)>>
           u == p \o rest
<1>1. p \in Seq(Byte) /\ Len(p) \in Nat /\ TypeOf(m) \in Byte
  BY MessageParts
<1>2. t \in Seq(Byte) /\ Len(t) = 1 /\ t[1] = TypeOf(m)
  BY <1>1
<1>3. stream = t \o u /\ u \in Seq(Byte)
  <2> HIDE DEF t, p
  <2>0. t \in Seq(Byte) /\ p \in Seq(Byte)
    BY <1>1, <1>2
  <2>1. (t \o p) \o rest = t \o (p \o rest)
    BY <2>0, ConcatAssociative
  <2>2. p \o rest \in Seq(Byte)
    BY <2>0, ConcatProperties
  <2>3. stream = (t \o p) \o rest
    BY DEF t, p
  <2> QED
    BY <2>1, <2>2, <2>3
<1>4. stream[1] = TypeOf(m) /\ SubSeq(stream, 2, Len(stream)) = u
  <2> HIDE DEF t, u
  <2>0. t \in Seq(Byte) /\ u \in Seq(Byte)
    BY <1>2, <1>3
  <2>1. SubSeq(t \o u, Len(t) + 1, Len(t \o u)) = u
    BY <2>0, Cut
  <2>2. (t \o u)[1] = t[1]
    BY <1>2, <1>3, ConcatProperties
  <2> QED
    BY <1>2, <1>3, <2>1, <2>2
<1>5. stream' = u /\ msg_type' = TypeOf(m)
  BY <1>4 DEF ReadType, ReadExact
<1>6. (CASE len = 1 /\ msg_type' \in {0, 1} -> Send(Choked(msg_type' = 0))
         [] HasPayload(len - 1, msg_type') -> pc' = "payload" /\ UNCHANGED events
         [] OTHER -> pc' = "length" /\ UNCHANGED events)
  BY Zenon DEF ReadType
<1>7. len - 1 = Len(p)
  BY <1>1
<1> HIDE DEF p, u, t
<1>8. CASE m.kind = "choked"
  <2>1. p = <<>> /\ TypeOf(m) = (IF m.choked THEN 0 ELSE 1)
    BY <1>8 DEF p, PayloadOf, TypeOf
  <2>2. len - 1 = 0 /\ len = 1 /\ msg_type' \in {0, 1}
    <3>1. Len(p) = 0
      BY <2>1
    <3> QED
      BY <1>5, <1>7, <2>1, <3>1 DEF p
  <2>3. ~HasPayload(len - 1, msg_type')
    BY <2>2, Constants DEF HasPayload
  <2>4. Send(Choked(msg_type' = 0))
    BY <1>6, <2>2, <2>3, Zenon
  <2>5. m.choked \in BOOLEAN /\ m = Choked(m.choked)
    BY <1>8, Kinds
  <2>6. (msg_type' = 0) = m.choked
    BY <1>5, <2>1, <2>5
  <2>7. Send(m)
    BY <2>4, <2>5, <2>6, Zenon
  <2> QED
    BY <1>5, <1>8, <2>1, <2>7 DEF p, u
<1>9. CASE m.kind \in WithPayload
  <2>1. HasPayload(len - 1, msg_type')
    <3>1. CASE m.kind = "have"
      <4>1. TypeOf(m) = 4 /\ p = Number(m.index) /\ m.index \in Nat
        BY <3>1, Kinds, NumbersAreNat DEF p, PayloadOf, TypeOf
      <4>2. Len(p) = Width
        BY <4>1, NumberSeq
      <4> QED
        BY <1>5, <1>7, <4>1, <4>2 DEF HasPayload
    <3>2. CASE m.kind = "bitfield"
      BY <1>5, <3>2 DEF HasPayload, TypeOf
    <3>3. CASE m.kind = "block"
      <4>1. /\ TypeOf(m) = 7 /\ p = Number(m.index) \o Number(m.begin) \o m.data
            /\ m.index \in Nat /\ m.begin \in Nat /\ m.data \in Seq(Byte)
        BY <3>3, Kinds, NumbersAreNat DEF p, PayloadOf, TypeOf
      <4> DEFINE x == Number(m.index)
                 y == Number(m.begin)
                 z == m.data
      <4>2. x \in Seq(Byte) /\ Len(x) = Width /\ y \in Seq(Byte) /\ Len(y) = Width
        BY <4>1, NumberSeq
      <4>3. z \in Seq(Byte) /\ Len(z) \in Nat /\ p = x \o y \o z
        BY <4>1
      <4> HIDE DEF x, y, z
      <4>4. x \o y \in Seq(Byte) /\ Len(x \o y) = Width + Width
        <5>1. x \in Seq(Byte) /\ y \in Seq(Byte)
          BY <4>2
        <5>2. x \o y \in Seq(Byte) /\ Len(x \o y) = Len(x) + Len(y)
          BY <5>1, ConcatProperties
        <5> QED
          BY <4>2, <5>2
      <4>5. Len(p) = (Width + Width) + Len(z)
        BY <4>3, <4>4, ConcatProperties
      <4>6. Len(p) >= 2 * Width
        BY <4>3, <4>5, Constants
      <4> QED
        BY <1>5, <1>7, <4>1, <4>6 DEF HasPayload
    <3> QED
      BY <1>9, <3>1, <3>2, <3>3 DEF WithPayload
  <2>2. ~(len = 1 /\ msg_type' \in {0, 1})
    <3>1. TypeOf(m) \in {4, 5, 7}
      BY <1>9 DEF TypeOf, WithPayload
    <3> QED
      BY <1>5, <3>1
  <2>3. pc' = "payload" /\ events' = events
    BY <1>6, <2>1, <2>2
  <2> QED
    BY <1>5, <1>9, <2>3 DEF p, u
<1>10. CASE m.kind = "other"
  <2>1. p = <<>> /\ TypeOf(m) \notin {0, 1, 5}
    BY <1>10 DEF p, PayloadOf, TypeOf, Plain
  <2>2. len - 1 = 0
    <3>1. Len(p) = 0
      BY <2>1
    <3> QED
      BY <1>7, <3>1
  <2>3. ~HasPayload(len - 1, msg_type') /\ msg_type' \notin {0, 1}
    BY <1>5, <2>1, <2>2, Constants DEF HasPayload
  <2>4. pc' = "length" /\ events' = events
    BY <1>6, <2>3
  <2> QED
    BY <1>5, <1>10, <2>1, <2>4 DEF p, u
<1> QED
  BY <1>8, <1>9, <1>10, Kinds DEF WithPayload

LEMMA TypeInStep ==
    ASSUME Types, NEW tail, TailOf(tail), NEW k, Position(tail, k), ReadType
    PROVE  InStep(tail)'
<1> DEFINE m == said[k + 1]
           rest == tail[k + 1]
<1>1. /\ pc = "type" /\ k \in 0 .. Len(said) - 1 /\ k \in 0 .. Len(said)
      /\ PlainTo(k) /\ events = ToldTo(k) /\ Plain(m) /\ m.kind # "keepalive"
      /\ len = 1 + Len(PayloadOf(m)) /\ Left((<<TypeOf(m)>> \o PayloadOf(m)) \o rest)
      /\ Len(stream) >= 1
  BY DEF Position, Within, ReadType, ReadExact, Types
<1>2. m \in Messages /\ rest \in Seq(Byte)
  BY <1>1, NextInStream
<1>3. stream = (<<TypeOf(m)>> \o PayloadOf(m)) \o rest
  <2> DEFINE q == (<<TypeOf(m)>> \o PayloadOf(m)) \o rest
  <2>1. Left(q) /\ stream # <<>>
    BY <1>1
  <2> HIDE DEF q
  <2>2. stream = q
    BY <2>1 DEF Left
  <2> QED
    BY <2>2 DEF q
<1>4. /\ said' = said /\ remote' = remote /\ len' = len
  BY DEF ReadType, history
<1> DEFINE p == PayloadOf(m)
<1>5. /\ stream' = p \o rest
      /\ msg_type' = TypeOf(m)
      /\ \/ m.kind = "choked" /\ p = <<>> /\ Send(m)
         \/ m.kind \in WithPayload /\ pc' = "payload" /\ events' = events
         \/ m.kind = "other" /\ p = <<>> /\ pc' = "length" /\ events' = events
  <2> HIDE DEF m, rest
  <2> QED
    BY <1>1, <1>2, <1>3, TypeOfMessage
<1>6. p = <<>> => stream' = rest
  BY <1>2, <1>5
<1>7. CASE m.kind \in {"choked", "other"}
  <2>1. \/ Tells(m) /\ Send(m)
        \/ ~Tells(m) /\ events' = events /\ pc' = "length"
    BY <1>5, <1>7 DEF Tells, WithPayload
  <2>2. Left(tail[k + 1])'
    BY <1>5, <1>6, <1>7 DEF Left, WithPayload
  <2> HIDE DEF rest, p
  <2> QED
    BY <1>1, <1>4, <2>1, <2>2, ToldInStep
<1>8. CASE m.kind \in WithPayload
  <2>1. pc' = "payload" /\ events' = events
    BY <1>5, <1>8 DEF WithPayload
  <2>2. Within(k)'
    BY <1>1, <1>4 DEF Within
  <2>3. Left(p \o rest)'
    BY <1>4, <1>5 DEF Left
  <2>4. PlainTo(k)' /\ ToldTo(k)' = ToldTo(k)
    BY <1>1, <1>4 DEF PlainTo, ToldTo
  <2>5. Position(tail, k)'
    BY <1>1, <1>4, <1>5, <1>8, <2>1, <2>2, <2>3, <2>4 DEF Position
  <2> QED
    BY <1>1, <1>4, <2>5 DEF InStep
<1> QED
  BY <1>2, <1>1, <1>7, <1>8, Kinds DEF WithPayload

\* A piece is cut out of the middle.
LEMMA CutMiddle ==
    ASSUME NEW S, NEW a \in Seq(S), NEW b \in Seq(S), NEW c \in Seq(S)
    PROVE  SubSeq((a \o b) \o c, Len(a) + 1, Len(a) + Len(b)) = b
<1> DEFINE ab == a \o b
           s == ab \o c
           x == SubSeq(s, Len(a) + 1, Len(a) + Len(b))
<1>1. /\ ab \in Seq(S) /\ Len(ab) = Len(a) + Len(b) /\ Len(a) \in Nat /\ Len(b) \in Nat
      /\ \A i \in 1 .. Len(b) : ab[Len(a) + i] = b[i]
  BY ConcatProperties
<1> HIDE DEF ab
<1>2. /\ s \in Seq(S) /\ \A i \in 1 .. Len(ab) : s[i] = ab[i] /\ s[i] \in S
  BY <1>1, ConcatProperties, ElementOfSeq
<1> HIDE DEF s
<1>3. \A i \in Len(a) + 1 .. Len(a) + Len(b) : s[i] \in S
  BY <1>1, <1>2
<1>4. x \in Seq(S) /\ Len(x) = Len(b) /\ \A i \in 1 .. Len(b) : x[i] = s[Len(a) + i]
  BY <1>1, <1>3, SubSeqProperties
<1>5. \A i \in 1 .. Len(b) : x[i] = b[i]
  <2> HIDE DEF x
  <2> QED
    BY <1>1, <1>2, <1>4
<1> HIDE DEF x
<1>6. x = b
  BY <1>4, <1>5, SeqEqual
<1> QED
  BY <1>6 DEF x, s, ab

\* What the payload of a plain message is read as.
LEMMA PayloadOfMessage ==
    ASSUME NEW m \in Messages, m.kind \in WithPayload, Plain(m),
           msg_type = TypeOf(m), Payload(PayloadOf(m))
    PROVE  Send(m)
<1> DEFINE p == PayloadOf(m)
<1>1. CASE m.kind = "have"
  <2>1. /\ TypeOf(m) = 4 /\ p = Number(m.index) /\ m.index \in Numbers /\ m = Have(m.index)
        /\ m.index \in Pieces
    BY <1>1, Kinds DEF PayloadOf, TypeOf, Plain
  <2>2. Value(p) = m.index
    BY <2>1, NumberRead
  <2>3. Send(Have(Value(p)))
    BY <2>1, <2>2 DEF Payload
  <2> QED
    BY <2>1, <2>2, <2>3
<1>2. CASE m.kind = "bitfield"
  <2>1. /\ TypeOf(m) = 5 /\ p = PiecesBytes(m.pieces) /\ m.pieces \in SUBSET Pieces
        /\ m = Bitfield(m.pieces)
    BY <1>2, Kinds DEF PayloadOf, TypeOf
  <2>2. p \in [1 .. BitfieldBytes -> Byte] /\ BitfieldOf(p) = m.pieces
    BY <2>1, BitfieldRead
  <2>3. ~BitfieldPanics(p)
    <3>1. Len(p) = BitfieldBytes
      BY <2>2, BitfieldLength
    <3> QED
      BY <3>1, BitfieldLength DEF BitfieldPanics
  <2>4. Send(Bitfield(BitfieldOf(p)))
    BY <2>1, <2>3 DEF Payload
  <2> QED
    BY <2>1, <2>2, <2>4
<1>3. CASE m.kind = "block"
  <2> DEFINE x == Number(m.index)
             y == Number(m.begin)
             z == m.data
  <2>1. /\ TypeOf(m) = 7 /\ p = (x \o y) \o z /\ m.index \in Numbers /\ m.begin \in Numbers
        /\ z \in Seq(Byte) /\ m = Block(m.index, m.begin, z)
    BY <1>3, Kinds DEF PayloadOf, TypeOf
  <2>2. x \in Seq(Byte) /\ y \in Seq(Byte) /\ Len(x) = Width /\ Len(y) = Width
    BY <2>1, NumberSeq, NumbersAreNat
  <2>3. Value(x) = m.index /\ Value(y) = m.begin
    BY <2>1, NumberRead
  <2> HIDE DEF p, x, y, z
  <2>4. SubSeq(p, 1, Width) = x
    <3> DEFINE yz == y \o z
    <3>1. x \in Seq(Byte) /\ y \in Seq(Byte) /\ z \in Seq(Byte)
      BY <2>1, <2>2
    <3>2. (x \o y) \o z = x \o yz /\ yz \in Seq(Byte)
      BY <3>1, ConcatAssociative, ConcatProperties
    <3> HIDE DEF yz
    <3>3. SubSeq(x \o yz, 1, Len(x)) = x
      BY <3>1, <3>2, Cut
    <3> QED
      BY <2>1, <2>2, <3>2, <3>3
  <2>5. SubSeq(p, Width + 1, 2 * Width) = y
    <3>1. x \in Seq(Byte) /\ y \in Seq(Byte) /\ z \in Seq(Byte)
      BY <2>1, <2>2
    <3>2. SubSeq((x \o y) \o z, Len(x) + 1, Len(x) + Len(y)) = y
      BY <3>1, CutMiddle
    <3>3. Len(x) + 1 = Width + 1 /\ Len(x) + Len(y) = 2 * Width
      BY <2>2, Constants
    <3> QED
      BY <2>1, <3>2, <3>3
  <2>6. SubSeq(p, 2 * Width + 1, Len(p)) = z
    <3> DEFINE xy == x \o y
    <3>0. x \in Seq(Byte) /\ y \in Seq(Byte)
      BY <2>2
    <3>1. xy \in Seq(Byte) /\ Len(xy) = Len(x) + Len(y)
      BY <3>0, ConcatProperties
    <3>2. z \in Seq(Byte) /\ p = xy \o z
      BY <2>1
    <3> HIDE DEF xy
    <3>3. SubSeq(xy \o z, Len(xy) + 1, Len(xy \o z)) = z
      BY <3>1, <3>2, Cut
    <3>4. Len(xy) = 2 * Width
      BY <2>2, <3>1, Constants
    <3> QED
      BY <3>2, <3>3, <3>4
  <2>7. BlockOf(p) = m
    BY <2>1, <2>3, <2>4, <2>5, <2>6 DEF BlockOf
  <2>8. Send(BlockOf(p))
    BY <2>1 DEF Payload, p
  <2> QED
    BY <2>7, <2>8
<1> QED
  BY <1>1, <1>2, <1>3 DEF WithPayload

LEMMA PayloadInStep ==
    ASSUME Types, NEW tail, TailOf(tail), NEW k, Position(tail, k), ReadPayload
    PROVE  InStep(tail)'
<1> DEFINE m == said[k + 1]
           rest == tail[k + 1]
           p == PayloadOf(m)
<1>1. /\ pc = "payload" /\ k \in 0 .. Len(said) - 1 /\ k \in 0 .. Len(said)
      /\ PlainTo(k) /\ events = ToldTo(k) /\ Plain(m) /\ m.kind \in WithPayload
      /\ msg_type = TypeOf(m) /\ len = 1 + Len(p) /\ Left(p \o rest)
  BY DEF Position, Within, ReadPayload, Types
<1>2. m \in Messages /\ rest \in Seq(Byte)
  BY <1>1, NextInStream
<1>3. m.kind # "keepalive"
  BY <1>1 DEF WithPayload
<1>4. p \in Seq(Byte) /\ Len(p) \in Nat
  BY <1>2, <1>3, MessageParts
<1>5. len - 1 = Len(p)
  BY <1>1, <1>4
<1>6. Taken(len - 1) = p /\ Left(rest)'
  <2> HIDE DEF p, rest
  <2>1. remote' = remote
    BY DEF ReadPayload
  <2>2. CASE stream = p \o rest
    <3>1. SubSeq(p \o rest, 1, Len(p)) = p
          /\ SubSeq(p \o rest, Len(p) + 1, Len(p \o rest)) = rest
      BY <1>2, <1>4, Cut
    <3> QED
      BY <1>5, <2>2, <3>1 DEF ReadPayload, ReadExact, Taken, Left
  <2>3. CASE remote = "reset" /\ stream = <<>> \* no piece, and an empty bitfield
    <3>1. Len(p) = 0
      BY <1>4, <1>5, <2>3 DEF ReadPayload, ReadExact
    <3>2. p = <<>>
      BY <1>4, <3>1
    <3>3. Taken(len - 1) = <<>> /\ stream' = <<>>
      BY <1>5, <2>3, <3>1 DEF ReadPayload, ReadExact, Taken
    <3> QED
      BY <2>1, <2>3, <3>2, <3>3 DEF Left
  <2> QED
    BY <1>1, <2>2, <2>3 DEF Left
<1>7. Payload(p)
  <2> HIDE DEF p
  <2> QED
    BY <1>6 DEF ReadPayload
<1>8. Send(m)
  BY <1>1, <1>2, <1>7, PayloadOfMessage
<1>9. said' = said /\ Tells(m)
  BY <1>1 DEF ReadPayload, history, WithPayload, Tells
<1> QED
  BY <1>1, <1>6, <1>8, <1>9, ToldInStep

-----------------------------------------------------------------------------
(* The inductive invariant *)

LEMMA NextGrows ==
    ASSUME Types, [Next]_vars
    PROVE  Grows
<1>1. CASE UNCHANGED vars
  BY <1>1 DEF Grows, vars, history
<1>2. CASE \E n \in 0 .. Len(OurHandshake) : ReadHandshake(n)
  BY <1>2 DEF Grows, ReadHandshake
<1>3. CASE HandshakeFails
  BY <1>3 DEF Grows, HandshakeFails, history
<1>4. CASE ReadLength
  BY <1>4 DEF Grows, ReadLength, history
<1>5. CASE ReadType
  <2>1. \/ \E e \in Heard : Send(e)
        \/ events' = events
    <3>0. (CASE len = 1 /\ msg_type' \in {0, 1} -> Send(Choked(msg_type' = 0))
             [] HasPayload(len - 1, msg_type') -> pc' = "payload" /\ UNCHANGED events
             [] OTHER -> pc' = "length" /\ UNCHANGED events)
      BY <1>5, Zenon DEF ReadType
    <3>1. CASE len = 1 /\ msg_type' \in {0, 1}
      <4>1. ~HasPayload(len - 1, msg_type')
        BY <3>1, Constants DEF HasPayload
      <4>2. Send(Choked(msg_type' = 0))
        BY <3>0, <3>1, <4>1, Zenon
      <4>3. Choked(msg_type' = 0) \in Heard
        BY ChokedHeard
      <4> QED
        BY <4>2, <4>3
    <3>2. CASE ~(len = 1 /\ msg_type' \in {0, 1})
      BY <3>0, <3>2
    <3> QED
      BY <3>1, <3>2
  <2>2. \/ events' = events
        \/ \E e \in Heard : events' = Append(events, e)
    BY <2>1 DEF Send
  <2> QED
    BY <1>5, <2>2 DEF Grows, ReadType, history
<1>6. CASE ReadPayload
  <2> DEFINE bytes == Taken(len - 1)
  <2>1. len - 1 \in Nat /\ pc = "payload"
    BY <1>6, Constants DEF ReadPayload, Types
  <2>2. bytes \in Seq(Byte) /\ Len(bytes) = len - 1
    BY <1>6, <2>1, Exactly DEF ReadPayload
  <2>3. Payload(bytes)
    BY <1>6 DEF ReadPayload
  <2> HIDE DEF bytes
  <2>4. \/ \E e \in Heard : Send(e)
        \/ events' = events
    BY <2>1, <2>2, <2>3, PayloadHeard
  <2>5. \/ events' = events
        \/ \E e \in Heard : events' = Append(events, e)
    BY <2>4 DEF Send
  <2> QED
    BY <1>6, <2>5 DEF Grows, ReadPayload, history
<1>7. CASE ListenerEnds
  BY <1>7 DEF Grows, ListenerEnds, history
<1>8. CASE \E hash \in Hashes : SayHello(hash)
  BY <1>8 DEF Grows, SayHello
<1>9. CASE \E m \in Said : Say(m)
  <2>1. Said \subseteq Messages
    BY WireAssumption
  <2> QED
    BY <1>9, <2>1 DEF Grows, Say
<1>10. CASE Close \/ Reset \/ StopListening
  BY <1>10 DEF Grows, Close, Reset, StopListening, history
<1> QED
  BY <1>1, <1>2, <1>3, <1>4, <1>5, <1>6, <1>7, <1>8, <1>9, <1>10
  DEF Next, ThreadStep, RemoteStep

LEMMA HandshakeInStep ==
    ASSUME Types, NEW tail, TailOf(tail), Start(tail),
           NEW n \in 0 .. 3, ReadHandshake(n), Greeted'
    PROVE  InStep(tail)'
<1>1. n = 3 /\ 3 <= Len(stream)
  BY HandshakeIs DEF ReadHandshake, Greeted
<1>2. stream # <<>>
  BY <1>1
<1>3. events = <<>> /\ \E h \in Hashes : hello = {h} /\ stream = Handshake(h, 2) \o tail[0]
  BY <1>2 DEF ReadHandshake, Start
<1>4. PICK h \in Hashes : hello = {h} /\ stream = Handshake(h, 2) \o tail[0]
  BY <1>3
<1> DEFINE a == Handshake(h, 2)
           rest == tail[0]
<1>5. a \in Seq(Byte) /\ Len(a) = 3 /\ a[2] = h
  BY HandshakeIs
<1>6. rest \in Seq(Byte) /\ 0 \in 0 .. Len(said)
  BY DEF TailOf, Types
<1> HIDE DEF a, rest
<1>7. SubSeq(a \o rest, 1, 3) = a /\ SubSeq(a \o rest, 3 + 1, Len(a \o rest)) = rest
  <2>0. a \in Seq(Byte) /\ rest \in Seq(Byte)
    BY <1>5, <1>6
  <2>1. /\ SubSeq(a \o rest, 1, Len(a)) = a
        /\ SubSeq(a \o rest, Len(a) + 1, Len(a \o rest)) = rest
    BY <2>0, Cut
  <2>2. Len(a) = 3
    BY <1>5
  <2> QED
    BY <2>1, <2>2, Zenon
<1>8. stream = a \o rest
  BY <1>4 DEF a, rest
<1>9. stream' = rest /\ SubSeq(stream, 1, 3) = a
  BY <1>1, <1>7, <1>8 DEF ReadHandshake
<1>10. Buffer(3)[HashAt] = h
  <2>1. SubSeq(OurHandshake, 3 + 1, Len(OurHandshake)) = <<>>
    BY HandshakeIs
  <2>2. Buffer(3) = a \o <<>>
    BY <1>9, <2>1 DEF Buffer
  <2>3. a \o <<>> = a
    BY <1>5, ConcatEmptySeq
  <2> QED
    BY <1>5, <2>2, <2>3 DEF HashAt
<1>11. \/ pc' = "panicked" /\ h # OurHash
       \/ pc' = "length"
       \/ pc' = "ended"
  BY <1>1, <1>10 DEF ReadHandshake, Accepted
<1>12. /\ said' = said /\ events' = events /\ hello' = hello
  BY DEF ReadHandshake
<1>13. ToldTo(0) = <<>> /\ PlainTo(0)
  BY ToldSteps DEF ToldTo, PlainTo, Types
<1>14. h # OurHash => hello' # {OurHash}
  BY <1>4, <1>12
<1>15. Left(tail[0])'
  BY <1>9 DEF Left, rest
<1>16. PlainTo(0)' /\ events' = ToldTo(0)' /\ 0 \in 0 .. Len(said')
  BY <1>3, <1>6, <1>12, <1>13 DEF PlainTo, ToldTo
<1>17. Position(tail, 0)'
  BY <1>11, <1>14, <1>15, <1>16 DEF Position
<1> QED
  BY <1>16, <1>17 DEF InStep

\* Steps that read nothing.
LEMMA StillInStep ==
    ASSUME Types, NEW tail, InStep(tail),
           said' = said, events' = events, hello' = hello, len' = len, msg_type' = msg_type,
           pc' \in {pc, "ended"}, stream' \in {stream, <<>>},
           stream' = stream => (remote = "reset" => remote' = "reset"),
           stream' # stream => remote' = "reset"
    PROVE  InStep(tail)'
<1>1. PICK k \in 0 .. Len(said) : Position(tail, k)
  BY DEF InStep
<1>2. \A bytes : Left(bytes) => Left(bytes)'
  BY DEF Left
<1>3. PlainTo(k)' /\ events' = ToldTo(k)' /\ k \in 0 .. Len(said')
  BY <1>1 DEF Position, PlainTo, ToldTo
<1>4. CASE pc' = "ended"
  BY <1>3, <1>4 DEF Position, InStep
<1>5. CASE pc' = pc
  <2>1. Within(k) => Within(k)'
    BY DEF Within
  <2>2. Left(tail[k]) => Left(tail[k])'
    BY <1>2
  <2> DEFINE t == (<<TypeOf(said[k + 1])>> \o PayloadOf(said[k + 1])) \o tail[k + 1]
             p == PayloadOf(said[k + 1]) \o tail[k + 1]
  <2>3. Left(t) => Left(t)'
    BY DEF Left
  <2>4. Left(p) => Left(p)'
    BY DEF Left
  <2>5. Position(tail, k)'
    BY <1>1, <1>3, <1>5, <2>1, <2>2, <2>3, <2>4 DEF Position
  <2> QED
    BY <1>3, <2>5 DEF InStep
<1> QED
  BY <1>4, <1>5

\* The stream after one more message.
LEMMA SayInStep ==
    ASSUME Types, NEW tail, TailOf(tail), Start(tail), Greeted => InStep(tail) \/ OutOfStep,
           NEW m \in Messages, Say(m)
    PROVE  Synchronised'
<1> DEFINE n == Len(said)
           E == Encode(m)
<1>0. PICK new : new = [k \in 0 .. n + 1 |-> IF k = n + 1 THEN <<>> ELSE tail[k] \o E]
  OBVIOUS
<1>1. /\ remote = "speaking" /\ said' = Append(said, m) /\ stream' = stream \o E
      /\ UNCHANGED <<pc, len, msg_type, remote, listened, events, hello, greeted>>
  BY DEF Say
<1>2. /\ n \in Nat /\ Len(said') = n + 1 /\ said'[n + 1] = m
      /\ \A i \in 1 .. n : said'[i] = said[i]
  BY <1>1, AppendProperties DEF Types
<1>3. E \in Seq(Byte) /\ stream \in Seq(Byte)
  BY EncodeBytes DEF Types
<1>4. /\ \A k \in 0 .. n : tail[k] \in Seq(Byte)
      /\ tail[n] = <<>>
      /\ \A k \in 0 .. n - 1 : tail[k] = Encode(said[k + 1]) \o tail[k + 1]
  BY DEF TailOf
<1>5. new[n + 1] = <<>> /\ \A k \in 0 .. n : new[k] = tail[k] \o E
  <2> HIDE DEF n, E
  <2> QED
    BY <1>0, <1>2
<1> HIDE DEF E, n
<1>6. \A x \in Seq(Byte), k \in 0 .. n : (x \o tail[k]) \o E = x \o new[k]
  <2>1. ASSUME NEW x \in Seq(Byte), NEW k \in 0 .. n
        PROVE  (x \o tail[k]) \o E = x \o new[k]
    <3> DEFINE y == tail[k]
    <3>1. y \in Seq(Byte) /\ E \in Seq(Byte)
      BY <1>3, <1>4
    <3> HIDE DEF y
    <3>2. (x \o y) \o E = x \o (y \o E)
      BY <3>1, ConcatAssociative
    <3> QED
      BY <1>5, <3>2 DEF y
  <2> QED
    BY <2>1
<1>7. TailOf(new)'
  <2>1. \A k \in 0 .. n + 1 : new[k] \in Seq(Byte)
    <3>1. \A k \in 0 .. n : new[k] \in Seq(Byte)
      BY <1>3, <1>4, <1>5, ConcatProperties
    <3>2. new[n + 1] \in Seq(Byte)
      BY <1>5
    <3>3. \A k \in 0 .. n + 1 : k = n + 1 \/ k \in 0 .. n
      BY <1>2
    <3> QED
      BY <3>1, <3>2, <3>3, Zenon
  <2>2. \A k \in 0 .. n - 1 : new[k] = Encode(said'[k + 1]) \o new[k + 1]
    <3>1. ASSUME NEW k \in 0 .. n - 1
          PROVE  new[k] = Encode(said'[k + 1]) \o new[k + 1]
      <4>1. k \in 0 .. n /\ k + 1 \in 0 .. n /\ k + 1 \in 1 .. n
        BY <1>2
      <4>2. said[k + 1] \in Messages /\ said'[k + 1] = said[k + 1]
        BY <1>2, <4>1, ElementOfSeq DEF Types, n
      <4> DEFINE x == Encode(said[k + 1])
      <4>3. x \in Seq(Byte)
        BY <4>2, EncodeBytes
      <4>4. tail[k] = x \o tail[k + 1]
        BY <1>4
      <4> HIDE DEF x
      <4>5. new[k] = x \o new[k + 1]
        BY <1>5, <1>6, <4>1, <4>3, <4>4
      <4> QED
        BY <4>2, <4>5 DEF x
    <3> QED
      BY <3>1
  <2>3. new[n] = Encode(said'[n + 1]) \o new[n + 1]
    <3>1. n \in 0 .. n
      BY <1>2
    <3>2. new[n] = <<>> \o E
      BY <1>4, <1>5, <3>1
    <3>3. <<>> \o E = E /\ E \o <<>> = E
      BY <1>3, ConcatEmptySeq
    <3> QED
      BY <1>2, <1>5, <3>2, <3>3 DEF E
  <2>4. \A k \in 0 .. (n + 1) - 1 : new[k] = Encode(said'[k + 1]) \o new[k + 1]
    <3>1. \A k \in 0 .. (n + 1) - 1 : k = n \/ k \in 0 .. n - 1
      BY <1>2
    <3> QED
      BY <2>2, <2>3, <3>1
  <2> QED
    BY <1>2, <1>5, <2>1, <2>4 DEF TailOf
<1>8. Start(new)'
  <2>1. CASE pc = "handshake"
    <3>1. events = <<>> /\ greeted = 0
      BY <2>1 DEF Start
    <3>2. PICK h \in Hashes : hello = {h} /\ stream = Handshake(h, 2) \o tail[0]
      BY <1>1, <2>1 DEF Start
    <3>3. Handshake(h, 2) \in Seq(Byte) /\ 0 \in 0 .. n
      BY <1>2, HandshakeIs
    <3>4. stream' = Handshake(h, 2) \o new[0]
      BY <1>1, <1>6, <3>2, <3>3
    <3> QED
      BY <1>1, <3>1, <3>2, <3>4 DEF Start
  <2>2. CASE pc # "handshake"
    BY <1>1, <2>2 DEF Start
  <2> QED
    BY <2>1, <2>2
<1>9. ASSUME InStep(tail)
      PROVE  InStep(new)'
  <2>1. PICK k \in 0 .. n : Position(tail, k)
    BY <1>9 DEF InStep, n
  <2>2. /\ k \in 0 .. Len(said') /\ PlainTo(k)' /\ events' = ToldTo(k)'
        /\ \A i \in 1 .. n : said'[i] = said[i]
    <3>1. Grows
      BY <1>1 DEF Grows
    <3>2. PlainTo(k) /\ events = ToldTo(k) /\ k \in 0 .. Len(said)
      BY <2>1 DEF Position, n
    <3>3. PlainTo(k)' /\ ToldTo(k)' = ToldTo(k) /\ k \in 0 .. Len(said')
      BY <3>1, <3>2, SaidStays
    <3> QED
      BY <1>1, <1>2, <3>2, <3>3
  <2>3. CASE pc \in {"ended", "panicked"}
    BY <1>1, <2>1, <2>2, <2>3 DEF Position, InStep
  <2>4. CASE pc = "length"
    <3>1. stream = tail[k]
      BY <1>1, <2>1, <2>4 DEF Position, Left
    <3>2. stream' = new[k]
      BY <1>1, <1>5, <3>1
    <3> QED
      BY <1>1, <2>2, <2>4, <3>2 DEF Position, InStep, Left
  <2>5. CASE pc \in {"type", "payload"}
    <3>1. Within(k) /\ k < n
      BY <2>1, <2>5 DEF Position, Within, n
    <3>2. k + 1 \in 0 .. n /\ k + 1 \in 1 .. n /\ k < Len(said')
      BY <1>2, <3>1
    <3>3. said[k + 1] \in Messages /\ said'[k + 1] = said[k + 1]
      BY <1>2, <3>2, ElementOfSeq DEF Types, n
    <3>4. Within(k)'
      BY <1>1, <3>1, <3>2, <3>3 DEF Within
    <3> DEFINE p == PayloadOf(said[k + 1])
               t == <<TypeOf(said[k + 1])>> \o p
    <3>5. p \in Seq(Byte) /\ t \in Seq(Byte)
      BY <3>1, <3>3, MessageParts DEF Within
    <3>6. CASE pc = "type"
      <4>1. stream = t \o tail[k + 1]
        BY <1>1, <2>1, <3>6 DEF Position, Left
      <4>2. stream' = t \o new[k + 1]
        <5> HIDE DEF t
        <5> QED
          BY <1>1, <1>6, <3>2, <3>5, <4>1
      <4>3. Left((<<TypeOf(said[k + 1])>> \o PayloadOf(said[k + 1])) \o new[k + 1])'
        BY <3>3, <4>2 DEF Left
      <4>4. Position(new, k)'
        BY <1>1, <2>2, <3>4, <3>6, <4>3 DEF Position
      <4> QED
        BY <2>2, <4>4 DEF InStep
    <3>7. CASE pc = "payload"
      <4>1. stream = p \o tail[k + 1] /\ said[k + 1].kind \in WithPayload /\ msg_type = TypeOf(said[k + 1])
        BY <1>1, <2>1, <3>7 DEF Position, Left
      <4>2. stream' = p \o new[k + 1]
        <5> HIDE DEF p
        <5> QED
          BY <1>1, <1>6, <3>2, <3>5, <4>1
      <4>3. Left(PayloadOf(said[k + 1]) \o new[k + 1])'
        BY <3>3, <4>2 DEF Left
      <4>4. /\ said'[k + 1].kind \in WithPayload /\ msg_type' = TypeOf(said'[k + 1])
        BY <1>1, <3>3, <4>1
      <4>5. Position(new, k)'
        BY <1>1, <2>2, <3>4, <3>7, <4>3, <4>4 DEF Position
      <4> QED
        BY <2>2, <4>5 DEF InStep
    <3> QED
      BY <2>5, <3>6, <3>7
  <2> QED
    BY <2>1, <2>3, <2>4, <2>5 DEF Position
<1>10. OutOfStep => OutOfStep'
  <2>1. Grows
    BY <1>1 DEF Grows
  <2> QED
    BY <2>1, OutOfStepStays
<1>11. Greeted' = Greeted
  BY <1>1 DEF Greeted
<1> QED
  BY <1>7, <1>8, <1>9, <1>10, <1>11 DEF Synchronised

LEMMA StepInStep ==
    ASSUME Types, NEW tail, TailOf(tail), Start(tail), Greeted => InStep(tail) \/ OutOfStep,
           [Next]_vars, said' = said
    PROVE  TailOf(tail)' /\ Start(tail)' /\ (Greeted' => InStep(tail)' \/ OutOfStep')
<1>1. TailOf(tail)'
  BY DEF TailOf
<1>2. ASSUME Greeted, OutOfStep
      PROVE  OutOfStep'
  BY <1>2, NextGrows, OutOfStepStays
\* Away from the handshake.
<1>3. ASSUME pc # "handshake", remote' \in {remote, "closed", "reset"},
             pc' # "handshake", greeted' = greeted,
             InStep(tail) => InStep(tail)' \/ OutOfStep'
      PROVE  Start(tail)' /\ (Greeted' => InStep(tail)' \/ OutOfStep')
  <2>1. remote # "connected"
    BY <1>3 DEF Start
  <2>2. Greeted' = Greeted
    BY <1>3 DEF Greeted
  <2> QED
    BY <1>2, <1>3, <2>1, <2>2 DEF Start
<1>4. CASE \E n \in 0 .. Len(OurHandshake) : ReadHandshake(n)
  <2>1. PICK n \in 0 .. 3 : ReadHandshake(n)
    BY <1>4, HandshakeIs
  <2>2. pc = "handshake" /\ pc' # "handshake" /\ remote' = remote
    BY <2>1 DEF ReadHandshake
  <2>3. remote # "connected"
    <3>1. CASE remote = "connected"
      <4>1. stream = <<>>
        BY <3>1 DEF Start
      <4>2. n = 0
        BY <2>1, <4>1 DEF ReadHandshake
      <4> QED
        BY <2>1, <3>1, <4>2 DEF ReadHandshake
    <3> QED
      BY <3>1
  <2>4. Start(tail)'
    BY <2>2, <2>3 DEF Start
  <2>5. Greeted' => InStep(tail)'
    BY <2>1, HandshakeInStep
  <2> QED
    BY <1>1, <2>4, <2>5
<1>5. CASE HandshakeFails
  <2>1. /\ pc = "handshake" /\ remote = "reset" /\ pc' = "ended"
        /\ remote' = remote /\ greeted' = greeted
    BY <1>5 DEF HandshakeFails, history
  <2>2. ~Greeted'
    BY <2>1, HandshakeIs DEF Start, Greeted
  <2> QED
    BY <1>1, <2>1, <2>2 DEF Start
<1>6. CASE ReadLength
  <2>1. \A k : Position(tail, k) => InStep(tail)' \/ OutOfStep'
    BY <1>6, LengthInStep
  <2>2. InStep(tail) => InStep(tail)' \/ OutOfStep'
    BY <2>1 DEF InStep
  <2>3. pc' # "handshake"
    BY <1>6 DEF ReadLength
  <2> QED
    BY <1>1, <1>3, <1>6, <2>2, <2>3 DEF ReadLength, history
<1>7. CASE ReadType
  <2>1. \A k : Position(tail, k) => InStep(tail)'
    BY <1>7, TypeInStep
  <2>2. InStep(tail) => InStep(tail)'
    BY <2>1 DEF InStep
  <2>3. pc' # "handshake"
    BY <1>7 DEF ReadType, Send
  <2> QED
    BY <1>1, <1>3, <1>7, <2>2, <2>3 DEF ReadType, history
<1>8. CASE ReadPayload
  <2>1. \A k : Position(tail, k) => InStep(tail)'
    BY <1>8, PayloadInStep
  <2>2. InStep(tail) => InStep(tail)'
    BY <2>1 DEF InStep
  <2>3. pc' # "handshake"
    <3>1. msg_type \in {4, 5, 7}
      BY <1>8 DEF ReadPayload, Types, HasPayload
    <3> QED
      BY <1>8, <3>1 DEF ReadPayload, Payload, Send
  <2> QED
    BY <1>1, <1>3, <1>8, <2>2, <2>3 DEF ReadPayload, history
<1>9. CASE ListenerEnds
  <2>1. InStep(tail) => InStep(tail)'
    BY <1>9, StillInStep DEF ListenerEnds, history
  <2> QED
    BY <1>1, <1>3, <1>9, <2>1 DEF ListenerEnds, history, Listening
<1>10. CASE \E hash \in Hashes : SayHello(hash)
  <2>1. PICK hash \in Hashes : SayHello(hash)
    BY <1>10
  <2>2. /\ pc = "handshake" /\ pc' = pc /\ stream = <<>> /\ said = <<>>
        /\ events = <<>> /\ greeted = 0 /\ UNCHANGED <<events, greeted>>
        /\ remote' = "speaking" /\ hello' = {hash}
    BY <2>1 DEF SayHello, Start
  <2>3. stream' = Handshake(hash, 2) \o tail[0]
    <3>1. tail[0] = <<>>
      BY <2>2 DEF TailOf
    <3>2. stream' = <<>> \o Handshake(hash, 2) /\ Handshake(hash, 2) \in Seq(Byte)
      BY <2>1, <2>2, HandshakeIs DEF SayHello
    <3> QED
      BY <3>1, <3>2, ConcatEmptySeq
  <2>4. ~Greeted'
    BY <2>2, HandshakeIs DEF Greeted
  <2> QED
    BY <1>1, <2>2, <2>3, <2>4 DEF Start
<1>11. CASE \/ UNCHANGED vars
            \/ Close
            \/ Reset
            \/ StopListening
  <2>1. /\ UNCHANGED <<pc, len, msg_type, events, history>>
        /\ \/ stream' = stream /\ remote' = remote
           \/ stream' = stream /\ remote' = "closed" /\ ~Gone
           \/ stream' = <<>> /\ remote' = "reset"
    BY <1>11 DEF vars, reading, history, Close, Reset, StopListening
  <2>2. InStep(tail) => InStep(tail)'
    BY <2>1, StillInStep DEF history, Gone
  <2>3. Greeted' = Greeted
    BY <2>1 DEF Greeted, history
  <2>4. Start(tail)'
    BY <2>1 DEF Start, history
  <2> QED
    BY <1>1, <1>2, <2>2, <2>3, <2>4
<1>12. CASE \E m \in Said : Say(m)
  <2>1. PICK m \in Said : Say(m)
    BY <1>12
  <2>2. m \in Messages /\ said' = Append(said, m)
    BY <2>1, WireAssumption DEF Say
  <2>3. Len(said') = Len(said) + 1 /\ Len(said) \in Nat
    BY <2>2, AppendProperties DEF Types
  <2> QED
    BY <2>3
<1> QED
  BY <1>4, <1>5, <1>6, <1>7, <1>8, <1>9, <1>10, <1>11, <1>12
  DEF Next, ThreadStep, RemoteStep

LEMMA SynchronisedKept ==
    ASSUME Types, Synchronised, [Next]_vars
    PROVE  Synchronised'
<1>1. PICK tail : TailOf(tail) /\ Start(tail) /\ (Greeted => InStep(tail) \/ OutOfStep)
  BY DEF Synchronised
<1>2. CASE \E m \in Said : Say(m)
  <2>1. PICK m \in Said : Say(m)
    BY <1>2
  <2>2. m \in Messages
    BY WireAssumption
  <2> QED
    BY <1>1, <2>1, <2>2, SayInStep
<1>3. CASE said' = said
  <2>1. TailOf(tail)' /\ Start(tail)' /\ (Greeted' => InStep(tail)' \/ OutOfStep')
    BY <1>1, <1>3, StepInStep
  <2> QED
    BY <2>1 DEF Synchronised
<1>4. \/ said' = said
      \/ \E m \in Said : Say(m)
  BY DEF Next, ThreadStep, RemoteStep, vars, history, ReadHandshake, HandshakeFails, ReadLength,
         ReadType, ReadPayload, ListenerEnds, SayHello, Close, Reset, StopListening
<1> QED
  BY <1>2, <1>3, <1>4

LEMMA Invariant == Spec => [](Types /\ Synchronised)
<1>1. Init => Synchronised
  <2> SUFFICES ASSUME Init
               PROVE  Synchronised
    OBVIOUS
  <2> DEFINE tail == [k \in {0} |-> <<>>]
  <2>1. tail[0] = <<>>
    OBVIOUS
  <2> HIDE DEF tail
  <2>2. said = <<>> /\ Len(said) = 0
    BY DEF Init
  <2>3. TailOf(tail)
    <3>1. \A k \in 0 .. 0 : k = 0
      OBVIOUS
    <3>2. \A k \in 0 .. 0 - 1 : FALSE
      OBVIOUS
    <3>3. tail[0] \in Seq(Byte)
      BY <2>1
    <3> QED
      BY <2>1, <2>2, <3>1, <3>2, <3>3, Zenon DEF TailOf
  <2>4. Start(tail)
    BY DEF Start, Init
  <2>5. ~Greeted
    BY HandshakeIs DEF Init, Greeted
  <2> QED
    BY <2>3, <2>4, <2>5 DEF Synchronised
<1>2. Types /\ Synchronised /\ [Next]_vars => Synchronised'
  BY SynchronisedKept
<1> QED
  BY <1>1, <1>2, TypesInvariant, PTL DEF Spec

-----------------------------------------------------------------------------
(* Theorems *)

\* PlainPart counts the messages before the first that is not plain.
LEMMA PlainPartIs ==
    ASSUME said \in Seq(Messages)
    PROVE  /\ PlainPart \in 0 .. Len(said)
           /\ PlainTo(PlainPart)
           /\ PlainPart < Len(said) => ~Plain(said[PlainPart + 1])
<1> DEFINE o == Other(0, <<>>)
           q == Append(said, o)
           n == Len(said)
           I == {i \in 1 .. Len(q) : ~Plain(q[i])}
<1>1. /\ n \in Nat /\ Len(q) = n + 1 /\ q[n + 1] = o
      /\ \A i \in 1 .. n : q[i] = said[i]
  OBVIOUS
<1>2. ~Plain(o)
  BY DEF Other, Plain
<1> HIDE DEF o, q, n
<1>3. n + 1 \in I
  BY <1>1, <1>2
<1>4. I \in SUBSET Nat /\ I # {}
  BY <1>1, <1>3
<1>5. PlainPart = (CHOOSE x \in I : \A y \in I : x <= y) - 1
  BY <1>4 DEF PlainPart, SelectInSeq, Min, q, o
<1> DEFINE x == CHOOSE x \in I : \A y \in I : x <= y
<1>6. x \in I /\ \A y \in I : x <= y
  <2> HIDE DEF I
  <2>1. \E y \in I : \A z \in I : y <= z
    BY <1>4, LeastExists
  <2> QED
    BY <2>1
<1>7. PlainPart = x - 1
  BY <1>5
<1> HIDE DEF x
<1>8. x \in 1 .. n + 1 /\ ~Plain(q[x]) /\ \A i \in 1 .. x - 1 : Plain(q[i])
  BY <1>1, <1>6
<1>9. PlainPart \in 0 .. n /\ PlainPart + 1 = x
  BY <1>1, <1>7, <1>8
<1>10. PlainTo(PlainPart)
  <2>1. ASSUME NEW i \in 1 .. PlainPart
        PROVE  Plain(said[i])
    BY <1>1, <1>7, <1>8, <1>9
  <2> QED
    BY <2>1 DEF PlainTo
<1>11. PlainPart < n => ~Plain(said[PlainPart + 1])
  BY <1>1, <1>8, <1>9
<1> QED
  BY <1>9, <1>10, <1>11 DEF n

\* HeardAsSaid: behind a handshake that was read whole, what the listener tells is
\* what the remote side said, in order, unchanged, nothing of a message cut off, up
\* to the first message it does not understand (start_listener).
THEOREM HeardIsSaid == Spec => []HeardAsSaid
<1>1. Types /\ Synchronised => HeardAsSaid
  <2> SUFFICES ASSUME Types, Synchronised, Greeted
               PROVE  \/ IsPrefix(events, ToldTo(PlainPart))
                      \/ PlainPart < Len(said) /\ IsPrefix(ToldTo(PlainPart), events)
    BY DEF HeardAsSaid, ToldTo
  <2>1. PICK tail : InStep(tail) \/ OutOfStep
    BY DEF Synchronised
  <2>2. /\ said \in Seq(Messages) /\ Len(said) \in Nat
        /\ PlainPart \in 0 .. Len(said) /\ PlainTo(PlainPart)
        /\ PlainPart < Len(said) => ~Plain(said[PlainPart + 1])
    BY PlainPartIs DEF Types
  <2> DEFINE n == PlainPart
  <2> HIDE DEF n
  <2>3. CASE InStep(tail)
    <3>1. PICK k \in 0 .. Len(said) : PlainTo(k) /\ events = ToldTo(k)
      BY <2>3 DEF InStep, Position
    <3>2. k <= n
      BY <2>2, <3>1 DEF PlainTo, n
    <3>3. IsPrefix(ToldTo(k), ToldTo(n))
      <4>1. n \in k .. Len(said)
        BY <2>2, <3>2 DEF n
      <4> QED
        BY <2>2, <4>1, ToldGrows DEF ToldTo
    <3> QED
      BY <3>1, <3>3 DEF n
  <2>4. CASE OutOfStep
    <3>1. PICK k \in 0 .. Len(said) - 1 :
            PlainTo(k) /\ ~Plain(said[k + 1]) /\ IsPrefix(ToldTo(k), events)
      BY <2>4 DEF OutOfStep
    <3>2. k = n
      BY <2>2, <3>1 DEF PlainTo, n
    <3> QED
      BY <2>2, <3>1, <3>2 DEF n
  <2> QED
    BY <2>1, <2>3, <2>4
<1> QED
  BY <1>1, Invariant, PTL

\* PlainRemotesHarmless: no index, bitfield or length of a well-behaved remote side
\* makes the listener panic (start_listener, set_peer_bitfield_index).
THEOREM PlainIsHarmless == Spec => []PlainRemotesHarmless
<1>1. Types /\ Synchronised => PlainRemotesHarmless
  <2> SUFFICES ASSUME Types, Synchronised, pc = "panicked", hello = {OurHash}, Greeted
               PROVE  PlainPart < Len(said)
    BY DEF PlainRemotesHarmless
  <2>1. PICK tail : InStep(tail) \/ OutOfStep
    BY DEF Synchronised
  <2>2. ~InStep(tail)
    BY DEF InStep, Position
  <2>3. PICK k \in 0 .. Len(said) - 1 : PlainTo(k) /\ ~Plain(said[k + 1])
    BY <2>1, <2>2 DEF OutOfStep
  <2>4. Len(said) \in Nat /\ PlainPart \in 0 .. Len(said) /\ PlainTo(PlainPart)
    BY PlainPartIs DEF Types
  <2> QED
    BY <2>3, <2>4 DEF PlainTo
<1> QED
  BY <1>1, Invariant, PTL

=============================================================================
