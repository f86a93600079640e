------------------------------ MODULE PeerWire ------------------------------
(***************************************************************************)
(* What one connection reads from its TCP stream (peer.rs): the answer to  *)
(* the handshake in Controller::new, and the messages in start_listener,   *)
(* from the bytes of the stream to the events for the controller of the    *)
(* torrent.  PeerSessions takes these events as given; here they are       *)
(* compared with what the remote side said.                                *)
(*                                                                         *)
(* The widths of the format are constants: a byte has Bits bits, a number  *)
(* Width bytes.  A part of the handshake, the info hash for instance, is   *)
(* one byte.  What TCP delivers is a prefix of what was sent, in order;    *)
(* `read' takes what has arrived, `read_exact' waits for all of it.        *)
(***************************************************************************)
EXTENDS Integers, SequencesExt

CONSTANTS
    Bits,           \* bits of a byte: 8
    Width,          \* bytes of a number: 4
    MaxSize,        \* max_size: 2^17
    PieceCount,     \* Controller::piece_count
    OurHash,        \* torrent_info_hash
    Hashes,         \* info hashes a remote side may answer with
    Said,           \* what a remote side may say
    MaxSaid         \* bound: messages said in a behaviour

Byte    == 0..(2^Bits - 1)
Numbers == 0..(2^(Bits * Width) - 1)
Pieces  == 0..(PieceCount - 1)

\* What is said, and what an event of the listener tells: that the client is choked
\* or not, one piece, all pieces, or a block.
Choked(c)       == [kind |-> "choked", choked |-> c]
Have(i)         == [kind |-> "have", index |-> i]
Bitfield(S)     == [kind |-> "bitfield", pieces |-> S]
Block(i, b, data) == [kind |-> "block", index |-> i, begin |-> b, data |-> data]
\* Said only: nothing, or a message of some other type, length and content.
KeepAlive           == [kind |-> "keepalive"]
Other(type, payload) == [kind |-> "other", type |-> type, payload |-> payload]

Messages ==
    [kind : {"keepalive"}] \cup [kind : {"choked"}, choked : BOOLEAN]
        \cup [kind : {"have"}, index : Numbers] \cup [kind : {"bitfield"}, pieces : SUBSET Pieces]
        \cup [kind : {"block"}, index : Numbers, begin : Numbers, data : Seq(Byte)]
        \cup [kind : {"other"}, type : Byte, payload : Seq(Byte)]

ASSUME WireAssumption ==
    /\ {Bits, Width, MaxSize, MaxSaid} \subseteq Nat \ {0}
    /\ PieceCount \in Nat
    /\ 0..7 \subseteq Byte \* the types of messages
    /\ OurHash \in Hashes /\ Hashes \subseteq Byte
    /\ MaxSize <= 2^(Bits * Width)
    /\ Said \subseteq Messages

\* What ^ is, as far as proofs need it: the prover has no definition of it.
ASSUME PowersAssumption ==
    2^0 = 1 /\ \A k \in 0..(Bits * Width) : 2^(k + 1) = 2 * 2^k

-----------------------------------------------------------------------------
(* The format, as a remote side writes it *)

\* The number with the given digits, the highest first.
Digits(base, digits) ==
    LET value[i \in 0..Len(digits)] ==
            IF i = 0 THEN 0 ELSE value[i - 1] * base + digits[i]
    IN  value[Len(digits)]

Number(n) == [i \in 1..Width |-> (n \div 2^(Bits * (Width - i))) % 2^Bits]

BitfieldBytes == (PieceCount + Bits - 1) \div Bits
Bit(S, i) == IF i \in S THEN 1 ELSE 0
ByteOf(S, k) == Digits(2, [i \in 1..Bits |-> Bit(S, Bits * (k - 1) + i - 1)])

Message(type, payload) == Number(1 + Len(payload)) \o <<type>> \o payload

Encode(m) ==
    CASE m.kind = "keepalive" -> Number(0)
      [] m.kind = "choked"    -> Message(IF m.choked THEN 0 ELSE 1, <<>>)
      [] m.kind = "have"      -> Message(4, Number(m.index))
      [] m.kind = "bitfield"  -> Message(5, [k \in 1..BitfieldBytes |-> ByteOf(m.pieces, k)])
      [] m.kind = "block"     -> Message(7, Number(m.index) \o Number(m.begin) \o m.data)
      [] m.kind = "other"     -> Message(m.type, m.payload)

\* One byte each: the protocol, the info hash, the id of the peer.
Handshake(hash, id) == <<3, hash, id>>
OurHandshake        == Handshake(OurHash, 1)
HashAt              == 2

-----------------------------------------------------------------------------
VARIABLES
    pc,        \* where the thread of the connection is
    len,       \* the length it read
    msg_type,  \* the type it read
    stream,    \* bytes sent and not read
    remote,    \* "connected", "speaking" after the handshake, "closed", "reset"
    listened,  \* whether the receiver of the events is there
    events,    \* events sent
    \* history
    hello,     \* the info hash the remote side answered with, {} for none
    greeted,   \* the count `read' returned for the handshake
    said       \* messages said

reading == <<pc, len, msg_type, stream>>
history == <<hello, greeted, said>>
vars    == <<reading, remote, listened, events, history>>

Init ==
    /\ pc = "handshake"
    /\ len = 0
    /\ msg_type = 0
    /\ stream = <<>>
    /\ remote = "connected"
    /\ listened = TRUE
    /\ events = <<>>
    /\ hello = {}
    /\ greeted = 0
    /\ said = <<>>

Listening == {"length", "type", "payload"}
Over      == {"ended", "panicked"}
Gone      == remote \in {"closed", "reset"}

-----------------------------------------------------------------------------
(* The remote side *)

SayHello(hash) ==
    /\ remote = "connected"
    /\ stream' = stream \o Handshake(hash, 2)
    /\ remote' = "speaking"
    /\ hello' = {hash}
    /\ UNCHANGED <<pc, len, msg_type, listened, events, greeted, said>>

Say(m) ==
    /\ remote = "speaking"
    /\ Len(said) < MaxSaid
    /\ stream' = stream \o Encode(m)
    /\ said' = Append(said, m)
    /\ UNCHANGED <<pc, len, msg_type, remote, listened, events, hello, greeted>>

\* The end of the stream, also after our own Shutdown; what was sent can be read.
Close ==
    /\ ~Gone
    /\ remote' = "closed"
    /\ UNCHANGED <<reading, listened, events, history>>

\* A connection that breaks takes what was not read with it.
Reset ==
    /\ ~Gone
    /\ remote' = "reset"
    /\ stream' = <<>>
    /\ UNCHANGED <<pc, len, msg_type, listened, events, history>>

\* The controller of the torrent drops the receiver.
StopListening ==
    /\ listened
    /\ listened' = FALSE
    /\ UNCHANGED <<reading, remote, events, history>>

-----------------------------------------------------------------------------
(* Controller::new *)

\* The answer is read into the buffer our own handshake was sent from.
Buffer(n) == SubSeq(stream, 1, n) \o SubSeq(OurHandshake, n + 1, Len(OurHandshake))

\* Verified by an assertion; then Init is sent, which events leave out.
Accepted(n) == Buffer(n)[HashAt] = OurHash

ReadHandshake(n) ==
    /\ pc = "handshake"
    /\ n <= Len(stream)
    /\ n = 0 <=> stream = <<>> /\ remote = "closed"
    /\ pc' = IF ~Accepted(n) THEN "panicked" ELSE IF listened THEN "length" ELSE "ended"
    /\ stream' = SubSeq(stream, n + 1, Len(stream))
    /\ greeted' = n
    /\ UNCHANGED <<len, msg_type, remote, listened, events, hello, said>>

\* A read or write fails.
HandshakeFails ==
    /\ pc = "handshake"
    /\ remote = "reset"
    /\ pc' = "ended"
    /\ UNCHANGED <<len, msg_type, stream, remote, listened, events, history>>

-----------------------------------------------------------------------------
(* Controller::start_listener *)

\* Bytes read_exact takes, and the number in some bytes.
Taken(n) == SubSeq(stream, 1, n)
Value(bytes) == Digits(2^Bits, bytes)

ReadExact(n) ==
    /\ Len(stream) >= n
    /\ stream' = SubSeq(stream, n + 1, Len(stream))

\* send_event fails when nobody listens.
Send(e) ==
    IF listened THEN events' = Append(events, e) /\ pc' = "length"
                ELSE pc' = "ended" /\ UNCHANGED events

\* Bug: an empty message is read like any other.
InRangeBug(n) == n < MaxSize

InRange(n) == n > 0 /\ n < MaxSize

ReadLength ==
    /\ pc = "length"
    /\ ReadExact(Width)
    /\ len' = Value(Taken(Width))
    /\ pc' = IF InRange(len') THEN "type" ELSE "length"
    /\ UNCHANGED <<msg_type, remote, listened, events, history>>

\* Bug: a have is not handled.
HasPayloadBug(n, type) ==
    \/ type = 5
    \/ n >= 2 * Width /\ type = 7

\* The arms of the match whose payload is read.
HasPayload(n, type) ==
    \/ n = Width /\ type = 4
    \/ type = 5
    \/ n >= 2 * Width /\ type = 7

ReadType ==
    /\ pc = "type"
    /\ ReadExact(1)
    /\ msg_type' = stream[1]
    /\ CASE len = 1 /\ msg_type' \in {0, 1} -> Send(Choked(msg_type' = 0))
         [] HasPayload(len - 1, msg_type')  -> pc' = "payload" /\ UNCHANGED events
         [] OTHER                           -> pc' = "length" /\ UNCHANGED events
    /\ UNCHANGED <<len, remote, listened, history>>

\* Bug: the loop over the bits does not stop at the last piece.
BitfieldPanicsBug(bytes) == Len(bytes) < BitfieldBytes \/ Bits * BitfieldBytes > PieceCount

\* Bits of the first bytes, the highest first; more bytes are ignored, and fewer
\* make the slice panic.
BitfieldPanics(bytes) == Len(bytes) < BitfieldBytes

\* Bug: the lowest bit first.
BitOfBug(byte, i) == (byte \div 2^i) % 2

BitOf(byte, i) == (byte \div 2^(Bits - 1 - i)) % 2
BitfieldOf(bytes) == {i \in Pieces : BitOf(bytes[i \div Bits + 1], i % Bits) = 1}

BlockOf(bytes) ==
    Block(Value(SubSeq(bytes, 1, Width)), Value(SubSeq(bytes, Width + 1, 2 * Width)),
          SubSeq(bytes, 2 * Width + 1, Len(bytes)))

\* An index past the last piece panics too.
Payload(bytes) ==
    CASE msg_type = 4 -> IF Value(bytes) \in Pieces THEN Send(Have(Value(bytes)))
                         ELSE pc' = "panicked" /\ UNCHANGED events
      [] msg_type = 5 -> IF BitfieldPanics(bytes) THEN pc' = "panicked" /\ UNCHANGED events
                         ELSE Send(Bitfield(BitfieldOf(bytes)))
      [] msg_type = 7 -> Send(BlockOf(bytes))

ReadPayload ==
    /\ pc = "payload"
    /\ ReadExact(len - 1)
    /\ Payload(Taken(len - 1))
    /\ UNCHANGED <<len, msg_type, remote, listened, history>>

\* Bytes read_exact waits for.
Wanted == CASE pc = "length" -> Width [] pc = "type" -> 1 [] pc = "payload" -> len - 1

\* read_exact fails when the stream ends before.
ListenerEnds ==
    /\ pc \in Listening
    /\ Gone
    /\ Len(stream) < Wanted
    /\ pc' = "ended"
    /\ UNCHANGED <<len, msg_type, stream, remote, listened, events, history>>

ThreadStep ==
    \/ \E n \in 0..Len(OurHandshake) : ReadHandshake(n)
    \/ HandshakeFails
    \/ ReadLength \/ ReadType \/ ReadPayload \/ ListenerEnds

RemoteStep ==
    \/ \E hash \in Hashes : SayHello(hash)
    \/ \E m \in Said : Say(m)
    \/ Close \/ Reset

Next == ThreadStep \/ RemoteStep \/ StopListening

Spec == Init /\ [][Next]_vars

\* The thread runs.  A remote side, or the controller, need not do anything.
FairSpec == Spec /\ WF_vars(ThreadStep)

-----------------------------------------------------------------------------
(* Properties *)

TypeOK ==
    /\ pc \in {"handshake"} \cup Listening \cup Over
    /\ len \in 0..(2^(Bits * Width) - 1)
    /\ pc \in {"type", "payload"} => len \in 1..(MaxSize - 1)
    /\ msg_type \in Byte
    /\ \A i \in 1..Len(stream) : stream[i] \in Byte
    /\ remote \in {"connected", "speaking", "closed", "reset"}
    /\ listened \in BOOLEAN
    /\ \A i \in 1..Len(events) : events[i].kind \in {"choked", "have", "bitfield", "block"}
    /\ greeted \in 0..Len(OurHandshake)

\* What a well-behaved remote side says: pieces that exist, nothing too long, and of
\* other types only messages without a payload.
Plain(m) ==
    /\ Len(Encode(m)) < Width + MaxSize
    /\ m.kind = "have" => m.index \in Pieces
    /\ m.kind = "other" => m.payload = <<>> /\ m.type \notin {0, 1, 5}
PlainPart == SelectInSeq(Append(said, Other(0, <<>>)), LAMBDA m : ~Plain(m)) - 1

\* The events that tell a sequence of messages.
Tells(m) == m.kind \notin {"keepalive", "other"}
Told(messages) ==
    LET told[i \in 0..Len(messages)] ==
            IF i = 0 THEN <<>>
            ELSE IF Tells(messages[i]) THEN Append(told[i - 1], messages[i]) ELSE told[i - 1]
    IN  told[Len(messages)]

Greeted == greeted = Len(OurHandshake)

\* Behind a handshake that was read whole, the events are the messages the remote
\* side said, in order, none twice, none changed, none of a message cut off, up to
\* the first message the listener does not understand (start_listener).
HeardAsSaid ==
    Greeted => LET told == Told(SubSeq(said, 1, PlainPart))
               IN  \/ IsPrefix(events, told)
                   \/ PlainPart < Len(said) /\ IsPrefix(told, events)

\* Every such message is told in the end, whatever comes behind it, unless the
\* connection breaks or the controller is gone (start_listener).
Unbroken == Greeted /\ listened /\ remote # "reset" /\ pc # "panicked"
HeardInTheEnd ==
    \A n \in 1..MaxSaid :
        Unbroken /\ Len(Told(SubSeq(said, 1, PlainPart))) >= n
            ~> Len(events) >= n \/ ~Unbroken

\* No index, bitfield or length of a well-behaved remote side makes the listener
\* panic, which would end the connection (start_listener, set_peer_bitfield_index).
PlainRemotesHarmless ==
    pc = "panicked" /\ hello = {OurHash} /\ Greeted => PlainPart < Len(said)

\* A connection is served only when the remote side answered with the info hash of
\* the torrent: "Verify handshake" (Controller::new).
HandshakeVerified == pc \in Listening => hello = {OurHash}

=============================================================================
