--------------------------- MODULE TrackersProofs ---------------------------
(***************************************************************************)
(* Theorems about the announces to the trackers: how often a tracker is    *)
(* asked, what an exchange adds to the peers, and what cannot make it      *)
(* panic, for any trackers, peers, answers and bounds.                     *)
(***************************************************************************)
EXTENDS Trackers, SequenceTheorems, TLAPS

-----------------------------------------------------------------------------
(* Decoding. *)

Address == Nat \X Nat \X Nat

LEMMA AddressParts ==
    ASSUME NEW a \in Address
    PROVE  /\ a = <<a[1], a[2], a[3]>>
           /\ a[1] \in Nat /\ a[2] \in Nat /\ a[3] \in Nat
           /\ \A i \in 1..3 : a[i] \in Nat
BY DEF Address

\* The words of a list of peers: three for each, in order.
LEMMA WordsOfPeers ==
    ASSUME NEW peers \in Seq(Address)
    PROVE  /\ Words(peers) \in Seq(Nat)
           /\ Len(Words(peers)) = 3 * Len(peers)
           /\ \A k \in 1..Len(peers) : /\ Words(peers)[3*k - 2] = peers[k][1]
                                       /\ Words(peers)[3*k - 1] = peers[k][2]
                                       /\ Words(peers)[3*k] = peers[k][3]
<1> DEFINE W == Words(peers)
<1>1. Len(peers) \in Nat
  OBVIOUS
<1>2. ASSUME NEW i \in 1..3 * Len(peers)
      PROVE  /\ (i + 2) \div 3 \in 1..Len(peers)
             /\ ((i + 2) % 3) + 1 \in 1..3
  BY <1>1
<1>3. ASSUME NEW i \in 1..3 * Len(peers)
      PROVE  W[i] \in Nat
  <2>1. peers[(i + 2) \div 3] \in Address
    BY <1>2
  <2>2. W[i] = peers[(i + 2) \div 3][((i + 2) % 3) + 1]
    BY DEF Words
  <2> QED
    BY <1>2, <2>1, <2>2, AddressParts
<1>4. W = [i \in 1..3 * Len(peers) |-> W[i]]
  BY DEF Words
<1>5. W \in Seq(Nat) /\ Len(W) = 3 * Len(peers)
  BY <1>1, <1>3, <1>4
<1>6. ASSUME NEW k \in 1..Len(peers)
      PROVE  /\ W[3*k - 2] = peers[k][1]
             /\ W[3*k - 1] = peers[k][2]
             /\ W[3*k] = peers[k][3]
  <2>1. /\ (3*k - 2 + 2) \div 3 = k /\ (3*k - 2 + 2) % 3 = 0
        /\ (3*k - 1 + 2) \div 3 = k /\ (3*k - 1 + 2) % 3 = 1
        /\ (3*k + 2) \div 3 = k /\ (3*k + 2) % 3 = 2
    BY <1>1
  <2>2. {3*k - 2, 3*k - 1, 3*k} \subseteq 1..3 * Len(peers)
    BY <1>1
  <2> QED
    BY <1>1, <2>1, <2>2 DEF Words
<1> QED
  BY <1>5, <1>6

\* decode_peers reads a compact list as it was meant.
LEMMA CompactRead ==
    ASSUME NEW peers \in Seq(Address)
    PROVE  CompactPeers(Words(peers)) = peers
<1> DEFINE W == Words(peers)
           C == CompactPeers(W)
<1>1. Len(peers) \in Nat /\ Len(W) = 3 * Len(peers)
  BY WordsOfPeers
<1>2. Len(W) \div 3 = Len(peers)
  BY <1>1
<1>3. C = [k \in 1..Len(peers) |-> <<W[3*k - 2], W[3*k - 1], W[3*k]>>]
  BY <1>2 DEF CompactPeers
<1>4. ASSUME NEW k \in 1..Len(peers)
      PROVE  C[k] = peers[k]
  <2>1. peers[k] \in Address
    OBVIOUS
  <2> HIDE DEF W
  <2>2. C[k] = <<W[3*k - 2], W[3*k - 1], W[3*k]>>
    BY <1>3
  <2> QED
    BY <2>1, <2>2, AddressParts, WordsOfPeers DEF W
<1>5. peers = [k \in 1..Len(peers) |-> peers[k]]
  OBVIOUS
<1> QED
  BY <1>3, <1>4, <1>5

\* decode_peers reads a list of dictionaries as it was meant.
LEMMA ListRead ==
    ASSUME NEW peers \in Seq(Address)
    PROVE  ListPeers([i \in 1..Len(peers) |-> Dictionary(peers[i])]) = peers
<1> DEFINE D == [i \in 1..Len(peers) |-> Dictionary(peers[i])]
<1>1. Len(peers) \in Nat /\ Len(D) = Len(peers)
  OBVIOUS
<1>2. ASSUME NEW k \in 1..Len(peers)
      PROVE  D[k].ip \o <<D[k].port>> = peers[k]
  <2> DEFINE a == peers[k]
  <2>1. a \in Address /\ D[k] = Dictionary(a)
    OBVIOUS
  <2> HIDE DEF a, D
  <2>2. D[k].ip = SubSeq(a, 1, 2) /\ D[k].port = a[3]
    BY <2>1 DEF Dictionary
  <2>3. SubSeq(a, 1, 2) = <<a[1], a[2]>>
    <3>1. a = <<a[1], a[2], a[3]>> /\ \A i \in 1..3 : a[i] \in Nat
      BY <2>1, AddressParts
    <3>2. /\ SubSeq(a, 1, 2) \in Seq(Nat)
          /\ Len(SubSeq(a, 1, 2)) = 2
          /\ \A i \in 1..2 : SubSeq(a, 1, 2)[i] = a[i]
      BY <3>1, SubSeqProperties
    <3> DEFINE t == <<a[1], a[2]>>
    <3>3. t \in Seq(Nat) /\ Len(t) = 2 /\ t[1] = a[1] /\ t[2] = a[2]
      BY <3>1
    <3> HIDE DEF t
    <3>4. \A i \in 1..Len(t) : SubSeq(a, 1, 2)[i] = t[i]
      BY <3>2, <3>3
    <3> QED
      BY <3>2, <3>3, <3>4, SeqEqual DEF t
  <2>4. <<a[1], a[2]>> \o <<a[3]>> = <<a[1], a[2], a[3]>>
    <3> DEFINE t == <<a[1], a[2]>>
               u == <<a[3]>>
               v == <<a[1], a[2], a[3]>>
    <3>1. /\ t \in Seq(Nat) /\ Len(t) = 2 /\ t[1] = a[1] /\ t[2] = a[2]
          /\ u \in Seq(Nat) /\ Len(u) = 1 /\ u[1] = a[3]
          /\ v \in Seq(Nat) /\ Len(v) = 3 /\ v[1] = a[1] /\ v[2] = a[2] /\ v[3] = a[3]
      BY <2>1, AddressParts
    <3> HIDE DEF t, u, v
    <3>2. /\ t \o u \in Seq(Nat) /\ Len(t \o u) = Len(t) + Len(u)
          /\ \A i \in 1..Len(t) + Len(u) :
                (t \o u)[i] = IF i <= Len(t) THEN t[i] ELSE u[i - Len(t)]
      BY <3>1, ConcatProperties
    <3>3. \A i \in 1..Len(v) : (t \o u)[i] = v[i]
      BY <3>1, <3>2
    <3>4. t \o u = v
      <4> DEFINE x == t \o u
      <4>1. x \in Seq(Nat) /\ v \in Seq(Nat) /\ Len(x) = Len(v) /\ \A i \in 1..Len(x) : x[i] = v[i]
        BY <3>1, <3>2, <3>3
      <4> HIDE DEF x
      <4>2. x = v
        BY <4>1, SeqEqual
      <4> QED
        BY <4>2 DEF x
    <3> QED
      BY <3>4 DEF t, u, v
  <2> QED
    BY <2>1, <2>2, <2>3, <2>4, AddressParts DEF a
<1>3. ListPeers(D) = [i \in 1..Len(peers) |-> D[i].ip \o <<D[i].port>>]
  BY <1>1 DEF ListPeers
<1> HIDE DEF D
<1>4. peers = [k \in 1..Len(peers) |-> peers[k]]
  OBVIOUS
<1> QED
  BY <1>2, <1>3, <1>4 DEF D

\* What udp_tracker makes of the datagrams of a tracker that follows the protocol:
\* nothing of an answer to a connect; of an answer to an announce not more peers
\* than there are, with the right IP addresses.
LEMMA UdpRead ==
    ASSUME NEW d
    PROVE  /\ d.action = "connect" => UdpPeers(DatagramWords(d)) = <<>>
           /\ d.action = "announce" /\ d.body \in Seq(Address) =>
                 LET new == UdpPeers(DatagramWords(d))
                 IN  /\ new \in Seq(Address)
                     /\ Len(new) <= Len(d.body)
                     /\ \A k \in 1..Len(new) : new[k][1] = d.body[k][1] /\ new[k][2] = d.body[k][2]
<1> DEFINE w == DatagramWords(d)
           n == IF Len(w) < MaxDatagram THEN Len(w) ELSE MaxDatagram
           buf(i) == IF i <= n THEN w[i] ELSE 0
           count == IF n > Header + 3 THEN (n - Header - 1) \div 3 ELSE 0
           at(k) == Header + 3 * (k - 1)
           new == UdpPeers(w)
<1>1. new = [k \in 1..count |-> <<buf(at(k) + 1), buf(at(k) + 2), buf(at(k) + 5)>>]
  BY DEF UdpPeers
<1>2. MaxDatagram \in Nat \ {0}
  BY TrackersAssumption
<1>3. CASE d.action = "connect"
  <2>1. w = Zeros(8)
    BY <1>3 DEF DatagramWords
  <2>2. Len(w) = 8
    BY <2>1 DEF Zeros
  <2>3. count = 0
    BY <1>2, <2>2 DEF Header
  <2>4. new = [k \in 1..0 |-> <<buf(at(k) + 1), buf(at(k) + 2), buf(at(k) + 5)>>]
    BY <1>1, <2>3
  <2>5. new = <<>>
    BY <2>4
  <2> QED
    BY <1>3, <2>5
<1>4. CASE d.action = "announce" /\ d.body \in Seq(Address)
  <2> DEFINE B == Words(d.body)
             L == Len(d.body)
  <2>1. w = Zeros(10) \o B
    BY <1>4 DEF DatagramWords, Header
  <2>2. Zeros(10) \in Seq(Nat) /\ Len(Zeros(10)) = 10
    BY DEF Zeros
  <2>3. /\ L \in Nat /\ B \in Seq(Nat) /\ Len(B) = 3 * L
        /\ \A k \in 1..L : B[3*k - 2] = d.body[k][1] /\ B[3*k - 1] = d.body[k][2]
    <3>1. d.body \in Seq(Address)
      BY <1>4
    <3>2. /\ Words(d.body) \in Seq(Nat)
          /\ Len(Words(d.body)) = 3 * Len(d.body)
          /\ \A k \in 1..Len(d.body) : /\ Words(d.body)[3*k - 2] = d.body[k][1]
                                       /\ Words(d.body)[3*k - 1] = d.body[k][2]
      BY <3>1, WordsOfPeers, Zenon
    <3>3. Len(d.body) \in Nat
      BY <3>1
    <3> QED
      BY <3>2, <3>3, Zenon
  <2> HIDE DEF B, L
  <2>4. /\ w \in Seq(Nat)
        /\ Len(w) = 10 + 3 * L
        /\ \A i \in 1..3 * L : w[10 + i] = B[i]
    <3>1. /\ w \in Seq(Nat)
          /\ Len(w) = 10 + 3 * L
          /\ \A i \in 1..10 + 3 * L : w[i] = IF i <= 10 THEN Zeros(10)[i] ELSE B[i - 10]
      <4> DEFINE z == Zeros(10)
      <4>1. z \in Seq(Nat) /\ Len(z) = 10
        BY <2>2
      <4> HIDE DEF z
      <4>2. /\ z \o B \in Seq(Nat) /\ Len(z \o B) = Len(z) + Len(B)
            /\ \A i \in 1..Len(z) + Len(B) :
                  (z \o B)[i] = IF i <= Len(z) THEN z[i] ELSE B[i - Len(z)]
        BY <2>3, <4>1, ConcatProperties
      <4>3. w = z \o B
        BY <2>1 DEF z
      <4> HIDE DEF w
      <4>4. /\ w \in Seq(Nat)
            /\ Len(w) = 10 + 3 * L
            /\ \A i \in 1..10 + 3 * L : w[i] = IF i <= 10 THEN z[i] ELSE B[i - 10]
        BY <2>3, <4>1, <4>2, <4>3
      <4> QED
        BY <4>4 DEF z, w
    <3> HIDE DEF w
    <3>2. ASSUME NEW i \in 1..3 * L
          PROVE  w[10 + i] = B[i]
      <4>1. 10 + i \in 1..10 + 3 * L /\ ~(10 + i <= 10) /\ (10 + i) - 10 = i
        BY <2>3
      <4> QED
        BY <3>1, <4>1
    <3> QED
      BY <3>1, <3>2
  <2> HIDE DEF w
  <2>5. n \in Nat /\ n <= 10 + 3 * L
    BY <1>2, <2>3, <2>4
  <2> HIDE DEF n
  <2>6. /\ count \in Nat /\ count <= L
        /\ \A k \in 1..count : 10 + 3 * k - 1 <= n /\ k \in 1..L
    BY <2>3, <2>5 DEF Header
  <2> HIDE DEF count
  <2>7. \A i \in Nat \ {0} : buf(i) \in Nat
    BY <2>3, <2>4, <2>5 DEF n
  <2>8. ASSUME NEW k \in 1..count
        PROVE  /\ buf(at(k) + 1) = d.body[k][1]
               /\ buf(at(k) + 2) = d.body[k][2]
               /\ buf(at(k) + 5) \in Nat
    <3>1. /\ at(k) + 1 = 10 + (3*k - 2) /\ at(k) + 2 = 10 + (3*k - 1)
          /\ at(k) + 1 <= n /\ at(k) + 2 <= n /\ at(k) + 5 \in Nat \ {0}
          /\ 3*k - 2 \in 1..3 * L /\ 3*k - 1 \in 1..3 * L /\ k \in 1..L
      BY <2>3, <2>5, <2>6 DEF Header
    <3>2. buf(at(k) + 1) = B[3*k - 2] /\ buf(at(k) + 2) = B[3*k - 1]
      BY <2>4, <3>1
    <3> QED
      BY <2>3, <2>7, <3>1, <3>2
  <2>9. \A k \in 1..count : <<buf(at(k) + 1), buf(at(k) + 2), buf(at(k) + 5)>> \in Address
    <3> SUFFICES ASSUME NEW k \in 1..count
                 PROVE  <<buf(at(k) + 1), buf(at(k) + 2), buf(at(k) + 5)>> \in Address
      OBVIOUS
    <3>1. k \in 1..L
      BY <2>6
    <3>2. d.body[k] \in Address
      BY <1>4, <3>1 DEF L
    <3> QED
      BY <2>8, <3>2, AddressParts DEF Address
  <2>10. new \in Seq(Address) /\ Len(new) = count
    BY <1>1, <2>6, <2>9
  <2>11. ASSUME NEW k \in 1..Len(new)
         PROVE  new[k][1] = d.body[k][1] /\ new[k][2] = d.body[k][2]
    <3>1. k \in 1..count
      BY <2>10
    <3>2. new[k] = <<buf(at(k) + 1), buf(at(k) + 2), buf(at(k) + 5)>>
      BY <1>1, <3>1
    <3> QED
      BY <2>8, <3>1, <3>2
  <2> QED
    BY <1>4, <2>6, <2>10, <2>11 DEF L, w
<1> QED
  BY <1>3, <1>4

-----------------------------------------------------------------------------
(* The inductive invariant. *)

\* Ports and transactions advance together, and each datagram carries those of its
\* exchange.
NetworkInv ==
    /\ client_port = transaction
    /\ requests \subseteq [tracker : Trackers, port : Numbers, transaction : Numbers,
                           action : {"connect", "announce"}]
    /\ \A d \in requests \cup answers : d.port = d.transaction
    /\ \A d \in answers : \/ d.action = "connect"
                          \/ d.action = "announce" /\ d.body \in NamedChoices
                          \/ d.action = "error" /\ d.body \in Texts /\ faulty

\* A datagram of this exchange, as opposed to the last one.
Current(datagrams) == {d \in datagrams : d.transaction = transaction}

\* What is under way of the exchange the controller waits in: at first the connect
\* request and its answers; then one announce request at most, and when it was
\* answered, answers that say what the tracker named.
ExchangeInv ==
    /\ pc = "connect" =>
          /\ \A r \in Current(requests) : r.action = "connect"
          /\ ~faulty => \A d \in Current(answers) : d.action = "connect"
    /\ pc = "announce" =>
          /\ \A r, s \in Awaited("announce") : r = s
          /\ ~faulty => \A d \in Current(answers) :
                           d.action = "announce" => d.body = named /\ Awaited("announce") = {}

\* A request was last sent to a tracker no later than the time it was left alone for
\* counts from, unless the exchange is not over.
ThrottleInv ==
    \A t \in Trackers :
        \/ sent[t] = Never
        \/ last_announced_at[t] # Never /\ last_announced_at[t] <= sent[t]
        \/ pc \in {"http", "connect", "announce"} /\ t = Head(todo)
        \/ pc = "panicked"

TrackersInv ==
    /\ TypeOK
    /\ found \in Seq(Address)
    /\ NetworkInv
    /\ ExchangeInv
    /\ ThrottleInv
    /\ HonestTrackersHarmless

-----------------------------------------------------------------------------
(* Types. *)

\* What is left of the order of the trackers.
Rest(q) == \E i \in 0..Len(Order) : q = SubSeq(Order, i + 1, Len(Order))

\* A round begins with all trackers and ends without any.
LEMMA RestBounds == Rest(<<>>) /\ Rest(Order)
<1>1. Order \in Seq(Trackers) /\ Len(Order) \in Nat
  BY DataAssumption
<1>2. SubSeq(Order, Len(Order) + 1, Len(Order)) = <<>>
  BY <1>1, SubSeqEmpty
<1>3. SubSeq(Order, 1, Len(Order)) = Order
  BY <1>1, SubSeqFull
<1> QED
  BY <1>1, <1>2, <1>3 DEF Rest

\* The next tracker of a round, and the ones after it.
LEMMA RestParts ==
    ASSUME NEW q, Rest(q)
    PROVE  q # <<>> => Head(q) \in Trackers /\ Rest(Tail(q))
<1>1. Order \in Seq(Trackers) /\ Len(Order) \in Nat
  BY DataAssumption
<1>2. ASSUME q # <<>>
      PROVE  Head(q) \in Trackers /\ Rest(Tail(q))
  <2>1. PICK i \in 0..Len(Order) : q = SubSeq(Order, i + 1, Len(Order))
    BY DEF Rest
  <2>2. i # Len(Order)
    <3>1. SubSeq(Order, Len(Order) + 1, Len(Order)) = <<>>
      BY <1>1, SubSeqEmpty
    <3> QED
      BY <1>2, <2>1, <3>1
  <2>3. i + 1 \in 1..Len(Order) /\ Len(Order) \in (i + 1)..Len(Order)
    BY <1>1, <2>1, <2>2
  <2>4. Head(q) = Order[i + 1] /\ Tail(q) = SubSeq(Order, (i + 1) + 1, Len(Order))
    BY <1>1, <2>1, <2>3, HeadTailOfSubSeq
  <2>5. Order[i + 1] \in Trackers
    BY <2>3 DEF Trackers
  <2>6. i + 1 \in 0..Len(Order)
    BY <1>1, <2>3
  <2>7. Rest(Tail(q))
    BY <2>4, <2>6 DEF Rest
  <2> QED
    BY <2>4, <2>5, <2>7
<1> QED
  BY <1>2

\* An instant ages, to its limit.
LEMMA OlderType ==
    ASSUME NEW limit \in Nat \ {0}
    PROVE  /\ \A age \in Instants(limit) : Older(age, limit) \in Instants(limit)
           /\ \A age \in {Absent} \cup Instants(limit) :
                 Older(age, limit) \in {Absent} \cup Instants(limit)
           /\ Older(Never, limit) = Never
           /\ \A a, b \in 0..limit : a <= b => /\ Older(a, limit) \in 0..limit
                                               /\ Older(b, limit) \in 0..limit
                                               /\ Older(a, limit) <= Older(b, limit)
<1>1. Never \notin Nat /\ Absent \notin Nat
  BY TrackersAssumption
<1> QED
  BY <1>1 DEF Older, Instants

\* The peers read from any words are addresses.
LEMMA UdpType ==
    ASSUME NEW w \in Seq(Nat)
    PROVE  UdpPeers(w) \in Seq(Address)
<1> DEFINE n == IF Len(w) < MaxDatagram THEN Len(w) ELSE MaxDatagram
           buf(i) == IF i <= n THEN w[i] ELSE 0
           count == IF n > Header + 3 THEN (n - Header - 1) \div 3 ELSE 0
           at(k) == Header + 3 * (k - 1)
<1>1. UdpPeers(w) = [k \in 1..count |-> <<buf(at(k) + 1), buf(at(k) + 2), buf(at(k) + 5)>>]
  BY DEF UdpPeers
<1>2. n \in Nat /\ n <= Len(w)
  BY TrackersAssumption
<1>3. \A i \in Nat \ {0} : buf(i) \in Nat
  BY <1>2
<1> HIDE DEF n, buf
<1>4. count \in Nat
  BY <1>2 DEF Header
<1> HIDE DEF count
<1>5. \A k \in 1..count : <<buf(at(k) + 1), buf(at(k) + 2), buf(at(k) + 5)>> \in Address
  <2> SUFFICES ASSUME NEW k \in 1..count
               PROVE  <<buf(at(k) + 1), buf(at(k) + 2), buf(at(k) + 5)>> \in Address
    OBVIOUS
  <2>1. at(k) + 1 \in Nat \ {0} /\ at(k) + 2 \in Nat \ {0} /\ at(k) + 5 \in Nat \ {0}
    BY <1>4 DEF Header
  <2> QED
    BY <1>3, <2>1 DEF Address
<1> QED
  BY <1>1, <1>4, <1>5

LEMMA NumbersType ==
    /\ 0 \in Numbers
    /\ \A x \in Numbers : (x + 1) % Span \in Numbers /\ (x + 1) % Span # x
BY TrackersAssumption DEF Numbers

\* What an exchange that ends leaves behind.
LEMMA AnnouncedEffect ==
    ASSUME TypeOK, found \in Seq(Address), todo # <<>>, NEW peers \in Seq(Address),
           Announced(Head(todo), peers)
    PROVE  /\ pc' = "next"
           /\ last_announced_at' = [last_announced_at EXCEPT ![Head(todo)] = 0]
           /\ last_announced_at' \in [Trackers -> Instants(AnnounceBuffer)]
           /\ found' \in Seq(Address)
           /\ Len(found') = Len(found) + Len(peers)
           /\ \A i \in 1..Len(peers) : found'[Len(found) + i] = peers[i]
           /\ Rest(todo')
           /\ todo' # <<>> => Len(found') < MaxPeers
<1>1. Rest(todo)
  BY DEF TypeOK, Rest
<1>2. Head(todo) \in Trackers /\ Rest(todo')
  BY <1>1, RestParts, RestBounds DEF Announced
<1>3. 0 \in Instants(AnnounceBuffer)
  BY TrackersAssumption DEF Instants
<1>4. last_announced_at' \in [Trackers -> Instants(AnnounceBuffer)]
  BY <1>2, <1>3 DEF Announced, TypeOK
<1>5. found' = found \o peers
  BY DEF Announced
<1>6. /\ found' \in Seq(Address)
      /\ Len(found') = Len(found) + Len(peers)
      /\ \A i \in 1..Len(found) + Len(peers) :
            found'[i] = IF i <= Len(found) THEN found[i] ELSE peers[i - Len(found)]
  BY <1>5, ConcatProperties
<1>7. ASSUME NEW i \in 1..Len(peers)
      PROVE  found'[Len(found) + i] = peers[i]
  <2>1. /\ Len(found) + i \in 1..Len(found) + Len(peers)
        /\ ~(Len(found) + i <= Len(found))
        /\ (Len(found) + i) - Len(found) = i
    OBVIOUS
  <2> QED
    BY <1>6, <2>1
<1>8. todo' # <<>> => Len(found') < MaxPeers
  <2>1. Len(found') \in Nat /\ MaxPeers \in Nat
    BY <1>6, TrackersAssumption
  <2>2. todo' # <<>> => ~(Len(found') >= MaxPeers)
    BY DEF Announced
  <2> QED
    BY <2>1, <2>2
<1> QED
  BY <1>2, <1>4, <1>6, <1>7, <1>8 DEF Announced

LEMMA FailedEffect ==
    ASSUME TypeOK, found \in Seq(Address), todo # <<>>, Failed(Head(todo))
    PROVE  /\ pc' = "next"
           /\ last_announced_at' = [last_announced_at EXCEPT ![Head(todo)] = 0]
           /\ last_announced_at' \in [Trackers -> Instants(AnnounceBuffer)]
           /\ found' \in Seq(Address)
           /\ Len(found') = Len(found)
           /\ Rest(todo')
           /\ todo' # <<>> => Len(found') < MaxPeers
<1>1. <<>> \in Seq(Address) /\ Len(<<>>) = 0 /\ Len(found) \in Nat
  OBVIOUS
<1> DEFINE none == <<>>
<1>2. none \in Seq(Address) /\ Len(none) = 0 /\ Announced(Head(todo), none)
  BY <1>1 DEF Failed
<1> HIDE DEF none
<1>3. /\ pc' = "next"
      /\ last_announced_at' = [last_announced_at EXCEPT ![Head(todo)] = 0]
      /\ last_announced_at' \in [Trackers -> Instants(AnnounceBuffer)]
      /\ found' \in Seq(Address)
      /\ Len(found') = Len(found) + Len(none)
      /\ Rest(todo')
      /\ todo' # <<>> => Len(found') < MaxPeers
  BY <1>2, AnnouncedEffect
<1> QED
  BY <1>1, <1>2, <1>3

\* How an exchange may start.
LEMMA StartEffect ==
    ASSUME TypeOK, found \in Seq(Address), StartExchange
    PROVE  LET t == Head(todo) IN
           /\ pc = "next" /\ todo # <<>> /\ t \in Trackers /\ ~Throttled(t)
           /\ client_port' = (client_port + 1) % Span
           /\ transaction' = (transaction + 1) % Span
           /\ answers' = Recent(answers)
           /\ strayed' = FALSE
           /\ UNCHANGED <<scheme, initiated, faulty>>
           /\ \/ /\ pc' = "http" /\ sent' = [sent EXCEPT ![t] = 0]
                 /\ requests' = Recent(requests)
                 /\ UNCHANGED <<last_announced_at, found, todo>>
              \/ /\ pc' = "connect" /\ sent' = [sent EXCEPT ![t] = 0]
                 /\ requests' = Recent(requests)
                       \cup {Request(t, client_port', transaction', "connect")}
                 /\ UNCHANGED <<last_announced_at, found, todo>>
              \/ /\ Failed(t)
                 /\ requests' = Recent(requests)
                 /\ UNCHANGED sent
              \/ /\ pc' = "panicked" /\ scheme[t] = "udp without port"
                 /\ UNCHANGED <<last_announced_at, found, todo, requests, sent>>
<1> DEFINE t == Head(todo)
<1>1. pc = "next" /\ todo # <<>>
  BY DEF StartExchange
<1>2. t \in Trackers
  BY <1>1, RestParts DEF TypeOK, Rest
<1>3. scheme[t] \in {"http", "udp", "udp without port", "other"}
  BY <1>2, TrackersAssumption DEF TypeOK, Schemes
<1>4. /\ ~Throttled(t)
      /\ client_port' = (client_port + 1) % Span
      /\ transaction' = (transaction + 1) % Span
      /\ answers' = Recent(answers)
      /\ strayed' = FALSE
      /\ UNCHANGED <<scheme, initiated, faulty>>
  BY DEF StartExchange, NextPort
<1>5. CASE scheme[t] = "http"
  <2>1. StartHttp(t)
    BY <1>5 DEF StartExchange
  <2> QED
    BY <1>1, <1>2, <1>4, <2>1 DEF StartHttp
<1>6. CASE scheme[t] = "udp"
  <2>1. StartUdp(t)
    BY <1>6 DEF StartExchange
  <2> QED
    BY <1>1, <1>2, <1>4, <2>1 DEF StartUdp
<1>7. CASE scheme[t] = "other"
  <2>1. Failed(t) /\ requests' = Recent(requests) /\ UNCHANGED sent
    BY <1>7 DEF StartExchange
  <2> QED
    BY <1>1, <1>2, <1>4, <2>1
<1>8. CASE scheme[t] = "udp without port"
  <2>1. pc' = "panicked" /\ UNCHANGED <<last_announced_at, found, todo, requests, sent>>
    BY <1>8 DEF StartExchange
  <2> QED
    BY <1>1, <1>2, <1>4, <1>8, <2>1
<1> QED
  BY <1>3, <1>5, <1>6, <1>7, <1>8

LEMMA NamedType == NamedChoices \subseteq Seq(Address)
<1>1. Addresses \subseteq Address /\ NamedChoices \subseteq Seq(Addresses)
  BY DataAssumption DEF Address
<1>2. \A peers \in Seq(Addresses) : peers \in Seq(Address)
  BY <1>1, SeqMonotonic
<1> QED
  BY <1>1, <1>2

\* Whatever was received, addresses are read from it.
LEMMA ReceivedType ==
    ASSUME NetworkInv, NEW d \in answers \cup StrayAnswers
    PROVE  UdpPeers(DatagramWords(d)) \in Seq(Address)
<1>1. Zeros(4) \in Seq(Nat) /\ Zeros(8) \in Seq(Nat) /\ Zeros(Header) \in Seq(Nat)
  BY DEF Zeros, Header
<1>2. CASE d.action = "connect"
  BY <1>1, <1>2, UdpType DEF DatagramWords
<1>3. CASE d.action = "announce" /\ d.body \in NamedChoices
  <2>1. Words(d.body) \in Seq(Nat)
    BY <1>3, NamedType, WordsOfPeers
  <2>2. Zeros(Header) \o Words(d.body) \in Seq(Nat)
    BY <1>1, <2>1, ConcatProperties
  <2>3. DatagramWords(d) = Zeros(Header) \o Words(d.body)
    BY <1>3 DEF DatagramWords
  <2> QED
    BY <2>2, <2>3, UdpType
<1>4. CASE d.action = "error" /\ d.body \in Texts
  <2>1. d.body \in Seq(Nat)
    BY <1>4, DataAssumption
  <2>2. Zeros(4) \o d.body \in Seq(Nat)
    BY <1>1, <2>1, ConcatProperties
  <2>3. DatagramWords(d) = Zeros(4) \o d.body
    BY <1>4 DEF DatagramWords
  <2> QED
    BY <2>2, <2>3, UdpType
<1>5. CASE d \in StrayAnswers
  <2>1. PICK content \in Strays : d = [port |-> client_port, transaction |-> Foreign,
                                      action |-> content[1], body |-> content[2]]
    BY <1>5 DEF StrayAnswers
  <2>2. d.action = content[1] /\ d.body = content[2]
    BY <2>1
  <2>3. \/ content[1] = "connect"
        \/ content[1] = "announce" /\ content[2] \in NamedChoices
        \/ content[1] = "error" /\ content[2] \in Texts
    BY DataAssumption
  <2> QED
    BY <1>2, <1>3, <1>4, <2>2, <2>3
<1> QED
  BY <1>2, <1>3, <1>4, <1>5 DEF NetworkInv

\* An answer meant for another controller is noticed, by the model.
LEMMA StrayTaken ==
    ASSUME NEW d \in StrayAnswers, Receive(d)
    PROVE  strayed'
<1>1. d.transaction = Foreign
  BY DEF StrayAnswers
<1>2. strayed' = (d.transaction = Foreign)
  BY DEF Receive
<1> QED
  BY <1>1, <1>2, Zenon

\* Every step keeps the types.
LEMMA TypeNext ==
    ASSUME TypeOK, found \in Seq(Address), NetworkInv, [Next]_vars
    PROVE  TypeOK' /\ found' \in Seq(Address)
<1> USE DEF exchange, network, history
<1>1. {client_port, transaction} \subseteq Numbers /\ Rest(todo)
  BY DEF TypeOK, Rest
<1>2. 0 \in Instants(AnnounceBuffer) /\ 0 \in Instants(PeerFresh)
  BY TrackersAssumption DEF Instants
<1>3. CASE RefreshPeers
  <2>1. Rest(Order) /\ <<>> \in Seq(Address)
    BY RestBounds
  <2>2. \/ todo' = todo /\ found' = found
        \/ todo' = Order /\ found' = <<>>
    BY <1>3, Zenon DEF RefreshPeers
  <2>3. Rest(todo') /\ found' \in Seq(Address)
    BY <1>1, <2>1, <2>2
  <2>4. todo' # <<>> => Len(found') < MaxPeers
    <3>1. Len(<<>>) = 0 /\ MaxPeers \in Nat \ {0}
      BY TrackersAssumption
    <3>2. todo # <<>> => Len(found) < MaxPeers
      BY DEF TypeOK
    <3> QED
      BY <2>2, <3>1, <3>2
  <2> QED
    BY <1>3, <2>3, <2>4 DEF RefreshPeers, TypeOK, Rest
<1>4. CASE SkipTracker
  <2>1. Rest(todo') /\ found' \in Seq(Address)
    BY <1>1, <1>4, RestParts DEF SkipTracker
  <2> QED
    BY <1>4, <2>1 DEF SkipTracker, TypeOK, Rest
<1>5. CASE StartExchange
  <2> DEFINE t == Head(todo)
  <2>1. /\ pc = "next" /\ todo # <<>> /\ t \in Trackers
        /\ {client_port', transaction'} \subseteq Numbers
        /\ strayed' = FALSE
        /\ UNCHANGED <<scheme, initiated, faulty>>
    BY <1>1, <1>5, StartEffect, NumbersType
  <2>2. [sent EXCEPT ![t] = 0] \in [Trackers -> Instants(AnnounceBuffer)]
    BY <1>2, <2>1 DEF TypeOK
  <2>3. CASE Failed(t) /\ UNCHANGED sent
    <3>1. /\ pc' = "next" /\ Rest(todo') /\ found' \in Seq(Address)
          /\ todo' # <<>> => Len(found') < MaxPeers
          /\ last_announced_at' \in [Trackers -> Instants(AnnounceBuffer)]
      BY <2>1, <2>3, FailedEffect
    <3> QED
      BY <2>1, <2>3, <3>1 DEF TypeOK, Rest
  <2>4. CASE /\ pc' \in {"http", "connect", "panicked"}
             /\ UNCHANGED <<last_announced_at, found, todo>>
             /\ sent' \in {sent, [sent EXCEPT ![t] = 0]}
    BY <2>1, <2>2, <2>4 DEF TypeOK
  <2> QED
    BY <1>5, <2>3, <2>4, StartEffect
<1>6. CASE EndRound
  <2>1. found' \in Seq(Address)
    BY <1>6 DEF EndRound
  <2>2. initiated' \in [Addresses -> {Absent} \cup Instants(PeerFresh)]
    BY <1>6 DEF EndRound, TypeOK, Instants
  <2> QED
    BY <1>6, <2>1, <2>2 DEF EndRound, TypeOK
<1>7. CASE HttpFails \/ UdpFails
  <2>1. /\ todo # <<>> /\ Failed(Head(todo))
        /\ UNCHANGED <<scheme, exchange, initiated, network, history>>
    BY <1>7 DEF HttpFails, UdpFails, TypeOK
  <2>2. /\ pc' = "next" /\ Rest(todo') /\ found' \in Seq(Address)
        /\ todo' # <<>> => Len(found') < MaxPeers
        /\ last_announced_at' \in [Trackers -> Instants(AnnounceBuffer)]
    BY <2>1, FailedEffect
  <2> QED
    BY <2>1, <2>2 DEF TypeOK, Rest
<1>8. ASSUME NEW peers \in NamedChoices, HttpAnswers(peers)
      PROVE  TypeOK' /\ found' \in Seq(Address)
  <2>1. peers \in Seq(Address) /\ todo # <<>>
    BY <1>8, NamedType DEF HttpAnswers, TypeOK
  <2>2. Announced(Head(todo), peers) /\ UNCHANGED <<scheme, exchange, initiated, network, sent, faulty, strayed>>
    BY <1>8, <2>1, CompactRead, ListRead DEF HttpAnswers
  <2>3. /\ pc' = "next" /\ Rest(todo') /\ found' \in Seq(Address)
        /\ todo' # <<>> => Len(found') < MaxPeers
        /\ last_announced_at' \in [Trackers -> Instants(AnnounceBuffer)]
    BY <2>1, <2>2, AnnouncedEffect
  <2> QED
    BY <2>2, <2>3 DEF TypeOK, Rest
<1>9. ASSUME NEW peers \in NamedChoices, HttpPanics(peers)
      PROVE  TypeOK' /\ found' \in Seq(Address)
  BY <1>9 DEF HttpPanics, TypeOK
<1>10. ASSUME NEW d \in answers \cup StrayAnswers, ReceiveConnect(d)
       PROVE  TypeOK' /\ found' \in Seq(Address)
  BY <1>10 DEF ReceiveConnect, Receive, TypeOK
<1>11. ASSUME NEW d \in answers \cup StrayAnswers, ReceiveAnnounce(d)
       PROVE  TypeOK' /\ found' \in Seq(Address)
  <2>1. /\ todo # <<>> /\ Announced(Head(todo), UdpPeers(DatagramWords(d)))
        /\ strayed' \in BOOLEAN
        /\ UNCHANGED <<scheme, exchange, initiated, requests, sent, named, faulty>>
    BY <1>11 DEF ReceiveAnnounce, Receive, TypeOK
  <2>2. /\ pc' = "next" /\ Rest(todo') /\ found' \in Seq(Address)
        /\ todo' # <<>> => Len(found') < MaxPeers
        /\ last_announced_at' \in [Trackers -> Instants(AnnounceBuffer)]
    BY <2>1, ReceivedType, AnnouncedEffect
  <2> QED
    BY <2>1, <2>2 DEF TypeOK, Rest
<1>12. ASSUME NEW S \in SUBSET Addresses, EndPass(S)
       PROVE  TypeOK' /\ found' \in Seq(Address)
  BY <1>2, <1>12 DEF EndPass, TypeOK
<1>13. CASE NetworkStep
  BY <1>13 DEF NetworkStep, TrackerStep, AnswerConnect, AnswerAnnounce, AnswerError, TypeOK
<1>14. CASE Tick
  <2>1. /\ last_announced_at' \in [Trackers -> Instants(AnnounceBuffer)]
        /\ sent' \in [Trackers -> Instants(AnnounceBuffer)]
        /\ initiated' \in [Addresses -> {Absent} \cup Instants(PeerFresh)]
    BY <1>14, OlderType, TrackersAssumption DEF Tick, TypeOK
  <2> QED
    BY <1>14, <2>1 DEF Tick, TypeOK
<1>15. CASE UNCHANGED vars
  BY <1>15 DEF vars, TypeOK
<1> QED
  BY <1>3, <1>4, <1>5, <1>6, <1>7, <1>8, <1>9, <1>10, <1>11, <1>12, <1>13, <1>14, <1>15
     DEF Next, ControllerStep

-----------------------------------------------------------------------------
(* The network and the exchange. *)

\* What a step leaves of the datagrams: the ones it keeps, the request it sends,
\* and the answer a tracker gives.
LEMMA NetworkNext ==
    ASSUME TypeOK, found \in Seq(Address), NetworkInv, [Next]_vars
    PROVE  NetworkInv'
<1> USE DEF exchange, network, history
<1>1. CASE UNCHANGED network /\ UNCHANGED exchange /\ (faulty => faulty')
  BY <1>1 DEF NetworkInv
<1>2. CASE \/ RefreshPeers \/ SkipTracker \/ EndRound \/ HttpFails \/ UdpFails
           \/ \E peers \in NamedChoices : HttpAnswers(peers) \/ HttpPanics(peers)
           \/ \E S \in SUBSET Addresses : EndPass(S)
           \/ Tick
  BY <1>1, <1>2 DEF RefreshPeers, SkipTracker, EndRound, HttpFails, UdpFails, HttpAnswers,
     HttpPanics, EndPass, Tick
<1>3. CASE StartExchange
  <2> DEFINE t == Head(todo)
             r == Request(t, client_port', transaction', "connect")
  <2>1. /\ t \in Trackers
        /\ client_port' = (client_port + 1) % Span
        /\ transaction' = (transaction + 1) % Span
        /\ answers' = Recent(answers)
        /\ requests' \subseteq requests \cup {r}
        /\ faulty' = faulty
    BY <1>3, StartEffect DEF Recent
  <2>2. client_port' = transaction' /\ transaction' \in Numbers
    BY <2>1, NumbersType DEF NetworkInv, TypeOK
  <2>3. /\ r \in [tracker : Trackers, port : Numbers, transaction : Numbers,
                  action : {"connect", "announce"}]
        /\ r.port = r.transaction
    BY <2>1, <2>2 DEF Request
  <2> HIDE DEF r
  <2> QED
    BY <2>1, <2>2, <2>3 DEF NetworkInv, Recent
<1>4. ASSUME NEW d \in answers \cup StrayAnswers, ReceiveConnect(d)
      PROVE  NetworkInv'
  <2> DEFINE r == Request(Head(todo), client_port, transaction, "announce")
  <2>1. todo # <<>> /\ Head(todo) \in Trackers
    BY <1>4, RestParts DEF ReceiveConnect, TypeOK, Rest
  <2>2. /\ r \in [tracker : Trackers, port : Numbers, transaction : Numbers,
                  action : {"connect", "announce"}]
        /\ r.port = r.transaction
    BY <2>1 DEF Request, NetworkInv, TypeOK
  <2>3. /\ requests' \subseteq requests \cup {r}
        /\ answers' \subseteq answers
        /\ UNCHANGED <<exchange, faulty>>
    BY <1>4 DEF ReceiveConnect, Receive
  <2> HIDE DEF r
  <2> QED
    BY <2>2, <2>3 DEF NetworkInv
<1>5. ASSUME NEW d \in answers \cup StrayAnswers, ReceiveAnnounce(d)
      PROVE  NetworkInv'
  BY <1>5 DEF ReceiveAnnounce, Receive, NetworkInv
<1>6. ASSUME NEW r \in requests, TrackerStep(r),
             \/ AnswerConnect(r)
             \/ \E peers \in NamedChoices : AnswerAnnounce(r, peers)
             \/ \E text \in Texts : AnswerError(r, text)
      PROVE  NetworkInv'
  <2>1. requests' \subseteq requests /\ UNCHANGED exchange /\ (faulty => faulty')
    BY <1>6 DEF TrackerStep, AnswerConnect, AnswerAnnounce, AnswerError
  <2>2. PICK a, b : /\ answers' = answers \cup {Datagram(r, a, b)}
                    /\ \/ a = "connect"
                       \/ a = "announce" /\ b \in NamedChoices
                       \/ a = "error" /\ b \in Texts /\ faulty' = TRUE
    <3>1. CASE AnswerConnect(r)
      BY <3>1 DEF AnswerConnect
    <3>2. CASE \E peers \in NamedChoices : AnswerAnnounce(r, peers)
      BY <3>2 DEF AnswerAnnounce
    <3>3. CASE \E text \in Texts : AnswerError(r, text)
      BY <3>3 DEF AnswerError
    <3> QED
      BY <1>6, <3>1, <3>2, <3>3
  <2> DEFINE d == Datagram(r, a, b)
  <2>3. d.port = r.port /\ d.transaction = r.transaction /\ d.action = a /\ d.body = b
    BY DEF Datagram
  <2>4. answers' = answers \cup {d} /\ r.port = r.transaction
    BY <2>2 DEF NetworkInv
  <2> HIDE DEF d
  <2> QED
    BY <2>1, <2>2, <2>3, <2>4 DEF NetworkInv
<1>7. CASE UNCHANGED vars
  BY <1>1, <1>7 DEF vars
<1> QED
  BY <1>2, <1>3, <1>4, <1>5, <1>6, <1>7 DEF Next, ControllerStep, NetworkStep

\* What waits for the controller belongs to its exchange, after every step.
LEMMA ExchangeNext ==
    ASSUME TypeOK, found \in Seq(Address), NetworkInv, ExchangeInv, [Next]_vars
    PROVE  ExchangeInv'
<1> USE DEF exchange, network, history
<1>1. CASE pc' \notin {"connect", "announce"}
  BY <1>1 DEF ExchangeInv
<1>2. CASE UNCHANGED <<pc, exchange, network, history>>
  BY <1>2 DEF ExchangeInv, Current, Awaited
<1>3. CASE StartExchange /\ pc' = "connect"
  <2> DEFINE r == Request(Head(todo), client_port', transaction', "connect")
  <2>1. /\ transaction' = (transaction + 1) % Span
        /\ answers' = Recent(answers)
        /\ requests' = Recent(requests) \cup {r}
    <3>1. Failed(Head(todo)) => pc' = "next"
      BY DEF Failed, Announced
    <3> QED
      BY <1>3, <3>1, StartEffect
  <2>2. transaction' # transaction
    BY <2>1, NumbersType DEF TypeOK
  <2>3. r.action = "connect"
    BY DEF Request
  <2> HIDE DEF r
  <2>4. \A q \in Current(requests)' : q.action = "connect"
    BY <2>1, <2>2, <2>3 DEF Current, Recent
  <2>5. Current(answers)' = {}
    BY <2>1, <2>2 DEF Current, Recent
  <2> QED
    BY <1>3, <2>4, <2>5 DEF ExchangeInv
<1>4. ASSUME NEW d \in answers \cup StrayAnswers, ReceiveConnect(d), pc' = "announce"
      PROVE  ExchangeInv'
  <2> DEFINE r == Request(Head(todo), client_port, transaction, "announce")
  <2>1. /\ pc = "connect"
        /\ requests' = requests \cup {r}
        /\ answers' \subseteq answers
        /\ transaction' = transaction /\ faulty' = faulty /\ named' = named
    BY <1>4 DEF ReceiveConnect, Receive
  <2> HIDE DEF r
  <2>2. /\ \A q \in Current(requests) : q.action = "connect"
        /\ ~faulty => \A q \in Current(answers) : q.action = "connect"
    BY <2>1 DEF ExchangeInv
  <2>3. Awaited("announce")' \subseteq {r}
    BY <1>4, <2>1, <2>2 DEF Awaited, Current
  <2>4. ~faulty => \A q \in Current(answers)' : q.action = "connect"
    BY <2>1, <2>2 DEF Current
  <2> QED
    BY <1>4, <2>1, <2>3, <2>4 DEF ExchangeInv
<1>5. ASSUME NEW r \in requests, TrackerStep(r),
             \/ AnswerConnect(r)
             \/ \E peers \in NamedChoices : AnswerAnnounce(r, peers)
             \/ \E text \in Texts : AnswerError(r, text)
      PROVE  ExchangeInv'
  <2>1. /\ requests' = requests \ {r}
        /\ pc' = pc /\ transaction' = transaction
    BY <1>5 DEF TrackerStep
  <2>2. /\ Current(requests)' \subseteq Current(requests)
        /\ Awaited("announce")' = Awaited("announce") \ {r}
    BY <2>1 DEF Current, Awaited
  <2>3. \A a, b : LET d == Datagram(r, a, b)
                  IN  /\ d.action = a /\ d.body = b
                      /\ answers' = answers \cup {d} =>
                            \A q \in Current(answers)' :
                                \/ q \in Current(answers)
                                \/ q = d /\ r \in Current(requests)
    BY <2>1 DEF Datagram, Current
  <2>4. CASE AnswerConnect(r)
    <3>1. /\ answers' = answers \cup {Datagram(r, "connect", <<>>)}
          /\ UNCHANGED <<named, faulty>>
      BY <2>4 DEF AnswerConnect
    <3>2. \A q \in Current(answers)' : q \in Current(answers) \/ q.action = "connect"
      BY <2>3, <3>1
    <3> QED
      BY <2>1, <2>2, <3>1, <3>2 DEF ExchangeInv
  <2>5. ASSUME NEW peers \in NamedChoices, AnswerAnnounce(r, peers)
        PROVE  ExchangeInv'
    <3> DEFINE d == Datagram(r, "announce", peers)
    <3>1. /\ r.action = "announce"
          /\ answers' = answers \cup {d}
          /\ named' = IF r \in Awaited("announce") THEN peers ELSE named
          /\ faulty' = faulty
      BY <2>5 DEF AnswerAnnounce
    <3>2. /\ d.body = peers /\ d.action = "announce"
          /\ \A q \in Current(answers)' : \/ q \in Current(answers)
                                          \/ q = d /\ r \in Current(requests)
      BY <2>3, <3>1
    <3> HIDE DEF d
    <3>3. CASE pc = "connect"
      <4>1. r \notin Current(requests)
        BY <3>1, <3>3 DEF ExchangeInv
      <4> QED
        BY <2>1, <2>2, <3>1, <3>2, <3>3, <4>1 DEF ExchangeInv
    <3>4. CASE pc = "announce" /\ r \in Awaited("announce")
      <4>1. Awaited("announce")' = {}
        BY <2>2, <3>4 DEF ExchangeInv
      <4>2. ~faulty => \A q \in Current(answers) : q.action # "announce"
        BY <3>4 DEF ExchangeInv
      <4>3. named' = peers
        BY <3>1, <3>4
      <4> QED
        BY <2>1, <3>1, <3>2, <3>4, <4>1, <4>2, <4>3 DEF ExchangeInv
    <3>5. CASE pc = "announce" /\ r \notin Awaited("announce")
      <4>1. r \notin Current(requests)
        BY <3>1, <3>5 DEF Awaited, Current
      <4>2. named' = named
        BY <3>1, <3>5
      <4> QED
        BY <2>1, <2>2, <3>1, <3>2, <3>5, <4>1, <4>2 DEF ExchangeInv
    <3> QED
      BY <1>1, <2>1, <3>3, <3>4, <3>5
  <2>6. ASSUME NEW text \in Texts, AnswerError(r, text)
        PROVE  ExchangeInv'
    <3>1. faulty' = TRUE
      BY <2>6 DEF AnswerError
    <3> QED
      BY <2>1, <2>2, <3>1 DEF ExchangeInv
  <2> QED
    BY <1>5, <2>4, <2>5, <2>6
<1>6. CASE \/ RefreshPeers \/ SkipTracker \/ EndRound \/ HttpFails \/ UdpFails
           \/ \E peers \in NamedChoices : HttpAnswers(peers) \/ HttpPanics(peers)
           \/ \E S \in SUBSET Addresses : EndPass(S)
           \/ \E d \in answers \cup StrayAnswers : ReceiveAnnounce(d)
  <2>1. pc' \notin {"connect", "announce"}
    BY <1>6 DEF RefreshPeers, SkipTracker, EndRound, HttpFails, UdpFails, HttpAnswers,
       HttpPanics, EndPass, ReceiveAnnounce, Failed, Announced
  <2> QED
    BY <1>1, <2>1
<1>7. CASE Tick
  BY <1>7 DEF Tick, ExchangeInv, Current, Awaited
<1>8. ASSUME NEW d \in answers \cup StrayAnswers, ReceiveConnect(d)
      PROVE  pc' \in {"announce", "panicked"}
  BY <1>8 DEF ReceiveConnect
<1>9. CASE StartExchange
  <2>1. pc' # "announce"
    <3>1. Failed(Head(todo)) => pc' = "next"
      BY DEF Failed, Announced
    <3> QED
      BY <1>9, <3>1, StartEffect
  <2> QED
    BY <1>1, <1>3, <1>9, <2>1
<1> QED
  BY <1>1, <1>2, <1>4, <1>5, <1>6, <1>7, <1>8, <1>9
     DEF Next, ControllerStep, NetworkStep, vars

-----------------------------------------------------------------------------
(* Times, and panics. *)

\* An exchange that ends leaves its tracker alone from then on, and another one as
\* it was.
LEMMA ThrottleNext ==
    ASSUME TypeOK, found \in Seq(Address), NetworkInv, ThrottleInv, [Next]_vars
    PROVE  ThrottleInv'
<1> SUFFICES ASSUME NEW t \in Trackers
             PROVE  \/ sent'[t] = Never
                    \/ last_announced_at'[t] # Never /\ last_announced_at'[t] <= sent'[t]
                    \/ pc' \in {"http", "connect", "announce"} /\ t = Head(todo')
                    \/ pc' = "panicked"
  BY DEF ThrottleInv
<1> USE DEF exchange, network, history
<1> DEFINE Before == \/ sent[t] = Never
                     \/ last_announced_at[t] # Never /\ last_announced_at[t] <= sent[t]
<1>1. /\ sent[t] \in {Never} \cup 0..AnnounceBuffer
      /\ last_announced_at[t] \in {Never} \cup 0..AnnounceBuffer
      /\ AnnounceBuffer \in Nat \ {0}
      /\ Never \notin Nat
  BY TrackersAssumption DEF TypeOK, Instants
<1>2. \/ Before
      \/ pc \in {"http", "connect", "announce"} /\ t = Head(todo)
      \/ pc = "panicked"
  BY DEF ThrottleInv
<1>3. ASSUME todo # <<>>, pc' = "next", UNCHANGED sent, t # Head(todo) => Before,
             last_announced_at' = [last_announced_at EXCEPT ![Head(todo)] = 0]
      PROVE  \/ sent'[t] = Never
             \/ last_announced_at'[t] # Never /\ last_announced_at'[t] <= sent'[t]
  BY <1>1, <1>3 DEF TypeOK
<1>4. CASE RefreshPeers \/ SkipTracker \/ EndRound
  BY <1>2, <1>4 DEF RefreshPeers, SkipTracker, EndRound
<1>5. CASE StartExchange
  <2>1. /\ pc = "next" /\ todo # <<>> /\ Head(todo) \in Trackers /\ Before
        /\ \/ /\ pc' \in {"http", "connect"} /\ sent' = [sent EXCEPT ![Head(todo)] = 0]
              /\ UNCHANGED <<last_announced_at, todo>>
           \/ Failed(Head(todo)) /\ UNCHANGED sent
           \/ pc' = "panicked"
    BY <1>2, <1>5, StartEffect
  <2>2. CASE Failed(Head(todo)) /\ UNCHANGED sent
    BY <1>3, <2>1, <2>2, FailedEffect
  <2>3. CASE /\ pc' \in {"http", "connect"} /\ sent' = [sent EXCEPT ![Head(todo)] = 0]
             /\ UNCHANGED <<last_announced_at, todo>>
    BY <2>1, <2>3 DEF TypeOK
  <2> QED
    BY <2>1, <2>2, <2>3
<1>6. CASE HttpFails \/ UdpFails
  <2>1. /\ todo # <<>> /\ Failed(Head(todo)) /\ UNCHANGED sent
        /\ t # Head(todo) => Before
    BY <1>2, <1>6 DEF HttpFails, UdpFails, TypeOK
  <2> QED
    BY <1>3, <2>1, FailedEffect
<1>7. ASSUME NEW peers \in NamedChoices, HttpAnswers(peers)
      PROVE  \/ sent'[t] = Never
             \/ last_announced_at'[t] # Never /\ last_announced_at'[t] <= sent'[t]
  <2>1. peers \in Seq(Address)
    BY NamedType
  <2>2. /\ todo # <<>> /\ Announced(Head(todo), peers) /\ UNCHANGED sent
        /\ t # Head(todo) => Before
    BY <1>2, <1>7, <2>1, CompactRead, ListRead DEF HttpAnswers, TypeOK
  <2> QED
    BY <1>3, <2>1, <2>2, AnnouncedEffect
<1>8. CASE \E peers \in NamedChoices : HttpPanics(peers)
  BY <1>8 DEF HttpPanics
<1>9. CASE \E d \in answers \cup StrayAnswers : ReceiveConnect(d)
  BY <1>2, <1>9 DEF ReceiveConnect, Receive
<1>10. ASSUME NEW d \in answers \cup StrayAnswers, ReceiveAnnounce(d)
       PROVE  \/ sent'[t] = Never
              \/ last_announced_at'[t] # Never /\ last_announced_at'[t] <= sent'[t]
  <2>1. /\ todo # <<>> /\ Announced(Head(todo), UdpPeers(DatagramWords(d))) /\ UNCHANGED sent
        /\ t # Head(todo) => Before
    BY <1>2, <1>10 DEF ReceiveAnnounce, Receive, TypeOK
  <2> QED
    BY <1>3, <2>1, ReceivedType, AnnouncedEffect
<1>11. CASE \E S \in SUBSET Addresses : EndPass(S)
  BY <1>2, <1>11 DEF EndPass
<1>12. CASE NetworkStep
  BY <1>2, <1>12 DEF NetworkStep, TrackerStep
<1>13. CASE Tick
  <2>1. /\ sent'[t] = Older(sent[t], AnnounceBuffer)
        /\ last_announced_at'[t] = Older(last_announced_at[t], AnnounceBuffer)
        /\ pc' = pc /\ todo' = todo
    BY <1>13 DEF Tick
  <2>2. CASE sent[t] = Never
    BY <1>1, <2>1, <2>2, OlderType
  <2>3. CASE last_announced_at[t] # Never /\ last_announced_at[t] <= sent[t] /\ sent[t] # Never
    <3>1. Older(last_announced_at[t], AnnounceBuffer) \in 0..AnnounceBuffer
          /\ Older(last_announced_at[t], AnnounceBuffer) <= Older(sent[t], AnnounceBuffer)
      BY <1>1, <2>3, OlderType
    <3> QED
      BY <1>1, <2>1, <3>1
  <2> QED
    BY <1>2, <2>1, <2>2, <2>3
<1>14. CASE UNCHANGED vars
  BY <1>2, <1>14 DEF vars
<1> QED
  BY <1>4, <1>5, <1>6, <1>7, <1>8, <1>9, <1>10, <1>11, <1>12, <1>13, <1>14
     DEF Next, ControllerStep

\* An assertion fails on datagrams of this exchange alone, and those are all right.
LEMMA HonestNext ==
    ASSUME TypeOK, found \in Seq(Address), NetworkInv, ExchangeInv, HonestTrackersHarmless,
           [Next]_vars
    PROVE  HonestTrackersHarmless'
<1> USE DEF exchange, network, history, HonestTrackersHarmless
<1>1. CASE UNCHANGED <<pc, scheme, strayed>> /\ (faulty => faulty')
  BY <1>1
<1>2. CASE pc' # "panicked"
  BY <1>2
<1>3. CASE StartExchange /\ pc' = "panicked"
  <2>1. Head(todo) \in Trackers /\ scheme' = scheme /\ scheme[Head(todo)] = "udp without port"
    <3>1. Failed(Head(todo)) => pc' = "next"
      BY DEF Failed, Announced
    <3> QED
      BY <1>3, <3>1, StartEffect
  <2> QED
    BY <2>1
<1>4. CASE \E peers \in NamedChoices : HttpPanics(peers)
  BY <1>4 DEF HttpPanics
<1>5. ASSUME NEW d \in answers \cup StrayAnswers, ReceiveConnect(d), pc' = "panicked"
      PROVE  faulty \/ strayed'
  <2>1. /\ pc = "connect" /\ d.port = client_port /\ strayed' = (d.transaction = Foreign)
        /\ ~(d.action = "connect" /\ d.transaction = transaction)
    BY <1>5 DEF ReceiveConnect, Receive
  <2>2. CASE d \in StrayAnswers
    BY <1>5, <2>2, StrayTaken DEF ReceiveConnect
  <2>3. CASE d \in answers
    <3>1. d.transaction = transaction
      BY <2>1, <2>3 DEF NetworkInv
    <3>2. d \in Current(answers)
      BY <2>3, <3>1 DEF Current
    <3> QED
      BY <2>1, <3>1, <3>2 DEF ExchangeInv
  <2> QED
    BY <2>2, <2>3
<1>6. CASE \E d \in answers \cup StrayAnswers : ReceiveConnect(d)
  <2>1. faulty' = faulty
    BY <1>6 DEF ReceiveConnect, Receive
  <2> QED
    BY <1>2, <1>5, <1>6, <2>1
<1>7. CASE \/ RefreshPeers \/ SkipTracker \/ EndRound \/ HttpFails \/ UdpFails
           \/ \E peers \in NamedChoices : HttpAnswers(peers)
           \/ \E S \in SUBSET Addresses : EndPass(S)
           \/ \E d \in answers \cup StrayAnswers : ReceiveAnnounce(d)
  <2>1. pc' # "panicked"
    BY <1>7 DEF RefreshPeers, SkipTracker, EndRound, HttpFails, UdpFails, HttpAnswers,
       EndPass, ReceiveAnnounce, Failed, Announced
  <2> QED
    BY <1>2, <2>1
<1>8. CASE NetworkStep
  <2>1. UNCHANGED <<pc, scheme, strayed>>
    BY <1>8 DEF NetworkStep, TrackerStep
  <2>2. faulty' = faulty \/ faulty' = TRUE
    BY <1>8 DEF NetworkStep, AnswerConnect, AnswerAnnounce, AnswerError
  <2> QED
    BY <1>1, <2>1, <2>2
<1>9. CASE Tick
  BY <1>1, <1>9 DEF Tick
<1>10. CASE UNCHANGED vars
  BY <1>1, <1>10 DEF vars
<1> QED
  BY <1>2, <1>3, <1>4, <1>6, <1>7, <1>8, <1>9, <1>10 DEF Next, ControllerStep

-----------------------------------------------------------------------------
(* The theorems. *)

LEMMA InvInit == Init => TrackersInv
<1> SUFFICES ASSUME Init
             PROVE  TrackersInv
    OBVIOUS
<1> USE DEF Init
<1>1. TypeOK
  <2>1. Rest(todo)
    BY RestBounds
  <2> QED
    BY <2>1, NumbersType DEF TypeOK, Rest, Instants
<1>2. found \in Seq(Address)
  OBVIOUS
<1>3. NetworkInv /\ ExchangeInv /\ ThrottleInv /\ HonestTrackersHarmless
  BY DEF NetworkInv, ExchangeInv, ThrottleInv, HonestTrackersHarmless
<1> QED
  BY <1>1, <1>2, <1>3 DEF TrackersInv

\* The inductive invariant: an exchange, the datagrams of its port, the round and the
\* times of the announces agree (sync_with_trackers, udp_tracker).
THEOREM TrackersInvariant == Spec => []TrackersInv
<1>1. TrackersInv /\ [Next]_vars => TrackersInv'
  BY TypeNext, NetworkNext, ExchangeNext, ThrottleNext, HonestNext DEF TrackersInv
<1> QED
  BY InvInit, <1>1, PTL DEF Spec

\* Every variable holds a value of its type; what a round has still to see is the
\* end of the order it began with.
THEOREM TypeCorrect == Spec => []TypeOK
<1>1. TrackersInv => TypeOK
  BY DEF TrackersInv
<1> QED
  BY <1>1, TrackersInvariant, PTL

\* Trackers that follow the protocol never make an exchange panic, whatever the
\* network loses, delays or repeats of this controller's exchanges; an answer meant
\* for another controller on the same port is what else can (udp_tracker,
\* decode_peers).
THEOREM HonestHarmless == Spec => []HonestTrackersHarmless
<1>1. TrackersInv => HonestTrackersHarmless
  BY DEF TrackersInv
<1> QED
  BY <1>1, TrackersInvariant, PTL

\* No tracker is sent a request within a minute after the last one
\* (sync_with_trackers).
THEOREM Throttles == Spec => AnnounceThrottled
<1>1. TrackersInv /\ [Next]_vars =>
         [pc = "next" /\ pc' \in {"http", "connect"} =>
             sent[Head(todo)] \in {Never, AnnounceBuffer}]_vars
  <2> SUFFICES ASSUME TrackersInv, [Next]_vars, pc = "next", pc' \in {"http", "connect"}
               PROVE  sent[Head(todo)] \in {Never, AnnounceBuffer}
    OBVIOUS
  <2>1. StartExchange
    BY DEF Next, ControllerStep, RefreshPeers, SkipTracker, EndRound, HttpFails, UdpFails,
       HttpAnswers, HttpPanics, ReceiveConnect, ReceiveAnnounce, EndPass, NetworkStep,
       TrackerStep, Tick, vars
  <2> DEFINE t == Head(todo)
  <2>2. t \in Trackers /\ ~Throttled(t)
    BY <2>1, StartEffect DEF TrackersInv
  <2>3. last_announced_at[t] \in {Never, AnnounceBuffer}
    BY <2>2 DEF Throttled
  <2>4. \/ sent[t] = Never
        \/ last_announced_at[t] # Never /\ last_announced_at[t] <= sent[t]
    BY <2>2 DEF TrackersInv, ThrottleInv
  <2>5. sent[t] \in {Never} \cup 0..AnnounceBuffer /\ AnnounceBuffer \in Nat
    BY <2>2, TrackersAssumption DEF TrackersInv, TypeOK, Instants
  <2> QED
    BY <2>3, <2>4, <2>5
<1> QED
  BY <1>1, TrackersInvariant, PTL DEF Spec, AnnounceThrottled

\* The first two words of an address.
LEMMA IpParts ==
    ASSUME NEW a \in Address, NEW b \in Address, a[1] = b[1], a[2] = b[2]
    PROVE  Ip(a) = Ip(b)
<1>1. \A i \in 1..2 : a[i] \in Nat /\ b[i] \in Nat /\ a[i] = b[i]
  BY AddressParts
<1>2. /\ SubSeq(a, 1, 2) \in Seq(Nat) /\ Len(SubSeq(a, 1, 2)) = 2
      /\ \A i \in 1..2 : SubSeq(a, 1, 2)[i] = a[i]
  BY <1>1, SubSeqProperties
<1>3. /\ SubSeq(b, 1, 2) \in Seq(Nat) /\ Len(SubSeq(b, 1, 2)) = 2
      /\ \A i \in 1..2 : SubSeq(b, 1, 2)[i] = b[i]
  BY <1>1, SubSeqProperties
<1>4. \A i \in 1..Len(SubSeq(a, 1, 2)) : SubSeq(a, 1, 2)[i] = SubSeq(b, 1, 2)[i]
  BY <1>1, <1>2, <1>3
<1> QED
  BY <1>2, <1>3, <1>4, SeqEqual DEF Ip

\* What was appended to a sequence.
LEMMA Appended ==
    ASSUME NEW s \in Seq(Address), NEW t \in Seq(Address), NEW u \in Seq(Address),
           Len(u) = Len(s) + Len(t), \A i \in 1..Len(t) : u[Len(s) + i] = t[i]
    PROVE  SubSeq(u, Len(s) + 1, Len(u)) = t
<1> DEFINE m == Len(s) + 1
           n == Len(u)
           v == SubSeq(u, m, n)
<1>1. m \in Int /\ n \in Int /\ n - m + 1 = Len(t) /\ \A i \in m..n : u[i] \in Address
  OBVIOUS
<1>2. /\ v \in Seq(Address)
      /\ Len(v) = IF m <= n THEN n - m + 1 ELSE 0
      /\ \A i \in 1..n - m + 1 : v[i] = u[m + i - 1]
  <2> HIDE DEF m, n
  <2> QED
    BY <1>1, SubSeqProperties
<1>3. Len(v) = Len(t)
  <2> HIDE DEF v
  <2> QED
    BY <1>2
<1>4. ASSUME NEW i \in 1..Len(t)
      PROVE  v[i] = t[i]
  <2>1. m + i - 1 = Len(s) + i
    OBVIOUS
  <2> QED
    BY <1>1, <1>2, <2>1
<1> HIDE DEF v
<1>5. v = t
  BY <1>2, <1>3, <1>4, SeqEqual
<1> QED
  BY <1>5 DEF v

\* What an exchange adds is what the tracker named in it: all of it over HTTP, the
\* addresses in order over UDP, unless it took an answer meant for another controller
\* (http_tracker, udp_tracker, decode_peers).
THEOREM AnswersAreOwn == Spec => OwnAnswers
<1> DEFINE new == SubSeq(found', Len(found) + 1, Len(found'))
           Own == IF pc = "http" THEN new = named'
                  ELSE /\ Len(new) <= Len(named)
                       /\ \A i \in 1..Len(new) : Ip(new[i]) = Ip(named[i])
<1>1. TrackersInv /\ [Next]_vars => [Len(found') > Len(found) /\ ~faulty /\ ~strayed' => Own]_vars
  <2> SUFFICES ASSUME TrackersInv, [Next]_vars, Len(found') > Len(found), ~faulty,
                      ~strayed'
               PROVE  Own
    OBVIOUS
  <2> USE DEF exchange, network, history
  <2>1. /\ TypeOK /\ NetworkInv /\ ExchangeInv /\ found \in Seq(Address)
        /\ TypeOK' /\ found' \in Seq(Address)
    BY TypeNext DEF TrackersInv
  <2>2. found' # found /\ Len(found) \in Nat
    BY <2>1
  <2>3. ASSUME NEW peers \in NamedChoices, HttpAnswers(peers)
        PROVE  Own
    <3>1. peers \in Seq(Address)
      BY NamedType
    <3>2. /\ pc = "http" /\ todo # <<>> /\ named' = peers
          /\ Announced(Head(todo), peers)
      BY <2>1, <2>3, <3>1, CompactRead, ListRead DEF HttpAnswers, TypeOK
    <3>3. /\ Len(found') = Len(found) + Len(peers)
          /\ \A i \in 1..Len(peers) : found'[Len(found) + i] = peers[i]
      BY <2>1, <3>1, <3>2, AnnouncedEffect
    <3>4. new = peers
      BY <2>1, <3>1, <3>3, Appended
    <3> QED
      BY <3>2, <3>4
  <2>4. ASSUME NEW d \in answers \cup StrayAnswers, ReceiveAnnounce(d)
        PROVE  Own
    <3> DEFINE peers == UdpPeers(DatagramWords(d))
    <3>1. /\ pc = "announce" /\ todo # <<>> /\ d.port = client_port
          /\ Announced(Head(todo), peers)
      BY <2>1, <2>4 DEF ReceiveAnnounce, Receive, TypeOK
    <3>2. peers \in Seq(Address)
      BY <2>1, ReceivedType
    <3> HIDE DEF peers
    <3>3. /\ Len(found') = Len(found) + Len(peers)
          /\ \A i \in 1..Len(peers) : found'[Len(found) + i] = peers[i]
      BY <2>1, <3>1, <3>2, AnnouncedEffect
    <3>4. new = peers
      BY <2>1, <3>2, <3>3, Appended
    <3>5. d \in answers /\ d.action \in {"connect", "announce"}
      <4>1. d \notin StrayAnswers
        BY <2>4, StrayTaken DEF ReceiveAnnounce
      <4> QED
        BY <2>1, <4>1 DEF NetworkInv
    <3>6. d.action # "connect"
      <4>1. peers # <<>>
        BY <2>2, <3>3
      <4> QED
        BY <4>1, UdpRead DEF peers
    <3>7. d.body = named /\ d.body \in Seq(Address)
      <4>1. d.transaction = transaction
        BY <2>1, <3>1, <3>5 DEF NetworkInv
      <4>2. d.body = named
        BY <2>1, <3>1, <3>5, <3>6, <4>1 DEF ExchangeInv, Current
      <4>3. d.body \in NamedChoices
        BY <2>1, <3>5, <3>6 DEF NetworkInv
      <4> QED
        BY <4>2, <4>3, NamedType
    <3>8. /\ Len(peers) <= Len(named)
          /\ \A k \in 1..Len(peers) : peers[k][1] = named[k][1] /\ peers[k][2] = named[k][2]
      BY <3>5, <3>6, <3>7, UdpRead DEF peers
    <3>9. ASSUME NEW k \in 1..Len(peers)
          PROVE  Ip(peers[k]) = Ip(named[k])
      <4>1. peers[k] \in Address /\ named[k] \in Address
        BY <3>2, <3>7, <3>8
      <4> QED
        BY <3>8, <4>1, IpParts
    <3> QED
      BY <3>1, <3>4, <3>8, <3>9
  <2>5. CASE \/ SkipTracker \/ HttpFails \/ UdpFails \/ StartExchange
             \/ \E peers \in NamedChoices : HttpPanics(peers)
             \/ \E d \in answers \cup StrayAnswers : ReceiveConnect(d)
             \/ \E S \in SUBSET Addresses : EndPass(S)
             \/ NetworkStep \/ Tick \/ UNCHANGED vars
    <3>1. ASSUME todo # <<>>, Failed(Head(todo))
          PROVE  Len(found') = Len(found)
      BY <2>1, <3>1, FailedEffect
    <3>2. Len(found') = Len(found)
      <4>1. CASE HttpFails \/ UdpFails
        BY <2>1, <3>1, <4>1 DEF HttpFails, UdpFails, TypeOK
      <4>2. CASE StartExchange
        BY <2>1, <3>1, <4>2, StartEffect
      <4> QED
        BY <2>5, <4>1, <4>2 DEF SkipTracker, HttpPanics, ReceiveConnect, EndPass,
           NetworkStep, TrackerStep, Tick, vars
    <3> QED
      BY <2>2, <3>2
  <2>6. CASE RefreshPeers \/ EndRound
    <3>1. found' = <<>> \/ found' = found
      BY <2>6, Zenon DEF RefreshPeers, EndRound
    <3>2. Len(<<>>) = 0
      OBVIOUS
    <3> QED
      BY <2>2, <3>1, <3>2
  <2> QED
    BY <2>3, <2>4, <2>5, <2>6 DEF Next, ControllerStep
<1> QED
  BY <1>1, TrackersInvariant, PTL DEF Spec, OwnAnswers

=============================================================================
