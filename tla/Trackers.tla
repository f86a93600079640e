------------------------------ MODULE Trackers ------------------------------
(***************************************************************************)
(* How a torrent controller finds peers: the test of refresh_peers         *)
(* (torrent/mod.rs), the round of TrackerManager::sync_with_trackers over  *)
(* the trackers of the torrent (torrent/tracker.rs), one exchange with     *)
(* each, and the decoding of the answers (tracker.rs, bencode.rs).         *)
(*                                                                         *)
(* An HTTP exchange is one request and one answer over TCP.  A UDP         *)
(* exchange is two, over a network that loses, delays and repeats          *)
(* datagrams, and that delivers answers meant for other sockets: each      *)
(* TrackerManager counts its ports from the same base.  The thread of the  *)
(* controller does it all, and waits.                                      *)
(*                                                                         *)
(* Binary data is counted in words of two bytes.  Time is counted in       *)
(* ticks, and an instant is stored as the ticks passed since.              *)
(***************************************************************************)
EXTENDS Naturals, Sequences, FiniteSets

CONSTANTS
    Order,          \* the trackers, in the order of the hash map
    SchemeChoices,  \* the schemes their URLs may have
    Addresses,      \* addresses of peers: <<ip, ip, port>>, in words
    NamedChoices,   \* lists of peers a tracker may answer with
    Texts,          \* texts of error answers
    Strays,         \* what answers may come from an exchange of another controller,
                    \* or of an earlier process: <<action, body>>
    AnnounceBuffer, \* BUFFER_DURATION_FOR_ANNOUNCE_MS
    PeerFresh,      \* the 240 s of refresh_peers
    MaxPeers,       \* MAX_PEERS_FROM_TRACKERS
    MaxDatagram,    \* words of buf_announce: 40
    Never,          \* None of an instant
    Absent,         \* of an address that is not in Torrent::peers
    Span            \* bound: own exchanges after which port and transaction recur

Trackers   == {Order[i] : i \in 1..Len(Order)}
Schemes    == {"http", "udp", "udp without port", "other"}
Header     == 10           \* words before the peers of a UDP answer

\* The ports and transactions of this TrackerManager.  It counts the ports up, so its
\* own do not come back while a datagram of their last use is under way: one lives as
\* long as the next exchange.  All others have, or had, the same ports: what is under
\* way from their exchanges has a transaction number that is none of these.
Numbers == 0..(Span - 1)
Foreign == Span

ASSUME TrackersAssumption ==
    /\ \A i, j \in 1..Len(Order) : Order[i] = Order[j] => i = j
    /\ SchemeChoices \subseteq [Trackers -> Schemes]
    /\ {AnnounceBuffer, PeerFresh, MaxPeers, MaxDatagram} \subseteq Nat \ {0}
    /\ Span \in Nat /\ Span > 2
    /\ {Never, Absent} \cap Nat = {} /\ Never # Absent

ASSUME DataAssumption ==
    /\ Order \in Seq(Trackers)
    /\ Addresses \subseteq Nat \X Nat \X Nat
    /\ NamedChoices \subseteq Seq(Addresses)
    /\ Texts \subseteq Seq(Nat)
    /\ Strays \subseteq ({"connect"} \X {<<>>}) \cup ({"announce"} \X NamedChoices)
                         \cup ({"error"} \X Texts)

VARIABLES
    pc,                \* where the controller is
    scheme,            \* of each tracker's URL
    last_announced_at, \* TrackerState::last_announced_at
    client_port,       \* TrackerManager::client_port_base
    transaction,       \* the transaction drawn for the exchange
    todo,              \* trackers the round has still to see, the current one first
    found,             \* peers collected in the round
    initiated,         \* Torrent::peers: Peer::last_initiated_at
    requests,          \* datagrams under way to trackers
    answers,           \* datagrams under way to the client
    \* history
    sent,              \* when a request was last sent to a tracker
    named,             \* peers a tracker named in answer to this exchange
    faulty,            \* whether some tracker answered with an error or nonsense
    strayed            \* whether this exchange took an answer meant for another's

exchange == <<client_port, transaction>>
network == <<requests, answers>>
history == <<sent, named, faulty, strayed>>
vars    == <<pc, scheme, last_announced_at, client_port, transaction, todo, found,
             initiated, network, history>>

Older(age, limit) == IF age \in 0..(limit - 1) THEN age + 1 ELSE age

Init ==
    /\ pc = "refresh"
    /\ scheme \in SchemeChoices
    /\ last_announced_at = [t \in Trackers |-> Never]
    /\ client_port = 0
    /\ transaction = 0
    /\ todo = <<>>
    /\ found = <<>>
    /\ initiated = [a \in Addresses |-> Absent]
    /\ requests = {}
    /\ answers = {}
    /\ sent = [t \in Trackers |-> Never]
    /\ named = <<>>
    /\ faulty = FALSE
    /\ strayed = FALSE

-----------------------------------------------------------------------------
(* Decoding *)

\* A list of peers in words, and the two readings of such words.
Words(peers) == [i \in 1..3 * Len(peers) |-> peers[(i + 2) \div 3][((i + 2) % 3) + 1]]

\* decode_peers on a compact list: an incomplete peer at its end panics.
CompactPanics(words) == Len(words) % 3 # 0
CompactPeers(words) ==
    [k \in 1..Len(words) \div 3 |-> <<words[3*k - 2], words[3*k - 1], words[3*k]>>]

\* decode_peers on a list of dictionaries: each has both keys, or unwrap panics.
ListPanics(dicts) == \E i \in 1..Len(dicts) : ~({"ip", "port"} \subseteq DOMAIN dicts[i])
ListPeers(dicts)  == [i \in 1..Len(dicts) |-> dicts[i].ip \o <<dicts[i].port>>]
Dictionary(a)     == [ip |-> SubSeq(a, 1, 2), port |-> a[3]]

\* Bug: the peers are looked for behind a header of sixteen bytes.
UdpPeersBug(datagram) ==
    LET n      == IF Len(datagram) < MaxDatagram THEN Len(datagram) ELSE MaxDatagram
        buf(i) == IF i <= n THEN datagram[i] ELSE 0
        count  == IF n > Header + 1 THEN (n - Header + 1) \div 3 ELSE 0
        at(k)  == Header - 2 + 3 * (k - 1)
    IN  [k \in 1..count |-> <<buf(at(k) + 1), buf(at(k) + 2), buf(at(k) + 5)>>]

\* udp_tracker on a datagram of n words in the zeroed buffer.  The loop stops a
\* peer early, and the port is read four bytes too far.
UdpPeers(datagram) ==
    LET n      == IF Len(datagram) < MaxDatagram THEN Len(datagram) ELSE MaxDatagram
        buf(i) == IF i <= n THEN datagram[i] ELSE 0
        count  == IF n > Header + 3 THEN (n - Header - 1) \div 3 ELSE 0
        at(k)  == Header + 3 * (k - 1)
    IN  [k \in 1..count |-> <<buf(at(k) + 1), buf(at(k) + 2), buf(at(k) + 5)>>]

Zeros(n) == [i \in 1..n |-> 0]

\* The words of a datagram: sixteen bytes answer a connect; an answer to an announce
\* has a header; an error has action, transaction and a text.
DatagramWords(d) ==
    CASE d.action = "connect"  -> Zeros(8)
      [] d.action = "announce" -> Zeros(Header) \o Words(d.body)
      [] d.action = "error"    -> Zeros(4) \o d.body

-----------------------------------------------------------------------------
(* The round over the trackers *)

Fresh(age) == age \notin {Absent, PeerFresh}

\* The trackers are asked when no peer is new or was tried lately.
RefreshPeers ==
    /\ pc = "refresh"
    /\ IF \E a \in Addresses : Fresh(initiated[a])
       THEN pc' = "pass" /\ UNCHANGED <<todo, found>>
       ELSE pc' = "next" /\ todo' = Order /\ found' = <<>>
    /\ UNCHANGED <<scheme, last_announced_at, exchange, initiated, network, history>>

\* Bug: a tracker that named nobody is not left alone.
AnnouncedBug(t, peers) ==
    /\ last_announced_at' = IF peers = <<>> THEN last_announced_at
                            ELSE [last_announced_at EXCEPT ![t] = 0]
    /\ found' = found \o peers
    /\ todo' = IF Len(found') >= MaxPeers THEN <<>> ELSE Tail(todo)
    /\ pc' = "next"

\* Bug: the round goes on with enough peers.
AnnouncedAllBug(t, peers) ==
    /\ last_announced_at' = [last_announced_at EXCEPT ![t] = 0]
    /\ found' = found \o peers
    /\ todo' = Tail(todo)
    /\ pc' = "next"

\* What an exchange yields is added, and the tracker is left alone for a while,
\* whether it answered or not.  With enough peers the round ends.
Announced(t, peers) ==
    /\ last_announced_at' = [last_announced_at EXCEPT ![t] = 0]
    /\ found' = found \o peers
    /\ todo' = IF Len(found') >= MaxPeers THEN <<>> ELSE Tail(todo)
    /\ pc' = "next"

Failed(t) == Announced(t, <<>>)

\* Bug: an announce is never repeated.
ThrottledBug(t) == last_announced_at[t] # Never

Throttled(t) == last_announced_at[t] \notin {Never, AnnounceBuffer}

SkipTracker ==
    /\ pc = "next"
    /\ todo # <<>>
    /\ Throttled(Head(todo))
    /\ todo' = Tail(todo)
    /\ UNCHANGED <<pc, scheme, last_announced_at, exchange, found, initiated,
                   network, history>>

\* Bug: the port is never counted up.
NextPortBug(p) == p

\* `client_port_base += 1': a port of its own among the exchanges of this
\* TrackerManager, but not among those of others (StrayAnswers).
NextPort(p) == (p + 1) % Span

Request(t, port, number, action) ==
    [tracker |-> t, port |-> port, transaction |-> number, action |-> action]

\* What is left of the last exchange when another starts.
Recent(datagrams) == {d \in datagrams : d.transaction = transaction}

StartHttp(t) ==
    /\ pc' = "http"
    /\ sent' = [sent EXCEPT ![t] = 0]
    /\ requests' = Recent(requests)
    /\ UNCHANGED <<last_announced_at, found, todo>>

\* The socket is bound and the connect request sent; or one of them fails.
StartUdp(t) ==
    \/ /\ pc' = "connect"
       /\ sent' = [sent EXCEPT ![t] = 0]
       /\ requests' = Recent(requests) \cup {Request(t, client_port', transaction', "connect")}
       /\ UNCHANGED <<last_announced_at, found, todo>>
    \/ /\ Failed(t)
       /\ requests' = Recent(requests)
       /\ UNCHANGED sent

StartExchange ==
    /\ pc = "next"
    /\ todo # <<>>
    /\ LET t == Head(todo)
       IN  /\ ~Throttled(t)
           /\ client_port' = NextPort(client_port)
           /\ transaction' = (transaction + 1) % Span
           /\ CASE scheme[t] = "http"  -> StartHttp(t)
                [] scheme[t] = "udp"   -> StartUdp(t)
                [] scheme[t] = "other" -> /\ Failed(t)
                                          /\ requests' = Recent(requests)
                                          /\ UNCHANGED sent
                [] scheme[t] = "udp without port" ->
                     /\ pc' = "panicked"
                     /\ UNCHANGED <<last_announced_at, found, todo, requests, sent>>
    /\ answers' = Recent(answers)
    /\ named' = <<>>
    /\ strayed' = FALSE
    /\ UNCHANGED <<scheme, initiated, faulty>>

\* The peers found become entries of Torrent::peers, new or again new.
EndRound ==
    /\ pc = "next"
    /\ todo = <<>>
    /\ initiated' = [a \in Addresses |->
          IF \E i \in 1..Len(found) : found[i] = a THEN Never ELSE initiated[a]]
    /\ pc' = "pass"
    /\ found' = <<>>
    /\ named' = <<>>
    /\ strayed' = FALSE
    /\ UNCHANGED <<scheme, last_announced_at, exchange, todo, network, sent, faulty>>

-----------------------------------------------------------------------------
(* One exchange *)

\* No connection, no answer within the timeout, or one decode_peers rejects.
HttpFails ==
    /\ pc = "http"
    /\ Failed(Head(todo))
    /\ UNCHANGED <<scheme, exchange, initiated, network, history>>

\* The answer names the peers, as a compact list or a list of dictionaries.
HttpAnswers(peers) ==
    /\ pc = "http"
    /\ \/ Announced(Head(todo), CompactPeers(Words(peers)))
       \/ Announced(Head(todo), ListPeers([i \in 1..Len(peers) |-> Dictionary(peers[i])]))
    /\ named' = peers
    /\ UNCHANGED <<scheme, exchange, initiated, network, sent, faulty, strayed>>

\* A compact list cut short, or a dictionary without a port.
HttpPanics(peers) ==
    /\ pc = "http"
    /\ \/ \E n \in 0..3 * Len(peers) : CompactPanics(SubSeq(Words(peers), 1, n))
       \/ ListPanics([i \in 1..Len(peers) |-> [ip |-> SubSeq(peers[i], 1, 2)]])
    /\ pc' = "panicked"
    /\ faulty' = TRUE
    /\ UNCHANGED <<scheme, last_announced_at, exchange, todo, found, initiated,
                   network, sent, named, strayed>>

\* recv gives up, or an earlier step of the exchange fails.
UdpFails ==
    /\ pc \in {"connect", "announce"}
    /\ Failed(Head(todo))
    /\ UNCHANGED <<scheme, exchange, initiated, network, history>>

\* Late or repeated answers of the tracker the controller waits for, to an exchange in
\* which another controller, or an earlier process, had bound the port.  They may come
\* at any time.
StrayAnswers ==
    {[port |-> client_port, transaction |-> Foreign, action |-> content[1],
      body |-> content[2]] : content \in Strays}

\* The datagram received, which the network may have in store once more.  The socket
\* tells datagrams apart by port and by the tracker they come from alone.
Receive(d) ==
    /\ d \in answers \cup StrayAnswers
    /\ d.port = client_port
    /\ answers' \in {answers, answers \ {d}}
    /\ strayed' = (d.transaction = Foreign)
    /\ UNCHANGED <<sent, named, faulty>>

\* The answer to the connect request is checked, by assertions.
ReceiveConnect(d) ==
    /\ pc = "connect"
    /\ Receive(d)
    /\ IF d.action = "connect" /\ d.transaction = transaction
       THEN /\ requests' = requests
                            \cup {Request(Head(todo), client_port, transaction, "announce")}
            /\ pc' = "announce"
       ELSE pc' = "panicked" /\ UNCHANGED requests
    /\ UNCHANGED <<scheme, last_announced_at, exchange, todo, found, initiated>>

\* The answer to the announce is not checked at all.
ReceiveAnnounce(d) ==
    /\ pc = "announce"
    /\ Receive(d)
    /\ Announced(Head(todo), UdpPeers(DatagramWords(d)))
    /\ UNCHANGED <<scheme, exchange, initiated, requests>>

-----------------------------------------------------------------------------
(* Trackers, the rest of the pass, and time *)

Datagram(r, action, body) ==
    [port |-> r.port, transaction |-> r.transaction, action |-> action, body |-> body]

\* Requests of the exchange the controller waits in.
Awaited(action) == {r \in requests : r.transaction = transaction /\ action = pc
                                     /\ r.action = action}

\* A tracker that follows the protocol.
AnswerConnect(r) ==
    /\ r.action = "connect"
    /\ answers' = answers \cup {Datagram(r, "connect", <<>>)}
    /\ UNCHANGED <<named, faulty>>

AnswerAnnounce(r, peers) ==
    /\ r.action = "announce"
    /\ answers' = answers \cup {Datagram(r, "announce", peers)}
    /\ named' = IF r \in Awaited("announce") THEN peers ELSE named
    /\ UNCHANGED faulty

AnswerError(r, text) ==
    /\ answers' = answers \cup {Datagram(r, "error", text)}
    /\ faulty' = TRUE
    /\ UNCHANGED named

TrackerStep(r) ==
    /\ r \in requests
    /\ requests' = requests \ {r}
    /\ UNCHANGED <<pc, scheme, last_announced_at, exchange, todo, found, initiated, sent,
                   strayed>>

\* The rest of the pass tries some peers again, those that have no connection.
EndPass(S) ==
    /\ pc = "pass"
    /\ \A a \in S : initiated[a] # Absent
    /\ initiated' = [a \in Addresses |-> IF a \in S THEN 0 ELSE initiated[a]]
    /\ pc' = "refresh"
    /\ UNCHANGED <<scheme, last_announced_at, exchange, todo, found, network, history>>

Tick ==
    /\ last_announced_at' = [t \in Trackers |-> Older(last_announced_at[t], AnnounceBuffer)]
    /\ sent' = [t \in Trackers |-> Older(sent[t], AnnounceBuffer)]
    /\ initiated' = [a \in Addresses |-> Older(initiated[a], PeerFresh)]
    /\ UNCHANGED <<pc, scheme, exchange, todo, found, network, named, faulty, strayed>>

ControllerStep ==
    \/ RefreshPeers \/ SkipTracker \/ StartExchange \/ EndRound
    \/ HttpFails \/ UdpFails
    \/ \E peers \in NamedChoices : HttpAnswers(peers) \/ HttpPanics(peers)
    \/ \E d \in answers \cup StrayAnswers : ReceiveConnect(d) \/ ReceiveAnnounce(d)
    \/ \E S \in SUBSET Addresses : EndPass(S)

NetworkStep ==
    \E r \in requests :
        /\ TrackerStep(r)
        /\ \/ AnswerConnect(r)
           \/ \E peers \in NamedChoices : AnswerAnnounce(r, peers)
           \/ \E text \in Texts : AnswerError(r, text)

Next == ControllerStep \/ NetworkStep \/ Tick

Spec == Init /\ [][Next]_vars

\* The threads run and time passes.  A tracker asked again and again answers well
\* sometimes, and sometimes in time: with a peer in the list over HTTP, with two in
\* a datagram, once the socket could be bound.
Generous(n) == {peers \in NamedChoices : Len(peers) >= n}
FairSpec ==
    /\ Spec
    /\ WF_vars(ControllerStep)
    /\ WF_vars(Tick)
    /\ SF_vars(\E peers \in Generous(1) : HttpAnswers(peers))
    /\ SF_vars(StartExchange /\ pc' = "connect")
    /\ SF_vars(\E r \in Awaited("connect") : TrackerStep(r) /\ AnswerConnect(r))
    /\ SF_vars(\E r \in Awaited("announce"), peers \in Generous(2) :
                  TrackerStep(r) /\ AnswerAnnounce(r, peers))
    /\ SF_vars(\E d \in answers : ReceiveConnect(d) /\ pc' = "announce")
    /\ SF_vars(\E d \in answers : ReceiveAnnounce(d) /\ found' # found)

-----------------------------------------------------------------------------
(* Properties *)

Instants(limit) == {Never} \cup 0..limit

TypeOK ==
    /\ pc \in {"refresh", "next", "http", "connect", "announce", "pass", "panicked"}
    /\ scheme \in SchemeChoices
    /\ last_announced_at \in [Trackers -> Instants(AnnounceBuffer)]
    /\ {client_port, transaction} \subseteq Numbers
    /\ \E i \in 0..Len(Order) : todo = SubSeq(Order, i + 1, Len(Order))
    /\ pc \in {"http", "connect", "announce"} => todo # <<>>
    /\ todo # <<>> => Len(found) < MaxPeers
    /\ initiated \in [Addresses -> {Absent} \cup Instants(PeerFresh)]
    /\ sent \in [Trackers -> Instants(AnnounceBuffer)]
    /\ {faulty, strayed} \subseteq BOOLEAN

\* No tracker is sent a request within the minute after the last one, also when
\* that exchange failed, was given up, or ended the round
\* (TrackerManager::sync_with_trackers).
AnnounceThrottled ==
    [][pc = "next" /\ pc' \in {"http", "connect"} =>
         sent[Head(todo)] \in {Never, AnnounceBuffer}]_vars

\* What an exchange adds to the peers is what the tracker named in answer to this
\* very exchange: the peers over HTTP, their IP addresses in order over UDP (the
\* ports are misread, README section 4).  Datagrams of the earlier exchanges of this
\* controller, or ones that come twice, add nothing; only an answer meant for another
\* controller can (http_tracker, udp_tracker, decode_peers).
Ip(a) == SubSeq(a, 1, 2)
OwnAnswers ==
    [][Len(found') > Len(found) /\ ~faulty /\ ~strayed' =>
         LET new == SubSeq(found', Len(found) + 1, Len(found'))
         IN  IF pc = "http" THEN new = named'
             ELSE /\ Len(new) <= Len(named)
                  /\ \A i \in 1..Len(new) : Ip(new[i]) = Ip(named[i])]_vars

\* Whatever the network loses, delays or repeats of this controller's own exchanges,
\* trackers that answer as the protocol says never make an assertion or unwrap of an
\* exchange fail, which would end the controller.  An answer meant for another
\* controller on the same port does it (udp_tracker, decode_peers).
HonestTrackersHarmless ==
    pc = "panicked" =>
        faulty \/ strayed \/ \E t \in Trackers : scheme[t] = "udp without port"

\* A controller all of whose peers are unknown or were tried long ago comes to a
\* peer that is new or is tried again, also when other trackers never answer
\* (refresh_peers, sync_with_trackers).
SomeFresh == \E a \in Addresses : Fresh(initiated[a])
FindsPeers == ~SomeFresh ~> (SomeFresh \/ pc = "panicked")

=============================================================================
