---------------------------- MODULE PeerSessions ----------------------------
(***************************************************************************)
(* The sessions of one torrent controller with its peers: the threads of a *)
(* connection (peer.rs), the event channel they share, the control channel *)
(* of each connection, and what the controller loop does with the entries  *)
(* of Torrent::peers (process_event, refresh_peers, schedule, cleanup).    *)
(*                                                                         *)
(* A connection is three threads.  The first connects and shakes hands; it *)
(* is the one the controller holds a handle of.  It starts a listener and  *)
(* a writer, and it ends as soon as the listener does, because the error   *)
(* of the listener is returned before the writer is joined.  So `thread'   *)
(* stands for the first thread and the listener together.  The writer ends *)
(* when a write fails or when nobody holds the sender of its channel.      *)
(*                                                                         *)
(* Connections of a peer are numbered; 0 stands for None.  The data path   *)
(* is the module TorrentStore: here a block is known by its piece, which   *)
(* blocks are missing is left open, and Block events are left out.         *)
(***************************************************************************)
EXTENDS Naturals, Sequences, FiniteSets

CONSTANTS
    Peers,
    NumPieces,
    NoState,            \* None of Peer::state
    ConcurrentPeers,    \* Scheduler::concurrent_peers
    EndGamePeers,       \* ... in the end game
    MaxEventsPerCycle,  \* MAX_EVENTS_PER_CYCLE
    ScheduleBatch,      \* BLOCK_SCHEDULING_BATCH_SIZE
    MaxConns,           \* bound: connections started for one peer
    MaxInbox,           \* bound: commands waiting in a control channel
    MaxMessages,        \* bound: messages of remote peers in a behaviour
    FewLeft             \* bound: whether few blocks may be missing, or many

Pieces == 1..NumPieces
Nums   == 1..MaxConns
None   == 0
Conns  == Peers \X Nums

\* peer::State, without the download counters.  A bitfield of None is used as
\* one without any bit.
PeerState == [choked : BOOLEAN, bitfield : SUBSET Pieces]

ASSUME PeersAssumption ==
    /\ IsFiniteSet(Peers)
    /\ NumPieces \in Nat
    /\ NoState \notin PeerState

ASSUME SessionBoundsAssumption ==
    /\ {ConcurrentPeers, EndGamePeers, MaxEventsPerCycle, ScheduleBatch,
        MaxConns, MaxInbox, MaxMessages} \subseteq Nat
    /\ FewLeft \subseteq BOOLEAN

\* peer::ControlCommand: the piece a block is requested of, or
Shutdown == 0
Command  == Pieces \cup {Shutdown}

\* peer::ControllerEvent.  An event names its peer, not its connection; only
\* Control carries one, the sender of its control channel.
Event == [kind : {"control", "init", "choked", "have", "bitfield"},
          peer : Peers, sender : Nums \cup {None},
          choked : BOOLEAN, pieces : SUBSET Pieces]

Control(p, n)   == [kind |-> "control",  peer |-> p, sender |-> n,    choked |-> TRUE, pieces |-> {}]
InitState(p)    == [kind |-> "init",     peer |-> p, sender |-> None, choked |-> TRUE, pieces |-> {}]
FieldChoked(p, c)   == [kind |-> "choked", peer |-> p, sender |-> None, choked |-> c, pieces |-> {}]
FieldHave(p, i)     == [kind |-> "have",   peer |-> p, sender |-> None, choked |-> TRUE, pieces |-> {i}]
FieldBitfield(p, S) == [kind |-> "bitfield", peer |-> p, sender |-> None, choked |-> TRUE, pieces |-> S]

Messages(p) == {FieldChoked(p, c) : c \in BOOLEAN}
               \cup {FieldHave(p, i) : i \in Pieces}
               \cup {FieldBitfield(p, S) : S \in SUBSET Pieces}

VARIABLES
    \* the controller
    pc,          \* where Controller::start is
    count,       \* iterations of the inner loop it is in
    end_game,    \* Scheduler::end_game_mode
    joining,     \* the peer whose thread cleanup joins, {} for none
    initiated,   \* Peer::last_initiated_at: age of the last attempt
    control_rx,  \* Peer::control_rx: whose sender the entry holds
    state,       \* Peer::state
    handle,      \* Peer::handle
    have,        \* Piece::have
    \* the channel of peer::ControllerEvent
    events,
    \* the connections
    started,     \* connections started for a peer
    thread,      \* first thread and listener
    writer,      \* writer thread
    socket,      \* whether the stream was shut down or broke, or a write waits
                 \* because the remote side does not read
    view,        \* Controller::peer_state
    inbox,       \* the control channel
    msgsLeft     \* messages remote peers may still send

entries  == <<initiated, control_rx, state, handle>>
control  == <<pc, count, end_game, joining>>
conns    == <<started, thread, writer, socket, view, inbox>>
vars     == <<control, entries, have, events, conns, msgsLeft>>

Looping == {"events", "refresh", "schedule"}
Closing == {"cleanup", "join"}
Gone    == {"done", "failed"}
Fresh   == [choked |-> TRUE, bitfield |-> {}]

Live(p, n) == thread[<<p, n>>] \in {"connecting", "serving"}

Init ==
    /\ pc = "events"
    /\ count = 0
    /\ end_game = FALSE
    /\ joining = {}
    /\ initiated = [p \in Peers |-> "absent"]
    /\ control_rx = [p \in Peers |-> None]
    /\ state = [p \in Peers |-> NoState]
    /\ handle = [p \in Peers |-> None]
    /\ have = [i \in Pieces |-> 0]
    /\ events = <<>>
    /\ started = [p \in Peers |-> 0]
    /\ thread = [c \in Conns |-> "unused"]
    /\ writer = [c \in Conns |-> "none"]
    /\ socket = [c \in Conns |-> "open"]
    /\ view = [c \in Conns |-> Fresh]
    /\ inbox = [c \in Conns |-> <<>>]
    /\ msgsLeft = MaxMessages

-----------------------------------------------------------------------------
(* The first thread of a connection and its listener. *)

\* The connection is made and the handshake answered: Init is reported and the
\* two other threads start.
Connect(p, n) ==
    /\ thread[<<p, n>>] = "connecting"
    /\ pc \notin Gone
    /\ events' = Append(events, InitState(p))
    /\ thread' = [thread EXCEPT ![<<p, n>>] = "serving"]
    /\ writer' = [writer EXCEPT ![<<p, n>>] = "starting"]
    /\ UNCHANGED <<control, entries, have, started, socket, view, inbox, msgsLeft>>

\* No connection, a wrong handshake, or nobody to report to.
ConnectFails(p, n) ==
    /\ thread[<<p, n>>] = "connecting"
    /\ thread' = [thread EXCEPT ![<<p, n>>] = "ended"]
    /\ UNCHANGED <<control, entries, have, events, started, writer, socket,
                   view, inbox, msgsLeft>>

\* peer_state after a message.
Said(s, e) ==
    CASE e.kind = "choked"   -> [s EXCEPT !.choked = e.choked]
      [] e.kind = "have"     -> [s EXCEPT !.bitfield = @ \cup e.pieces]
      [] e.kind = "bitfield" -> [s EXCEPT !.bitfield = e.pieces]

\* A choke, unchoke, have or bitfield message; what was received before the stream
\* was shut down can still be read.
Hear(p, n, e) ==
    /\ thread[<<p, n>>] = "serving"
    /\ pc \notin Gone
    /\ msgsLeft > 0
    /\ msgsLeft' = msgsLeft - 1
    /\ view' = [view EXCEPT ![<<p, n>>] = Said(@, e)]
    /\ events' = Append(events, e)
    /\ UNCHANGED <<control, entries, have, started, thread, writer, socket, inbox>>

\* The remote side closes, says something that makes the listener panic, or the
\* stream was shut down; or nobody receives its events any more.
ListenerEnds(p, n) ==
    /\ thread[<<p, n>>] = "serving"
    /\ thread' = [thread EXCEPT ![<<p, n>>] = "ended"]
    /\ UNCHANGED <<control, entries, have, events, started, writer, socket,
                   view, inbox, msgsLeft>>

-----------------------------------------------------------------------------
(* The writer of a connection. *)

\* It makes its control channel and reports it, or ends because it cannot.
WriterStarts(p, n) ==
    /\ writer[<<p, n>>] = "starting"
    /\ IF pc \in Gone
       THEN writer' = [writer EXCEPT ![<<p, n>>] = "ended"] /\ UNCHANGED events
       ELSE /\ writer' = [writer EXCEPT ![<<p, n>>] = "waiting"]
            /\ events' = Append(events, Control(p, n))
    /\ UNCHANGED <<control, entries, have, started, thread, socket, view, inbox,
                   msgsLeft>>

\* Bug: only the writing half of the stream is shut down.
StreamShutBug(p, n) == socket' = socket

\* Both directions of the stream end.
StreamShut(p, n) == socket' = [socket EXCEPT ![<<p, n>>] = "shut"]

\* The writer returns an error.  Its channel is dropped with what is in it.
WriterFails(p, n) ==
    /\ inbox' = [inbox EXCEPT ![<<p, n>>] = <<>>]
    /\ writer' = [writer EXCEPT ![<<p, n>>] = "ended"]

\* The next thing the writer does is to write a request, or it is at it.
RequestNext(p, n) ==
    /\ writer[<<p, n>>] = "waiting"
    /\ inbox[<<p, n>>] # <<>>
    /\ Head(inbox[<<p, n>>]) # Shutdown

\* How a write ends.  It fails on a stream the remote side or the writer has closed;
\* reading from it fails then as well.
WriteEnds(p, n) ==
    /\ \/ /\ socket[<<p, n>>] # "shut"
          /\ socket' = [socket EXCEPT ![<<p, n>>] = "open"]
          /\ inbox' = [inbox EXCEPT ![<<p, n>>] = Tail(@)]
          /\ UNCHANGED writer
       \/ StreamShut(p, n) /\ WriterFails(p, n)
    /\ UNCHANGED <<control, entries, have, events, started, thread, view, msgsLeft>>

\* The stream has room for the request, or is at its end.
WriteRequest(p, n) ==
    /\ RequestNext(p, n)
    /\ socket[<<p, n>>] # "stalled"
    /\ WriteEnds(p, n)

\* The remote side does not read and the stream is full: the write has no timeout.
WriteStalls(p, n) ==
    /\ RequestNext(p, n)
    /\ socket[<<p, n>>] = "open"
    /\ socket' = [socket EXCEPT ![<<p, n>>] = "stalled"]
    /\ UNCHANGED <<control, entries, have, events, started, thread, writer, view,
                   inbox, msgsLeft>>

\* The remote side reads again, or breaks the connection off.
StallEnds(p, n) ==
    /\ RequestNext(p, n)
    /\ socket[<<p, n>>] = "stalled"
    /\ WriteEnds(p, n)

\* Shutdown: the writer goes on, or fails if the remote side has closed already.
ShutStream(p, n) ==
    /\ writer[<<p, n>>] = "waiting"
    /\ inbox[<<p, n>>] # <<>>
    /\ Head(inbox[<<p, n>>]) = Shutdown
    /\ StreamShut(p, n)
    /\ \/ inbox' = [inbox EXCEPT ![<<p, n>>] = Tail(@)] /\ UNCHANGED writer
       \/ WriterFails(p, n)
    /\ UNCHANGED <<control, entries, have, events, started, thread, view, msgsLeft>>

\* Bug: the writer keeps a sender of its own channel.
AbandonedBug(p, n) == FALSE

\* Nobody holds the sender: not the entry of the peer, and no event on its way.
Abandoned(p, n) ==
    /\ control_rx[p] # n
    /\ \A k \in 1..Len(events) : events[k] # Control(p, n)

WriterEnds(p, n) ==
    /\ writer[<<p, n>>] = "waiting"
    /\ inbox[<<p, n>>] = <<>>
    /\ Abandoned(p, n)
    /\ writer' = [writer EXCEPT ![<<p, n>>] = "ended"]
    /\ UNCHANGED <<control, entries, have, events, started, thread, socket, view,
                   inbox, msgsLeft>>

-----------------------------------------------------------------------------
(* Controller::process_bounded_events *)

\* Bug: the number of events is not limited.
InCycleBug == TRUE

\* The loop leaves after the event that takes it over its count.
InCycle == count <= MaxEventsPerCycle

\* Bug: bits of a bitfield are added to the ones known before.
AppliedBug(s, e) ==
    CASE e.kind = "choked" -> [s EXCEPT !.choked = e.choked]
      [] OTHER             -> [s EXCEPT !.bitfield = @ \cup e.pieces]

\* Peer::state after a state event; without a state only Init has an effect, and
\* with one Init has none.
Applied(s, e) ==
    CASE e.kind = "choked"   -> [s EXCEPT !.choked = e.choked]
      [] e.kind = "have"     -> [s EXCEPT !.bitfield = @ \cup e.pieces]
      [] e.kind = "bitfield" -> [s EXCEPT !.bitfield = e.pieces]
      [] OTHER               -> s

\* Bug: only a have message counts its peer.
GainedBug(s, e) == IF e.kind = "have" THEN e.pieces \ s.bitfield ELSE {}

\* The pieces that count one more peer: the announced one; for a bitfield every
\* piece that was not known before, whether its bit is set or not.
Gained(s, e) ==
    CASE e.kind = "have"     -> e.pieces \ s.bitfield
      [] e.kind = "bitfield" -> Pieces \ s.bitfield
      [] OTHER               -> {}

ProcessEvent ==
    /\ pc = "events"
    /\ events # <<>>
    /\ InCycle
    /\ count' = count + 1
    /\ events' = Tail(events)
    /\ LET e == Head(events)
           p == e.peer
       IN  IF e.kind = "control"
           THEN /\ control_rx' = [control_rx EXCEPT ![p] = e.sender]
                /\ UNCHANGED <<state, have>>
           ELSE /\ state' = [state EXCEPT ![p] =
                      IF @ # NoState THEN Applied(@, e)
                      ELSE IF e.kind = "init" THEN Fresh
                      ELSE NoState]
                /\ have' = IF state[p] = NoState THEN have
                           ELSE [i \in Pieces |-> IF i \in Gained(state[p], e)
                                                  THEN have[i] + 1 ELSE have[i]]
                /\ UNCHANGED control_rx
    /\ UNCHANGED <<pc, end_game, joining, initiated, handle, conns, msgsLeft>>

EndEvents ==
    /\ pc = "events"
    /\ events = <<>> \/ ~InCycle
    /\ pc' = "refresh"
    /\ count' = 0
    /\ UNCHANGED <<end_game, joining, entries, have, events, conns, msgsLeft>>

-----------------------------------------------------------------------------
(* Controller::refresh_peers *)

\* Bug: finished threads are not looked for.
FinishedBug == {}

Finished == {p \in Peers : handle[p] # None /\ thread[<<p, handle[p]>>] = "ended"}

\* No peer that was never tried, or tried in the last 240 seconds.  Of attempts that
\* are old at all it is left open whether they are that old: time may have passed.
AllExpired == \A p \in Peers : initiated[p] \in {"absent", "old"}

\* Finished peers are reset; when all peers are old the trackers are asked, and
\* each peer they name gets a new entry in place of the one it may have.
RefreshPeers(found) ==
    /\ found # {} => AllExpired
    /\ LET cleared == Finished \cup found
       IN  /\ control_rx' = [p \in Peers |-> IF p \in cleared THEN None ELSE control_rx[p]]
           /\ state' = [p \in Peers |-> IF p \in cleared THEN NoState ELSE state[p]]
           /\ handle' = [p \in Peers |-> IF p \in cleared THEN None ELSE handle[p]]
    /\ initiated' = [p \in Peers |-> IF p \in found THEN "never" ELSE initiated[p]]

-----------------------------------------------------------------------------
(* Scheduler::enqueue_pending_blocks and schedule *)

\* With few blocks missing the end game begins, and it never ends.
EnqueuePendingBlocks(few) == end_game' = (end_game \/ few)

\* The two calls before the blocks are gone through: no other thread can tell
\* whether one or both have been made.
RefreshAndEnqueue(found, few) ==
    /\ pc = "refresh"
    /\ RefreshPeers(found)
    /\ EnqueuePendingBlocks(few)
    /\ pc' = "schedule"
    /\ UNCHANGED <<count, joining, have, events, conns, msgsLeft>>

\* Peers a block of piece i can be requested from.
Usable(i) ==
    {p \in Peers : /\ control_rx[p] # None
                   /\ state[p] # NoState
                   /\ ~state[p].choked
                   /\ i \in state[p].bitfield}

Unreachable(p) == writer[<<p, control_rx[p]>>] = "ended"

\* A missing block of piece i is requested from the first usable peer whose
\* writer still lives, in the end game from all of them.  A peer whose writer
\* has ended loses its channel and its state.
RequestBlock(i, tried) ==
    LET lost    == {p \in tried : Unreachable(p)}
        reached == tried \ lost
    IN  /\ pc = "schedule"
        /\ count < ScheduleBatch
        /\ tried # {}
        /\ tried \subseteq Usable(i)
        /\ IF end_game \/ reached = {} THEN tried = Usable(i) ELSE Cardinality(reached) = 1
        /\ \A p \in reached : Len(inbox[<<p, control_rx[p]>>]) < MaxInbox
        /\ inbox' = [c \in Conns |->
              IF c[1] \in reached /\ c[2] = control_rx[c[1]] THEN Append(inbox[c], i)
              ELSE inbox[c]]
        /\ control_rx' = [p \in Peers |-> IF p \in lost THEN None ELSE control_rx[p]]
        /\ state' = [p \in Peers |-> IF p \in lost THEN NoState ELSE state[p]]
        /\ count' = count + 1
        /\ UNCHANGED <<pc, end_game, joining, initiated, handle, have, events,
                       started, thread, writer, socket, view, msgsLeft>>

\* Peers without a control channel whose last attempt is more than six seconds
\* old, if there was one.
Candidates ==
    {p \in Peers : /\ control_rx[p] = None
                   /\ initiated[p] \in {"never", "old"}
                   /\ started[p] < MaxConns}

\* A missing block of piece i has no usable peer: connections to a few others
\* are started.  The handle of an earlier connection is dropped.
ConnectPeers(i, chosen) ==
    LET limit == IF end_game THEN EndGamePeers ELSE ConcurrentPeers
        begun == {<<p, started[p] + 1>> : p \in chosen}
    IN  /\ pc = "schedule"
        /\ count < ScheduleBatch
        /\ Usable(i) = {}
        /\ chosen \subseteq Candidates
        /\ chosen = Candidates \/ Cardinality(chosen) = limit
        /\ Cardinality(chosen) <= limit
        /\ started' = [p \in Peers |-> IF p \in chosen THEN started[p] + 1 ELSE started[p]]
        /\ handle' = [p \in Peers |-> IF p \in chosen THEN started[p] + 1 ELSE handle[p]]
        /\ initiated' = [p \in Peers |-> IF p \in chosen THEN "recent" ELSE initiated[p]]
        /\ thread' = [c \in Conns |-> IF c \in begun THEN "connecting" ELSE thread[c]]
        /\ count' = count + 1
        /\ UNCHANGED <<pc, end_game, joining, control_rx, state, have, events,
                       writer, socket, view, inbox, msgsLeft>>

\* The pass goes on to verify and write, sleeps and begins again; or every file
\* is there and the loop is left.
EndSchedule ==
    /\ pc = "schedule"
    /\ count' = 0
    /\ pc' \in {"events", "cleanup"}
    /\ UNCHANGED <<end_game, joining, entries, have, events, conns, msgsLeft>>

-----------------------------------------------------------------------------
(* Controller::cleanup and the end of the controller. *)

\* The channel of a peer with a thread gets a Shutdown, if the controller has it,
\* and is dropped; then the thread is joined.
CleanupPeer(p) ==
    /\ pc = "cleanup"
    /\ handle[p] # None
    /\ inbox' = [c \in Conns |->
          IF c = <<p, control_rx[p]>> /\ writer[c] # "ended"
          THEN Append(inbox[c], Shutdown) ELSE inbox[c]]
    /\ control_rx' = [control_rx EXCEPT ![p] = None]
    /\ state' = [state EXCEPT ![p] = NoState]
    /\ joining' = {p}
    /\ pc' = "join"
    /\ UNCHANGED <<count, end_game, initiated, handle, have, events, started,
                   thread, writer, socket, view, msgsLeft>>

\* Bug: the join gives up waiting.
JoinableBug(p) == TRUE

Joinable(p) == thread[<<p, handle[p]>>] = "ended"

JoinEnds(p) ==
    /\ pc = "join"
    /\ p \in joining
    /\ Joinable(p)
    /\ handle' = [handle EXCEPT ![p] = None]
    /\ joining' = {}
    /\ pc' = "cleanup"
    /\ UNCHANGED <<count, end_game, initiated, control_rx, state, have, events,
                   conns, msgsLeft>>

\* The controller is dropped, with the torrent, the scheduler and the receiver of
\* the events.
Dropped(why) ==
    /\ pc' = why
    /\ count' = 0
    /\ end_game' = FALSE
    /\ joining' = {}
    /\ initiated' = [p \in Peers |-> "absent"]
    /\ control_rx' = [p \in Peers |-> None]
    /\ state' = [p \in Peers |-> NoState]
    /\ handle' = [p \in Peers |-> None]
    /\ have' = [i \in Pieces |-> 0]
    /\ events' = <<>>
    /\ UNCHANGED <<conns, msgsLeft>>

CleanupEnd ==
    /\ pc = "cleanup"
    /\ \A p \in Peers : handle[p] = None
    /\ Dropped("done")

\* The loop is left by an error or a panic, of the data path or of a tracker.
Fail ==
    /\ pc \in Looping
    /\ Dropped("failed")

-----------------------------------------------------------------------------

\* Six seconds pass since a peer was tried, or more.
Age(p) ==
    /\ pc \notin Gone
    /\ initiated[p] = "recent"
    /\ initiated' = [initiated EXCEPT ![p] = "old"]
    /\ UNCHANGED <<control, control_rx, state, handle, have, events, conns, msgsLeft>>

\* The controller is gone; its threads may go on or rest.
Stopped == pc \in Gone /\ UNCHANGED vars

ControllerStep ==
    \/ ProcessEvent
    \/ EndEvents
    \/ \E found \in SUBSET Peers, few \in FewLeft : RefreshAndEnqueue(found, few)
    \/ \E i \in Pieces, tried \in SUBSET Peers : RequestBlock(i, tried)
    \/ \E i \in Pieces, chosen \in SUBSET Peers : ConnectPeers(i, chosen)
    \/ EndSchedule
    \/ \E p \in Peers : CleanupPeer(p)
    \/ \E p \in Peers : JoinEnds(p)
    \/ CleanupEnd

WriterStep(p, n) ==
    \/ WriterStarts(p, n)
    \/ WriteRequest(p, n)
    \/ ShutStream(p, n)
    \/ WriterEnds(p, n)

RemoteStep(p, n) ==
    \/ Connect(p, n)
    \/ ConnectFails(p, n)
    \/ \E e \in Messages(p) : Hear(p, n, e)
    \/ ListenerEnds(p, n)
    \/ WriteStalls(p, n)
    \/ StallEnds(p, n)

Next ==
    \/ ControllerStep
    \/ \E p \in Peers, n \in Nums : WriterStep(p, n)
    \/ \E p \in Peers, n \in Nums : RemoteStep(p, n)
    \/ \E p \in Peers : Age(p)
    \/ Fail
    \/ Stopped

Spec == Init /\ [][Next]_vars

\* A listener whose stream was shut down reads the end of the stream.
ListenerCloses(p, n) == socket[<<p, n>>] = "shut" /\ ListenerEnds(p, n)

\* The threads of this program are scheduled and time passes.  Nothing is assumed of
\* the remote side: it need not answer a connection, say anything, read or close.
Fairness ==
    /\ WF_vars(ControllerStep)
    /\ \A p \in Peers, n \in Nums : WF_vars(WriterStep(p, n))
    /\ \A p \in Peers, n \in Nums : WF_vars(ListenerCloses(p, n))
    /\ \A p \in Peers : WF_vars(Age(p))

FairSpec == Spec /\ Fairness

-----------------------------------------------------------------------------
(* Properties. *)

\* Every variable holds a value of its type.  A drain handles at most one event
\* more than MAX_EVENTS_PER_CYCLE.
TypeOK ==
    /\ pc \in Looping \cup Closing \cup Gone
    /\ count \in Nat
    /\ pc = "events" => count <= MaxEventsPerCycle + 1
    /\ end_game \in BOOLEAN
    /\ joining \in SUBSET Peers
    /\ initiated \in [Peers -> {"absent", "never", "recent", "old"}]
    /\ control_rx \in [Peers -> Nums \cup {None}]
    /\ state \in [Peers -> PeerState \cup {NoState}]
    /\ handle \in [Peers -> Nums \cup {None}]
    /\ have \in [Pieces -> Nat]
    /\ events \in Seq(Event)
    /\ started \in [Peers -> 0..MaxConns]
    /\ thread \in [Conns -> {"unused", "connecting", "serving", "ended"}]
    /\ writer \in [Conns -> {"none", "starting", "waiting", "ended"}]
    /\ socket \in [Conns -> {"open", "stalled", "shut"}]
    /\ view \in [Conns -> PeerState]
    /\ inbox \in [Conns -> Seq(Command)]
    /\ msgsLeft \in 0..MaxMessages

\* A piece counts at least the peers the controller believes to have it, through
\* repeated bitfields, resets and second connections: process_event counts a
\* peer at the latest when it sets the bit.  The count orders requests.
HaveCountsHolders ==
    \A i \in Pieces :
        Cardinality({p \in Peers : state[p] # NoState /\ i \in state[p].bitfield})
            <= have[i]

\* What the controller believes of a peer it has tried once is, when no event of
\* the peer is waiting, exactly what the connection knows (Controller::peer_state
\* of peer.rs), whatever was reset, dropped or replaced in between.
BeliefMatchesView ==
    \A p \in Peers :
        /\ started[p] = 1
        /\ state[p] # NoState
        /\ \A k \in 1..Len(events) : events[k].peer # p
        => state[p] = view[<<p, 1>>]

\* While the controller runs, it has the handle of the last connection of a peer as
\* long as that connection lives, unless a tracker's answer replaced the entry.
LastConnectionHeld ==
    \A p \in Peers :
        /\ pc \notin Gone
        /\ started[p] > 0
        /\ Live(p, started[p])
        => handle[p] = started[p] \/ initiated[p] = "never"

\* A finished thread is noticed: the controller gives up its handle (refresh_peers)
\* or leaves the loop.
FinishedThreadForgotten ==
    \A p \in Peers, n \in Nums :
        (pc \in Looping /\ handle[p] = n /\ thread[<<p, n>>] = "ended")
            ~> (pc \in Closing \/ handle[p] # n)

\* Joining the thread of a peer that got a Shutdown ends: the writer shuts the
\* stream down and that ends the listener ("This will close the peer stream, which
\* will close peer listener", mod.rs).  Only a remote side that never reads again can
\* prevent it, with a request in front of the Shutdown.
ShutdownEndsJoin ==
    \A p \in Peers, n \in Nums :
        (/\ pc = "join" /\ p \in joining /\ handle[p] = n
         /\ \E k \in 1..Len(inbox[<<p, n>>]) : inbox[<<p, n>>][k] = Shutdown)
            ~> (pc # "join" \/ [](socket[<<p, n>>] = "stalled"))

\* When the controller is gone, finished or failed, no writer thread remains, also
\* of connections it had lost sight of, but one that waits for a remote side that
\* never reads again.
WritersReleased ==
    \A p \in Peers, n \in Nums :
        (pc \in Gone) ~> (\/ writer[<<p, n>>] \in {"none", "ended"}
                           \/ [](socket[<<p, n>>] = "stalled"))

\* Cleanup ends: closing the stream closes the listener (mod.rs).
CleanupEnds == pc \in Closing ~> pc = "done"

=============================================================================
