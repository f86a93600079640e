# Verification of torrentrs

TLA+ models of [torrentrs](../src), a BitTorrent client in Rust, with the TLC
runs that check them and the TLAPS proofs of what matters most. Line numbers
refer to files under `src/src/`.

## 1. The system

One process: a client thread (`client.rs`), one controller thread per torrent
(`torrent/`), and three threads per peer connection (`peer.rs`).

| Part | State | Operations | Talks to |
|---|---|---|---|
| Client `client.rs` | map of torrents, `client.json` | add, resume, process event, save | starts torrent controllers, receives their state events |
| Torrent controller `torrent/mod.rs` | `Torrent` (files, pieces, blocks, peers) | the loop: drain events, refresh peers, schedule, verify, write; cleanup | owns everything below |
| Layout `state.rs:18-112` | files, pieces, blocks of the metainfo | `Torrent::new` | - |
| Data path `state.rs`, `writer.rs`, `event_processor.rs` (Block), `scheduler.rs` (requests) | status and verification of each block, files, `.tmp_<hash>` directory, destination files | store a block, hash a piece, assemble a file, recover from disk, clean up | disk; answers of peers |
| Peer sessions `peer.rs`, `event_processor.rs` (Control, State), `scheduler.rs` (connections), `mod.rs:148-194`, `mod.rs:262-287` | per peer: control channel, choke flag and bitfield, thread handle, time of the last attempt | connect, listen, write, process event, refresh, close | one event channel to the controller, one control channel per connection |
| Wire protocol `peer.rs:64-112,133-214,268-283` | the byte stream, the length and type just read | handshake, framing, decoding of messages, requests | remote peer |
| Trackers `torrent/tracker.rs`, `decode_peers` of `bencode.rs` | time of the last announce per tracker, port counter | announce by HTTP or UDP, decode peers, throttle | remote tracker |
| Metainfo `bencode.rs`, text `utils.rs`, `formatter.rs` | none | decode, encode, format | - |

What is hard here: the controller relies on the state of blocks in memory
agreeing with two places on disk, changes the disk in several steps, and is
told about blocks by peers that may answer twice, late, wrongly or never; the
process can be killed anywhere, and every `unwrap` is a place where the
controller thread dies. Peer sessions add threads that start, report and end
while the controller is between two calls of its loop. What comes over the network
is read by hand: bytes of TCP that end anywhere, datagrams that come late or
twice. `PROJECT.json` lists the
hazards with their lines, and the properties aimed at them.

What makes each part correct:

* data path: verified data is never lost or un-verified; a file is written once,
  from verified blocks only, and reported only when it is right; a crash costs
  at most the file being written; the loop ends, and ends with every file;
* layout: blocks partition every file and every piece in order;
* peer sessions: a finished connection is forgotten and tried again, what the
  controller believes of a peer is what that connection said, closing closes all;
* client: what `client.json` holds survives a crash, commands are served, and
  controllers of one torrent end with the download finished by one of them;
* trackers: announces are throttled, an exchange yields what the tracker named in
  that exchange, no answer of a well-behaved tracker to this controller ends it, and a
  controller without fresh peers comes to one;
* wire: the messages of a remote side are told to the controller, all, in order
  and unchanged, and none of them ends the connection.

## 2. Modules

| Module | What it is |
|---|---|
| `TorrentStore` | the data path of one controller, with crashes and restarts |
| `Download` | what downloading a torrent promises, abstractly |
| `PeerSessions` | connection threads, their channels and the controller's entries of peers |
| `BlockLayout` | how `Torrent::new` cuts a torrent into blocks, pieces and files |
| `ClientStore` | the client's loop, `client.json`, crashes, and the controllers it starts |
| `PeerWire` | what one connection makes of the bytes it reads |
| `Trackers` | the round over the trackers, HTTP and UDP exchanges, decoding of peers |
| `MCTorrentStore`, `MCBlockLayout`, `MCPeerWire`, `MCTrackers` | small layouts, torrents, messages and trackers for TLC |
| `MCPeerSessions` | a second initial state of `PeerSessions`, for TLC |
| `TorrentStoreProofs`, `ClientStoreProofs`, `PeerSessionsProofs`, `BlockLayoutProofs`, `TrackersProofs`, `PeerWireProofs` | theorems about the module each is named after |
| `PeerWireLemmas` | what the decoding of `PeerWire` returns: numbers, bitfields, messages |
| `NumberLemmas` | facts about numbers: induction, division, multiples |

The modules meet at these seams. `BlockLayout` computes what `TorrentStore` takes
as the constants `PieceOf` and `FileOf`; that every block is in one piece and one
file, and that every file has a block, is `LayoutAssumption` there and
`PiecesTiled`, `FilesTiled` here. `PeerSessions` says when a block may be asked
for; `TorrentStore` takes any such choice, and the answers as `owed`.
`ClientStore` keeps of a controller only its states and its temporary directory;
`TorrentStore` says what is in that directory. `PeerWire` goes from bytes to the
events that `Hear` of `PeerSessions` takes as given, and its `HeardAsSaid` is why
they may be taken as what the remote side said; `Trackers` computes the set of
peers that `RefreshAndEnqueue` of `PeerSessions` takes as any.

In all of them, lines that begin with a comment "Bug:" define slips of the code
against which the properties are tested; no specification uses them.

### TorrentStore

Variables mirror the code: `data_status` and `verified` are the fields of
`Block`; `file_path` is `File::path.is_some()`, `file_verified` is
`File::verified`; `end_game_mode` belongs to `Scheduler`; `order` is the order in
which the hash map of blocks iterates, which is fixed when the map is built and
decides which blocks a verification batch holds. `pc` is the next call of
`Controller::start`; `queue` the files `verify_and_write_pendinfg_files` has
selected; `wop`, `wfile`, `left` are the position inside `verify_and_write_file`,
which is the one handler that changes the disk in several steps. All of these
are lost when the thread ends. `temp` and `dest` are the disk and survive.
`owed` counts the answers peers may still send for a block; the constant `Faults` says
what else may arrive, since the code looks neither at whether a block was asked for,
nor whether there is such a block, nor how long its data is.

| Action | Code |
|---|---|
| `Start` | `Controller::setup`, `Torrent::sync_with_disk` |
| `HandleBlock`, `HandleBlockPanics` | `process_event`, Block arm, with `write_block` |
| `UnknownBlockPanics` | the unwrap of `write_block` for a piece and offset of no block |
| `CrashInWriteBlock` | a kill between truncating and writing a block file |
| `EndEvents` | return of `process_bounded_events` |
| `EnqueuePendingBlocks` | `Scheduler::enqueue_pending_blocks` and the requests of `schedule` |
| `VerifyBlocksAndFiles` | `Torrent::verify_blocks_and_files` with `is_piece_valid` |
| `SelectPendingFiles`, `WriteNextFile` | `verify_and_write_pendinfg_files` |
| `VerifyAndWriteFile` then `OpenFile` / `OpenFilePanics`, `CopyBlock` / `CopyBlockPanics`, `RemoveBlockFile` | `verify_and_write_file` |
| `EndPass` | the end of the loop body |
| `CleanupRemove`, `CleanupEnd` | `Controller::cleanup` |
| `Crash` | a kill between two changes of the disk |

Abstractions:

* What a block file holds is `none`, `good`, `bad`, `short` or `long`. It is hashed out of
  a buffer of zeros of the block's length, and the count of bytes read is not looked at
  (`writer.rs:161-168`, `event_processor.rs:77-84`): a `short` file lacks only zeros at the
  end of the block (`ZeroTails`) and a `long` one goes on after the right bytes, so both
  read right, and both fail the length assertion of the copy (`writer.rs:118`). A `bad`
  one reads as something else. A piece hashes right iff all its blocks read right.
* The range of a block in its destination file is `none`, `good` or `bad`. A file has its
  full length iff no range is `none`; since blocks are appended in order, a partly
  written file does not have it, unless a `long` block file filled it up
  (`AfterFailedCopy`).
* Answers other than `good` ones are bounded by `MaxBad`, of all kinds together.
* Which pending blocks are requested is any set: whose request is more than six
  seconds old, which peer has which piece and in what order `have` sorts them is
  left open. Only the end game asks more than one peer at a time.
* A repeated answer is always possible up to `MaxOwed` answers for one block.
* Refreshing peers, messages to the client and cleanup of connections do not
  touch the data path; `PeerSessions` and `ClientStore` have them.
* `NestedFiles` are the files whose path in the torrent has a directory. The code
  never creates it; it may be there, so opening such a file may succeed or panic.

### Download

`complete` is the set of files that are right on disk, `claimed` those the
session reports as on disk and verified, `finished` whether the last session
ended with everything. Files complete one by one and never become incomplete;
only complete files are claimed; a session finishes only with all files
complete. `TorrentStore!Abstract` maps the data path onto it.

### PeerSessions

A connection is three threads. The first connects, shakes hands, starts a
listener and a writer, and joins the listener first, whose error it returns; so
`thread` stands for the first thread and the listener together, and `writer` for
the third. `initiated`, `control_rx`, `state` and `handle` are the fields of an
entry of `Torrent::peers`; `handle` and `control_rx` hold the number of the
connection they belong to. `view` is the `peer_state` a connection keeps itself,
`inbox` its control channel, `socket` whether its stream was shut down or holds up a
write because the remote side does not read. `events`
is the one channel all threads of the torrent share. `pc` is the call of
`Controller::start`, `count` the iterations of the inner loop it is in.

| Action | Code |
|---|---|
| `Connect`, `ConnectFails` | `peer::Controller::new` and the start of the two threads |
| `Hear`, `ListenerEnds` | `start_listener`, one message or its end |
| `WriterStarts`, `WriteRequest`, `ShutStream`, `WriterEnds` | `start_writer` |
| `WriteStalls`, `StallEnds` | the write of `request` when the stream is full, and the end of that: the remote side's doing |
| `ProcessEvent`, `EndEvents` | `process_bounded_events` with `process_event` |
| `RefreshAndEnqueue` | `refresh_peers` and `enqueue_pending_blocks` |
| `RequestBlock`, `ConnectPeers` | one block of `Scheduler::schedule` |
| `EndSchedule` | the rest of the loop body |
| `CleanupPeer`, `JoinEnds`, `CleanupEnd` | `Controller::cleanup` |
| `Fail` | an error or panic that leaves the loop |
| `Age` | more than six seconds since the last attempt |

Abstractions:

* A block is known by its piece; which blocks are missing, and so which are gone
  through, is any choice. The order of peers is any order.
* Block and Metric events are left out: they change no entry of a peer.
* `refresh_peers` and `enqueue_pending_blocks` are one step: they read the threads'
  handles and nothing a thread writes after its end, and no thread can tell
  whether one or both have been made.
* Whether few blocks are missing (the end game) is any choice out of `FewLeft`.
* A listener that panics (an unwrap on a malformed message) ends like one that
  returns an error: both are finished threads.
* A remote side that closes is seen by the listener (`ListenerEnds`) and, at the
  next write, by the writer (`WriteRequest`).
* An attempt is `recent` or `old`, more than six seconds. The tracker's answer is
  any set of peers, if all attempts are old, since more than 240 seconds may have
  passed as well; what an entry kept is replaced.

### BlockLayout

One step is one iteration of the loop of `Torrent::new`; the variables have the
names of the code. `pieces` holds the lengths and `files` the length and the
`block_ids_pos`. `block_ids` is the domain of `block_ids_pos`: the two are filled
and cleared together, and a repeated id is the subject of `BlockAdded`. `MetaFiles`
is what `decode_metainfo` makes of the key `files`.

| Action | Code |
|---|---|
| `Start` | the initial values; `meta.pieces[0]` and `meta.files[0]` may not exist |
| `Iterate` | one iteration: `AddBlock`, the end of a piece, `AddToFile`, the end of a file |
| `Panic` | `meta.pieces[piece_index]` does not exist |

### ClientStore

`known`, `handle` and `state` are `ClientState::torrents` and two fields of its
entries, `commands` and `events` the channels, `db_file` and `db` the file
`client.json`, `tempdir` the directories `.tmp_<hash>`. `ctl[t][n]` is the status
of the n-th controller started for torrent `t` in this process. `pc` is where the
client thread is, `after` where it returns to when the state is saved.

| Action | Code |
|---|---|
| `Start` | `main`, `Client::new`, `init_state` |
| `Send` | a pair of the command line, sent by `main` |
| `AddTorrent`, `ResumeTorrent`, `ResumePanics` | `add_torrent`, `resume_torrent` |
| `Truncate`, `Write` | `save_state`: opening with `truncate(true)`, then writing |
| `ProcessEvent`, `EndEvents`, `EndCommands` | the two inner loops of `start` with `process_event` |
| `UpdateThreads` | joining finished controllers, rendering, sleeping |
| `Setup`, `Pass`, `PassPanics`, `Fail`, `Cleanup` | a controller as others see it |
| `Crash` | the process is killed |

Abstractions:

* A state event says whether all files are there; metric events and the text of
  the view are left out.
* A torrent is its file and its destination: the command line of one torrent
  file with two destinations is one torrent, as in the code, where the key is the
  hash.
* A controller's pass may store blocks or not, finish or not. It panics without
  its directory only in a pass that touches it.
* A write of `client.json` writes it all; a kill happens before or after.

### PeerWire

`stream` is what the remote side has sent and nobody has read: TCP delivers it in
order, the model lets the thread see all of it or, at the handshake, any prefix.
`len` and `msg_type` are the locals of `start_listener`. `events` is what was sent
on `event_tx`, and `listened` whether its receiver is there. `said`, `hello` and
`greeted` are history: what the remote side said, the info hash of its handshake,
and how many bytes of it `read` returned.

| Action | Code |
|---|---|
| `ReadHandshake`, `HandshakeFails` | `peer::Controller::new` from `stream.read` on |
| `ReadLength`, `ReadType`, `ReadPayload` | one message in `start_listener`, each up to a `read_exact` |
| `ListenerEnds` | a `read_exact` that fails |
| `SayHello`, `Say`, `Close`, `Reset` | the remote side, and the network between |
| `StopListening` | the torrent's controller drops the receiver |

`Encode` is the format as the protocol writes it; `Value`, `BitfieldOf` and `BlockOf`
decode as the code does, so the two are compared and not assumed inverse.

Abstractions:

* A byte has `Bits` bits and a number `Width` bytes; `MaxSize` is `max_size`. Each part
  of the handshake is one byte.
* What the listener keeps for itself (`peer_state`, the download rate and its Metric
  events) is left out; `PeerSessions` has the choke flag and the bitfield.
* Messages the client sends are in `PeerSessions` (`WriteRequest`).
* The end of the stream after our own Shutdown reads like a close by the remote side.

### Trackers

`last_announced_at`, `client_port` and `initiated` are `TrackerState::last_announced_at`,
`client_port_base` and `Peer::last_initiated_at`. `todo` and `found` are the rest of the
loop of `sync_with_trackers` and its `peers`, `transaction` the random number of the
exchange. `requests` and `answers` are datagrams under way. `sent`, `named`, `faulty` and
`strayed` are history: when a tracker was last sent a request, what it named in
answer to this exchange, whether any tracker answered nonsense, and whether this
exchange took an answer meant for another controller.

| Action | Code |
|---|---|
| `RefreshPeers` | the test in `refresh_peers` that decides whether trackers are asked |
| `SkipTracker` | `continue` for a tracker asked within the last minute |
| `StartExchange` | the match on the scheme, with `udp_tracker` to its first `send` |
| `HttpAnswers`, `HttpFails`, `HttpPanics` | `http_tracker` with `decode_peers` |
| `ReceiveConnect`, `ReceiveAnnounce`, `UdpFails` | the two `recv` of `udp_tracker`, and errors by `?` |
| `EndRound` | the return of `sync_with_trackers` and the insertion of the peers |
| `EndPass` | the attempts the scheduler makes, which renew `last_initiated_at` |
| `AnswerConnect`, `AnswerAnnounce`, `AnswerError` | the tracker; an answer may be received twice or never |
| `Tick` | time |

Abstractions:

* Binary data is in words of two bytes: an address is two words and a port, a header
  of an answer ten. `UdpPeers` computes with the offsets of the code, which are all
  even, on the zeroed buffer.
* An instant is the ticks since, up to the limit it is compared with. The clock is
  never set back.
* The ports and transaction numbers of the controller's own exchanges repeat after
  `Span` exchanges, and a datagram lives as long as the next exchange, so that none of
  its own meets its number again. An exchange has one transaction number for both of
  its requests: the second is never compared.
* Every `TrackerManager` counts its ports from 22457 (`tracker.rs:16,58`), so other
  controllers and earlier processes had the same ones. Their late or repeated answers
  are `StrayAnswers`: any connect, announce or error answer out of `Strays`, with a
  transaction number of no exchange of this controller, on its port and at any time.
  The socket is connected, so that they come from the tracker that is being asked.
* Counts of blocks in an announce (`build_announce_request`) have no effect on the
  client and are left out, as is how a URL is written.
* `refresh_peers` resets finished connections first; that part is in `PeerSessions`.
* A panic ends the controller and the model.

## 3. Runs

| Run | Question | Result |
|---|---|---|
| `store_clean_disk` | Without corrupt files at the destination: does the data path implement `Download`, report only right files, damage none that was right, lose only the file being written in a crash, and keep verified blocks in memory and through a panic? Also with answers nobody asked for, ones for no block, and block files that lack zeros? | yes; a panic over such a block file loses verified blocks of the file being assembled (section 4) |
| `store_sessions` | When bad files were at the destination, pieces arrive bad and verification batches are small, but blocks are answered once, when asked for, and do not end in zeros: does every session end, without a panic, is verification by piece and is every verified block on disk? | yes |
| `store_duplicates` | Does a repeated answer panic the controller? | **yes** (finding) |
| `store_corrupt_file` | Can a download finish with a corrupt file? | **yes** (finding) |
| `peers_safety` | Does the controller believe of a peer what its connection knows, keep the handle of the last connection, and count every holder of a piece? | yes |
| `peers_threads` | Are finished threads noticed, does joining after a Shutdown end, does no writer survive the controller? | yes, unless a remote side stops reading for ever with a request in front (section 4) |
| `peers_cleanup_hangs` | Can cleanup wait for the remote side for ever? | **yes** (finding) |
| `layout` | Do blocks tile the pieces, the files and the hashes? | yes, but for empty and single files (section 4) |
| `client` | Is an added torrent kept, are commands served, is a finished torrent shown, and who takes a controller its directory? | yes; only another controller of the torrent, which has finished it |
| `trackers` | Are trackers left alone for a minute, does an exchange yield what was named in it, can a well-behaved tracker end the controller, and does a controller without fresh peers come to one? | yes, with the reservations of section 4 for UDP, and but for answers meant for other controllers |
| `wire` | Are messages told as they were said, all of them, and can a well-behaved remote side make the listener panic? | yes, up to the first message of an unhandled type |
| `wire_handshake` | Is a connection served only after the remote side answered with the right info hash? | **no** (finding) |

### Bounds

`TorrentStore`. The layout `Across` has three blocks, two pieces and two files; its
first piece crosses the boundary between the files, and the second file takes
blocks of both pieces, which is what makes pieces and files interact.
`MaxOwed = 2` allows one repeated answer per block, the least that shows what
repetition does; `MaxBad = 1` one bad answer, besides bad data already on disk;
`MaxSessions = 2` a crash or an end with a restart on what it left. Batches are
smaller than what they select from (`ScheduleBatch` 2 of 3, `VerifyBatch` 2 of 3,
`WriteBatch` 1 of 2, and all of them 1 in `store_sessions`), so that the limits
take effect. In `store_clean_disk` the first and the last block end in zeros, so that each
file has a block whose file may be short, alone in its file or with others copied before
it, and `Faults` has all but `long`, under which the properties do not hold (section 4).
`TwoOrders` holds the two opposite iteration orders of the map. The
violations use the layout `Pair` (one piece, two blocks, one file each) because it
is enough. The theorems of section 5 have none of these bounds.

`PeerSessions`. One peer with two connections: entries of different peers meet only
in the order of the event channel, in the limit of connections at a time and in
`have`, while two connections of one peer share an entry, which is where the
code is delicate. One piece, so that a bit is known or not; `MaxMessages = 2` lets
two announcements meet a reset or a second connection; `MaxEventsPerCycle = 0`
makes a drain stop after one event with others left; `MaxInbox = 1` bounds the
requests of a channel (the Shutdown comes on top).

`peers_threads` has no messages, since their orders are too many for temporal
properties, and a peer that says nothing stays choked and is sent no request. So that
writers have requests in front of a Shutdown, it starts from `Init` or from `ServedInit`
of `MCPeerSessions`: the first connection of every peer is up, unchoked and has all
pieces, and its messages are handled. That state is reachable from `Init` when the
remote side says its pieces and unchokes. `MaxInbox = 2` lets one request be written and another wait; both choices of
the end game occur, and a second connection may be opened from either state.

`BlockLayout`. Up to three files of length 1 to 5 (0 to 2 when some are empty),
pieces of 1 to 5 and blocks of at most 2, so that every order of the three boundaries (block, piece, file) and
coincidence of them occurs, as well as a piece over three files.

`ClientStore`. Four torrents: two good ones, one that `Torrent::new` panics on and
one whose tracker does not parse, besides a path that cannot be read; two
commands, so that a torrent is added twice (two controllers of one torrent) or two
torrents once; two starts;
two events in the channel and one per cycle.

The combination of repeated answers with any content of the destination is in no
run; there the safety of the data path is proved (section 5) for all cases at once.

`PeerWire`. Bytes of three bits, numbers of two bytes, four pieces: a bitfield then has
two bytes and two bits to spare, and an index or offset may need both bytes of a
number. `MaxSize = 9` is the length of the longest message, so that this one, and only this
one, is dropped for its length. Three messages allow one in front of and one behind any
other. Eleven kinds are said, four of which a well-behaved side would not say: an
index past the last piece, a short bitfield, one of a type that is not handled, one
too long. In `wire_handshake` one message is enough.

`Trackers`. Two trackers, so that one can fail or be throttled while the other is
asked, in three combinations of schemes; two peers, which is what a UDP answer needs
to yield one; `MaxPeers = 2`, so that one HTTP answer ends a round and one UDP answer
does not; a pause of one tick and peers that are old after two, so that the order of
the two limits is that of the code; `Span = 3`, the least with the last exchange apart
from the next. One text of an error is long enough to be decoded as a peer. Every
answer a tracker may give may also be a stray one.

### Fairness

`TorrentStore`. The controller thread is scheduled: weak fairness of
`ControllerStep`, which contains no step of a peer. Every missing block that can
be requested again and again is (`SF` of `Requests`): the loop passes every
500 ms and a request older than six seconds is repeated; that some peer has the
block and is not choking is an assumption on the swarm. Every block that is
requested again and again is answered well (`SF` of good answers), again an
assumption on the swarm; the number of bad answers is bounded by `MaxBad`.
Crashes have no fairness. Nothing is assumed about verification: that bad pieces
reach the batch is what the run shows.

`PeerSessions`. The controller and each writer are scheduled, a listener whose stream
was shut down reads its end, and time passes. Nothing is assumed of the remote side: it
need not answer, speak, read or close. A write into a full stream ends when the remote
side reads or closes (`StallEnds`, a step of the remote side without fairness), and
`ShutdownEndsJoin` and `WritersReleased` except a connection whose remote side never
does. Without the exception both are violated. `Fail` has no fairness.

`ClientStore`. The client thread is scheduled (`WF` of `ClientStep`), and nothing is
assumed of controllers; `CommandsServed` holds although they may send for ever.

`PeerWire`. The thread of the connection runs (`WF` of `ThreadStep`); nothing is assumed
of the remote side or the network. `HeardInTheEnd` speaks of connections that do not
break.

`Trackers`. The controller runs and time passes (`WF`). A tracker that is asked again and
again sometimes names a peer: over HTTP in an answer in time (`SF` of `HttpAnswers`);
over UDP the socket can sometimes be bound, each of the two requests is sometimes
answered, the second with two peers at least, and each answer is sometimes received
before the timeout (five `SF`). This is an assumption on trackers and the network;
failures, losses and timeouts may come between, as often as they like. The other
tracker may never answer.

`Download` and `BlockLayout` have no liveness property.

## 4. Behaviour the models have and no run is about

The violating runs above are findings: code against a line of the repository.
The following follows from the code too, and the properties are stated so that
they exclude it or allow it.

* A piece that fails its hash right when its last block arrives stays persisted
  and unverified until a later pass puts it back to pending
  (`event_processor.rs:108-109`, `state.rs:159-190`). `SessionEnds` shows that this
  delays a download and does not stop it.
* A file in a subdirectory that is not there panics the controller
  (`writer.rs:109`), at every start again. `PanicKeepsBlocks` shows that no verified
  block is lost by it.
* A block file that lacks zeros its block ends in is verified, because the hash reads it
  into a buffer of zeros and ignores how much was read (`writer.rs:161-168`,
  `event_processor.rs:77-84`). A kill in `write_block` leaves such a file, an empty one if
  the block is all zeros, and so does a short answer. The copy then fails the assertion of
  `writer.rs:118`, after the destination was truncated and the block files before it were
  removed: verified blocks of that file are lost. At the next start the file counts as
  persisted again, is verified again, and the assertion fails again, so the torrent does
  not get on until someone removes it. `PanicKeepsBlocks` and `NeverPanics` except or
  exclude this; the other properties hold with it.
* An answer that is longer than its block hashes right as well, as the rest is not read.
  Its copy fails the same assertion after all of it was appended, which may give
  the file its full length: the next start takes it for the whole file, finds it bad and,
  as in `store_corrupt_file`, reports it in the end without writing it again.
  `VerifiedFileIntact`, `CompletionIntegrity`, `CrashLosesOnlyOpenFile` and `ImplementsDownload`
  are therefore stated, and proved, without such answers (`"long"` not in `Faults`).
* Nothing checks that a block was asked for (`peer.rs:178-189`, `event_processor.rs:60-61`):
  an unasked one is stored like any other. A piece and offset at which no block begins
  fail the unwrap of `writer.rs:23` and end the controller (`UnknownBlockPanics`).
* While a remote side does not read, the write of a request waits, without a timeout
  (`peer.rs:281`). A Shutdown behind it stays unread, and the join of `mod.rs:284` waits as
  long: cleanup of a finished download depends on the remote side here too.
* `have` grows for every piece of a bitfield that the entry did not hold before, also for
  one the peer has not (`event_processor.rs:46`), and never falls when a peer is lost.
  `HaveCountsHolders` says only that it is not too small.
* Two connections to one peer can live at a time, since an attempt has no timeout
  and is repeated after six seconds (`scheduler.rs:95-110`). Events of both are
  applied to one entry, so `BeliefMatchesView` is stated for one connection. Only
  the last is joined at cleanup (`mod.rs:269`); the other stays open until its
  remote side closes. `WritersReleased` covers its writer.
* A thread that ends while its Control event is still in the channel is reset
  first and then gets its dead control channel (`mod.rs:156`,
  `event_processor.rs:26`). The entry has a channel and no handle: it is not reset
  again until a request through that channel fails.
* An empty file gives a block of length zero whose id the next block takes over
  (`state.rs:39`): the file then has one block less than it has positions and is
  never complete, or a piece is asked for that has no hash. `FilesTiled`,
  `PiecesMatchHashes` and `BlockAdded` have `NoEmptyFile` as a hypothesis;
  `PiecesTiled` holds without it.
* A single-file torrent is decoded without files and `meta.files[0]` panics
  (`state.rs:26`) in the client thread, which ends the process (`ResumePanics`).
* Torrents loaded from `client.json` are shown and never resumed (`client.rs:86`);
  one that is added again is.
* A kill between truncating and writing `client.json` (`client.rs:229-233`) leaves a
  file with which no later process starts. `AddedKept` speaks of a file that is whole.
* Adding a torrent that is running starts a second controller over the same directory
  (`client.rs:182`). The cleanup of one removes the directory of the other
  (`mod.rs:266`), which then panics. `LostToFinished` says that the one that removed it has
  then finished the download. What two controllers do to the block files of one another
  while both run is not modelled.
* The answer to a UDP announce is misread (`tracker.rs:223-232`): the port is taken four
  bytes too far, out of the address of the next peer, and the last peer is not taken
  at all. `Readme.md:39` lists UDP trackers as not done. `OwnAnswers` therefore speaks of
  the addresses and not of the ports, and lets the list be shorter.
* The answer to a connect request is checked by assertions (`tracker.rs:184-193`), so
  that an error answer of a tracker ends the controller thread, and an error answer to
  the announce is decoded as peers. A datagram of fewer than six bytes makes the
  subtraction of `tracker.rs:223` underflow; no datagram of the model is that short. A malformed answer over HTTP panics as well
  (`bencode.rs:215-216`, `224-230`), and so does the URL of a UDP tracker without a port
  (`tracker.rs:169`). `HonestTrackersHarmless` says that nothing else does but the following.
* All controllers count their UDP ports from 22457, in every process (`tracker.rs:16,58`). A late
  or repeated answer to an exchange of another torrent, or of an earlier process, with
  the same tracker reaches whoever has the port now. As an answer to the connect
  request it fails the assertion of `tracker.rs:192` (or those before it), though all
  trackers are honest; as an answer to the announce it is taken, and the peers of another
  torrent are added. `HonestTrackersHarmless` and `OwnAnswers` except exchanges that took
  such an answer (`strayed`); for the controller's own late and repeated datagrams they hold.
* Peers that never answer are tried again every six seconds, which keeps them from
  being 240 seconds old and the trackers from being asked (`mod.rs:162-175`). `FindsPeers`
  speaks of a controller whose peers are all old.
* Every exchange takes a new port and none is given back; the u16 overflows after
  43078 exchanges (`tracker.rs:77`). The model's ports go round, with a short period.
* A message of a type that is not handled is skipped without its payload
  (`peer.rs:208`), and the next length is read out of that payload. `HeardAsSaid` speaks
  of the messages before the first such one. A client that announces no piece is sent
  none by a plain remote side, but for those of extensions.
* A message of the maximal length or more is not skipped either, only its length is
  (`peer.rs:140`).

## 5. Proofs

Every safety invariant and every action property of the runs that pass is a
theorem, for all values of the constants that satisfy the assumptions of its
module. The bounds of section 3 (how many messages, events, torrents, sessions) are
constants, so that the theorems hold for all of them.

### TorrentStoreProofs

From `LayoutAssumption` and `BoundsAssumption`:

* `TypeCorrect`, `StoreCorrect` (the inductive invariant `StoreInv`);
* `VerifiedDataKept`, `PiecesVerifiedWhole`, `VerificationIsFinal`,
  `IntactFilesSafe` for any content of the destination and anything peers send;
* `NoPanics` when at most one answer is given per block, asked for and of its length, no
  block ends in zeros and no directory is missing (`Undisturbed`). Each part is needed:
  see `store_duplicates` and section 4;
* `ReportedFilesIntact`, `FinishedIsIntact`, `CrashIsLocal`, `PanicsKeepBlocks` and
  `DownloadImplemented` for a destination without corrupt data and answers that are not
  too long (`CleanDisk`). The run `store_corrupt_file` shows that the first is needed,
  section 4 the second.

The argument. `VerifiedBlockOnDisk` alone is not inductive: that removing a block
file is harmless rests on the copy made a step before, and that truncating a
destination file is harmless rests on none of its blocks living only there.
`StoreInv` adds: `StatusInv`, verification is per piece and of persisted blocks,
and a block "in its file" is in a file that is there; `FileInv`, the controller
knows which files have their full length, but for the one being written;
`TempInv`, a block file of a verified block reads right unless it is gone, and then
it was copied to a file that is there or being written; `WriterInv`, all blocks
of the file being written are verified block files and those not left to copy
are good in it. Each action keeps each part; `VerifiedPieceValid` (hashing a
verified piece again succeeds) is what keeps repeated answers and later passes
from taking verification back. For the clean destination `CleanInv` adds that no
bad bytes are in it and no block file is too long, so that full length means right.
`NoPanicInv` adds that answers are owed for missing blocks only and that every block file
that reads right has its length, so that the copy cannot fail. `PanicsKeepBlocks` goes
through the steps that panic: between opening a file and removing its last block file
only the copy of a block file of the wrong length does, which costs blocks of that file
alone; every other leaves the destination and the block files of verified blocks as
they are.

### ClientStoreProofs

From `ClientAssumption`:

* `TypeCorrect`, with the bound on the events of one cycle;
* `AddedTorrentsKept`. That `client.json` holds what was added is not inductive, as
  it holds nothing while it is saved. `SavedInv` adds where the client is: between
  operations the file is what the client knows, while it is written it is torn,
  the client knows every added torrent, and it resumes only a torrent it knows,
  because a new one is saved first.
* `DirectoriesLostToFinished`. `DirectoryInv` adds that the directory is there while a
  controller of the torrent runs, unless another has ended: each makes it before it runs, and
  only an end removes it.

### PeerSessionsProofs

For any peers, pieces, connections and bounds, from the assumptions of the module:

* `TypeCorrect`, which needs no other invariant;
* `LastHeld`: the handle the controller has of a peer is the last connection's, unless
  a tracker's answer replaced the entry;
* `HoldersCounted`: `have` is at least the number of peers believed to have the piece.
  An event adds one holder of a piece at most, and then counts it (`HoldersNext`,
  `OneMoreHolder`); nothing else adds one. A reset takes a holder away and leaves the
  count, which is why the two are not equal;
* `BeliefIsView`. What the controller believes is behind what the connection knows
  by the events still in the channel, so the invariant speaks of the future: handling
  all waiting events in order leads from the belief to the view, or to no belief
  (`Converges`). `Course` is that sequence of beliefs, given as a function, with the
  lemmas on what happens to it when an event is added (`CourseAppend`), handled
  (`CourseTail`) or the entry is reset (`CourseLost`). `OneInit` and `Unheard` say when
  a reset can meet an Init that is not handled yet: not before the first
  connection has ended.

### BlockLayoutProofs

For any torrent, piece length and block length:

* `LayoutInvariant`. The cursor (piece, offset, file, and the two budgets) agrees with
  what is laid out: `CursorInv` says that offset and budget add up to the length of the
  file or piece, `PieceInv` and `FileInv` that what is behind the cursor is tiled. A new
  block begins at the cursor, so its id is not in use;
* `TypeCorrect`, where it matters that no budget becomes negative, `PiecesAreTiled`
  (empty files too), `FilesAreTiled` and `BlocksAreAdded` (no empty file);
* `PiecesMatch`, for torrents that are `WellFormed`: the hashes are as many as the bytes
  of all files fill pieces. `BytesInv` keeps the sum of bytes before and after
  the cursor. `WellFormed` quantifies over the count of bytes instead of defining a sum;
  `BytesAfterExists` shows that every torrent has one, so that the hypothesis says no
  more than what it means. The run checks the same property with `hashes` computed
  from the lengths.

### TrackersProofs

For any trackers, choices of answers and times, from `TrackersAssumption` and
`DataAssumption` (the types of the constants):

* `TrackersInvariant`, `TypeCorrect`. `NetworkInv`: ports and transaction numbers
  advance together, and a datagram under way carries those of its exchange.
  `ExchangeInv`: when the controller waits for a connect answer, datagrams of this exchange
  are of connects; when it waits for the announce answer, at most one announce request
  is under way, and what answers it is what `named` says. `ThrottleInv`: a
  tracker was not sent a request after the time it is left alone from, but
  for the exchange that is going on;
* `HonestHarmless`, `Throttles`, `AnswersAreOwn`. A stray answer ends or completes the
  exchange that takes it and changes nothing else the invariant speaks of
  (`StrayTaken`). The last theorem rests on what decoding
  returns: an HTTP answer yields the peers in it (`ListRead`, `CompactRead`), a UDP
  answer the addresses, of all but the last (`UdpRead`). That the port of a UDP answer is
  wrong is in section 4.

### PeerWireLemmas and PeerWireProofs

For any width of bytes and numbers, any count of pieces, any `MaxSize` and any list
of messages, from `WireAssumption` and `PowersAssumption`. The second says what
powers of two are: the prover has no definition of `^`, and TLC evaluates the
assumption with its own.

* `NumberRead` and `BitfieldRead`: what the listener reads of a number or a bitfield that
  was written by the format is that number or set, including the bits to spare;
* `TypeCorrect`, `HeardIsSaid`, `PlainIsHarmless`. The invariant `Synchronised` says that
  what is left in the stream is the tail of what was said: the listener is at a message
  boundary, behind a length or behind a type, all messages before are told and
  plain, and the rest of the stream is the rest of this message and all later ones
  (`Position`); or a message came that is not plain, and those before are told
  (`OutOfStep`), which nothing later changes. A remote side that says more extends the
  tail (`Longer`, `SaidStays`), a reset empties it.

`Digits` and `Told` are recursive functions. What a recursive function returns is known
to the prover only if a function with these equations exists; `ValuesExist` and
`ToldExists` show that, and `ToldSteps`, `ToldGrows` and `DigitsValue` are what the
rest uses.

### NumberLemmas

`SetInduction` is induction with a set in place of a predicate: the library's theorem
takes an operator, which the provers do not instantiate. It follows from
`LeastExists`, which follows from the library's facts on well-founded relations. The
other lemmas are about quotients and multiples with a factor that is not a
numeral.

### Only model-checked

Liveness is out of the prover's reach: `SessionEnds`, `FinishedThreadForgotten`,
`WritersReleased`, `ShutdownEndsJoin`, `CommandsServed`, `FinishedShown`, `FindsPeers`,
`HeardInTheEnd`. So are the four properties that are violated, of course, which are shown by
their counterexamples.

## 6. Plan

1. Two controllers over one temporary directory, composed from `TorrentStore`: what
   a second start of a running torrent may do to verified data.
2. The choice of `Scheduler::schedule` over `have` (`scheduler.rs:77`), composed from
   `TorrentStore` and `PeerSessions`: whether blocks nobody has can fill the batch.
3. Safety parts of the liveness properties as theorems: what a listener that waits is
   waiting for, or which threads a controller that is joining has still to wait for.

Not modelled: `utils.rs`, `formatter.rs` but for the block id, and the progress view
(text formatting), the bencode parser itself (a third-party format, no state).
