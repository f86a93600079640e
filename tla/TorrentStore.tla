---------------------------- MODULE TorrentStore ----------------------------
(***************************************************************************)
(* The data path of one torrent controller (src/src/torrent/): the status  *)
(* of every block, piece verification, the assembly of files from the      *)
(* block files of the temporary directory, and the recovery of all of it   *)
(* from disk when a controller starts (Torrent::sync_with_disk).           *)
(*                                                                         *)
(* The controller thread runs one loop (Controller::start); `pc' says      *)
(* which call of the loop is next.  Everything it keeps is in memory and   *)
(* is lost when the process is killed or when an unwrap or an assertion of *)
(* the code fails; `temp' and `dest' are on disk and survive.  Steps that  *)
(* change the disk are separate, because the process can die between them. *)
(*                                                                         *)
(* Peers appear only as the answers they still owe: a request sent to a    *)
(* peer is one answer owed, which may arrive at any later time with good   *)
(* or bad data, or never.  What peers may do besides is the constant       *)
(* Faults: the code checks neither that a block was asked for nor that it  *)
(* exists, nor how long its data is.                                       *)
(*                                                                         *)
(* The SHA-1 check is abstracted to what it decides: a piece is valid iff  *)
(* each of its blocks reads back as the bytes the metainfo hashed.  A block *)
(* file is read into a buffer of zeros of the block's length, and how much *)
(* was read is not looked at: a shorter block file reads as if it ended in *)
(* zeros, and of a longer one the rest is not read.                        *)
(***************************************************************************)
EXTENDS Naturals, FiniteSets

CONSTANTS
    NumBlocks,      \* blocks, numbered in (piece_index, begin) order
    NumPieces,
    NumFiles,
    PieceOf,        \* Block::piece_index
    FileOf,         \* Block::file_index
    NestedFiles,    \* files in a directory of the torrent, which the code never
                    \* creates: it exists only when the user has made it
    PriorContents,  \* what the destination may hold before the first start
    ZeroTails,      \* blocks whose data ends in zeros
    Faults,         \* what peers may do that nobody asked them for
    HashOrders,     \* orders in which the map of blocks may iterate
    ScheduleBatch,  \* BLOCK_SCHEDULING_BATCH_SIZE
    VerifyBatch,    \* PIECE_VERIFICATION_BATCH_SIZE
    WriteBatch,     \* FILE_VERIFICATION_AND_WRITE_BATCH_SIZE
    EndGameLimit,   \* the literal 3 of enqueue_pending_blocks
    MaxOwed,        \* bound: answers owed for one block
    MaxBad,         \* bound: answers with other data than the block's
    MaxSessions     \* bound: times the torrent is started

Blocks == 1..NumBlocks
Pieces == 1..NumPieces
Files  == 1..NumFiles
NoFile == 0

\* What the range of a block in its destination file holds: not as many bytes,
\* the right ones, or others.
Content == {"none", "good", "bad"}

\* What a block file holds: it may also lack zeros the block ends in ("short"), or
\* go on after the right bytes ("long").  A "bad" one reads as other bytes.
BlockFileContent == Content \cup {"short", "long"}

\* What an answer may hold, in the same terms.
Data == BlockFileContent \ {"none"}

ASSUME LayoutAssumption ==
    /\ NumBlocks \in Nat
    /\ NumPieces \in Nat
    /\ NumFiles \in Nat
    /\ PieceOf \in [Blocks -> Pieces]
    /\ FileOf \in [Blocks -> Files]
    /\ \A f \in Files : \E b \in Blocks : FileOf[b] = f

ASSUME BoundsAssumption ==
    /\ NestedFiles \subseteq Files
    /\ PriorContents \subseteq Content
    /\ ZeroTails \subseteq Blocks
    /\ Faults \subseteq {"unasked", "unknown", "short", "long"}
    /\ HashOrders \subseteq [Blocks -> Nat]
    /\ HashOrders # {}
    /\ {ScheduleBatch, VerifyBatch, WriteBatch, EndGameLimit} \subseteq Nat
    /\ MaxOwed \in Nat \ {0}
    /\ MaxBad \in Nat
    /\ MaxSessions \in Nat

VARIABLES
    \* the controller's memory
    pc,             \* next call of the loop, or why the thread is not running
    data_status,    \* Block::data_status
    verified,       \* Block::verified
    file_path,      \* File::path.is_some()
    file_verified,  \* File::verified
    end_game_mode,  \* Scheduler::end_game_mode
    order,          \* iteration order of Torrent::blocks, fixed when it is built
    queue,          \* files verify_and_write_pendinfg_files has still to visit
    wop,            \* next operation of verify_and_write_file, "idle" outside it
    wfile,          \* the file it assembles
    left,           \* blocks of that file it has not copied and removed yet
    \* the disk
    temp,           \* block files in the temporary directory
    dest,           \* the range of each block in its destination file
    \* the environment
    owed,           \* answers peers may still send for a block
    badLeft,        \* answers with other data that may still come
    sessions        \* times the torrent was started

memory == <<data_status, verified, file_path, file_verified, end_game_mode,
            order>>
writer == <<wop, wfile, left>>
disk   == <<temp, dest>>
env    == <<owed, badLeft, sessions>>
vars   == <<pc, memory, queue, writer, disk, env>>

Running == {"events", "schedule", "verify", "select", "write", "cleanup"}
Halted  == {"down", "panicked", "done"}
BlockStatus == {"Pending", "Requested", "PersistedSeparately", "PersistedInFile"}

-----------------------------------------------------------------------------
(* Reading the torrent's state. *)

BlocksOfPiece(p) == {b \in Blocks : PieceOf[b] = p}
BlocksOfFile(f)  == {b \in Blocks : FileOf[b] = f}

Persisted(b) == data_status[b] \in {"PersistedSeparately", "PersistedInFile"}
Missing(b)   == data_status[b] \in {"Pending", "Requested"}

\* A destination file has the length the metainfo gives it.
FullLength(f) == \A b \in BlocksOfFile(f) : dest[b] # "none"

\* A destination file is byte for byte the one the torrent describes.
Intact(f) == \A b \in BlocksOfFile(f) : dest[b] = "good"

PieceComplete(p) == \A b \in BlocksOfPiece(p) : Persisted(b)

\* Every block file that hashing piece p would open exists; otherwise the
\* unwrap of the open panics.
PieceReadable(p) ==
    \A b \in BlocksOfPiece(p) :
        data_status[b] = "PersistedSeparately" => temp[b] # "none"

Stored(b) == IF data_status[b] = "PersistedSeparately" THEN temp[b] ELSE dest[b]

\* Read into a buffer of zeros of the block's length, it is the block.
ReadsRight(c) == c \in {"good", "short", "long"}

PieceValid(p) == \A b \in BlocksOfPiece(p) : ReadsRight(Stored(b))

\* Bug: the verified flag is not looked at.
FileReadyBug(f) == \A b \in BlocksOfFile(f) : Persisted(b)

\* All blocks of the file are persisted and verified.
FileReady(f) == \A b \in BlocksOfFile(f) : Persisted(b) /\ verified[b]

\* The file still counts as pending.
FilePending(f) == ~file_path[f] \/ ~file_verified[f]

Least(b, S) == b \in S /\ \A c \in S : b <= c

-----------------------------------------------------------------------------
(* Starting and losing a controller. *)

\* What Torrent::new puts in memory, before the disk is looked at.
FreshMemory ==
    /\ verified' = [b \in Blocks |-> FALSE]
    /\ file_verified' = [f \in Files |-> FALSE]
    /\ end_game_mode' = FALSE
    /\ queue' = {}
    /\ wop' = "idle"
    /\ wfile' = NoFile
    /\ left' = {}
    /\ owed' = [b \in Blocks |-> 0]

\* The thread ends as `why': its memory is gone, and so are its peers.
Halt(why) ==
    /\ pc' = why
    /\ data_status' = [b \in Blocks |-> "Pending"]
    /\ file_path' = [f \in Files |-> FALSE]
    /\ FreshMemory
    /\ UNCHANGED <<order, badLeft, sessions>>

Init ==
    /\ pc = "down"
    /\ data_status = [b \in Blocks |-> "Pending"]
    /\ verified = [b \in Blocks |-> FALSE]
    /\ file_path = [f \in Files |-> FALSE]
    /\ file_verified = [f \in Files |-> FALSE]
    /\ end_game_mode = FALSE
    /\ order \in HashOrders
    /\ queue = {}
    /\ wop = "idle"
    /\ wfile = NoFile
    /\ left = {}
    /\ temp = [b \in Blocks |-> "none"]
    /\ dest \in [Blocks -> PriorContents]
    /\ owed = [b \in Blocks |-> 0]
    /\ badLeft = MaxBad
    /\ sessions = 0

\* Bug: files found on disk are forgotten.
FoundFileBug(f) == FALSE

\* Bug: a file of any length is taken for the whole file.
FoundFileAnyLengthBug(f) == \E b \in BlocksOfFile(f) : dest[b] # "none"

\* What sync_with_disk finds: a destination file of the expected length ...
FoundFile(f) == FullLength(f)

\* ... which overrides block files in the temporary directory.
FoundStatus(b) ==
    IF FullLength(FileOf[b]) THEN "PersistedInFile"
    ELSE IF temp[b] # "none" THEN "PersistedSeparately"
    ELSE "Pending"

\* Controller::new and setup, with Torrent::sync_with_disk.  Nothing it finds
\* counts as verified.
Start ==
    /\ pc \in Halted
    /\ sessions < MaxSessions
    /\ pc' = "events"
    /\ data_status' = [b \in Blocks |-> FoundStatus(b)]
    /\ file_path' = [f \in Files |-> FoundFile(f)]
    /\ FreshMemory
    /\ order' \in HashOrders
    /\ sessions' = sessions + 1
    /\ UNCHANGED <<disk, badLeft>>

\* The process is killed between two changes of the disk.
Crash ==
    /\ pc \in Running
    /\ Halt("down")
    /\ UNCHANGED disk

-----------------------------------------------------------------------------
(* writer::verify_and_write_file *)

\* Bug: a file that is already there is written again.
VerifyAndWriteFileBug(f) ==
    \/ /\ ~FileReady(f)'
       /\ UNCHANGED <<file_verified, writer>>
    \/ /\ FileReady(f)'
       /\ file_verified' = [file_verified EXCEPT ![f] = TRUE]
       /\ wop' = "open" /\ wfile' = f /\ left' = BlocksOfFile(f)

\* In memory: nothing unless every block of f is persisted and verified, and
\* nothing to copy when the file is already there.
VerifyAndWriteFile(f) ==
    \/ /\ ~FileReady(f)'
       /\ UNCHANGED <<file_verified, writer>>
    \/ /\ FileReady(f)'
       /\ file_verified' = [file_verified EXCEPT ![f] = TRUE]
       /\ IF file_path[f]
          THEN UNCHANGED writer
          ELSE wop' = "open" /\ wfile' = f /\ left' = BlocksOfFile(f)

\* The destination file is created, or truncated if it exists.
OpenFile ==
    /\ wop = "open"
    /\ dest' = [b \in Blocks |-> IF FileOf[b] = wfile THEN "none" ELSE dest[b]]
    /\ wop' = "copy"
    /\ UNCHANGED <<pc, memory, queue, wfile, left, temp, env>>

\* The parent directory of the file does not exist: the open fails, and the code
\* unwraps its result.
OpenFilePanics ==
    /\ wop = "open"
    /\ wfile \in NestedFiles
    /\ Halt("panicked")
    /\ UNCHANGED disk

\* The next block in (piece_index, begin) order is appended to the file.  (A bad
\* block file is taken to have the block's length: none is ever copied.)
CopyBlock(b) ==
    /\ wop = "copy"
    /\ Least(b, left)
    /\ data_status[b] = "PersistedSeparately"
    /\ temp[b] \in {"good", "bad"}
    /\ dest' = [dest EXCEPT ![b] = temp[b]]
    /\ wop' = "remove"
    /\ UNCHANGED <<pc, memory, queue, wfile, left, temp, env>>

\* The destination after a copy that failed.  Only a long block file can give the
\* file its length, or take it beyond: then its bytes go on where the next blocks
\* belong.
AfterFailedCopy(b) ==
    IF data_status[b] = "PersistedSeparately" /\ temp[b] = "long" /\ left # {b}
    THEN {dest} \cup {d \in [Blocks -> Content] :
             /\ d[b] = "good"
             /\ \A x \in Blocks \ left : d[x] = dest[x]}
    ELSE {dest}

\* The assertion that as many bytes were copied as the block has fails, after they
\* were appended; or the block file is gone, or the block is said to be in the
\* file that is being written.
CopyBlockPanics(b) ==
    /\ wop = "copy"
    /\ Least(b, left)
    /\ data_status[b] = "PersistedSeparately" => temp[b] \notin {"good", "bad"}
    /\ dest' \in AfterFailedCopy(b)
    /\ Halt("panicked")
    /\ UNCHANGED temp

\* Bug: the block files of the whole piece are deleted.
UnlinkBug(b) ==
    temp' = [x \in Blocks |-> IF PieceOf[x] = PieceOf[b] THEN "none" ELSE temp[x]]

\* The block file is removed.
Unlink(b) == temp' = [temp EXCEPT ![b] = "none"]

\* The copied block file is deleted; after the last one the path of the file is
\* recorded.  The status of the block is not touched.
RemoveBlockFile(b) ==
    /\ wop = "remove"
    /\ Least(b, left)
    /\ Unlink(b)
    /\ left' = left \ {b}
    /\ IF left = {b}
       THEN /\ file_path' = [file_path EXCEPT ![wfile] = TRUE]
            /\ wop' = "idle"
            /\ wfile' = NoFile
       ELSE wop' = "copy" /\ UNCHANGED <<file_path, wfile>>
    /\ UNCHANGED <<pc, data_status, verified, file_verified, end_game_mode,
                   order, queue, dest, env>>

-----------------------------------------------------------------------------
(* event_processor::process_event, for a Block event. *)

\* Bug: a block that is already persisted is written again.
WrittenBug(b, c) == [temp EXCEPT ![b] = c]

\* The block files after writer::write_block, which drops a persisted block.
Written(b, c) == IF Persisted(b) THEN temp ELSE [temp EXCEPT ![b] = c]

WriteBlock(b, c) ==
    /\ temp' = Written(b, c)
    /\ data_status' = IF Persisted(b) THEN data_status
                      ELSE [data_status EXCEPT ![b] = "PersistedSeparately"]

\* An answer that arrives, and whether peers may give it.  The code takes what
\* comes: that it was asked for, and what it holds, is up to the peer.
Answer(b, c) ==
    /\ pc = "events"
    /\ wop = "idle"
    /\ owed[b] > 0 \/ "unasked" \in Faults
    /\ c # "good" => badLeft > 0
    /\ c = "short" => b \in ZeroTails /\ "short" \in Faults
    /\ c = "long" => "long" \in Faults

\* Bug: only the block that arrived gets the result of its piece.
HashedBug(b, valid) == [verified EXCEPT ![b] = valid]

\* Block::verified after hashing the piece of b.
Hashed(b, valid) ==
    [x \in Blocks |-> IF PieceOf[x] = PieceOf[b] THEN valid ELSE verified[x]]

\* Storing b completes its piece, and a block file the hash needs is gone.
HashPanics(b) ==
    /\ \A x \in BlocksOfPiece(PieceOf[b]) \ {b} : Persisted(x)
    /\ ~PieceReadable(PieceOf[b])

\* The block is stored; when that completes its piece the piece is hashed again,
\* all its blocks get the result, and a valid piece tries to finish the file of
\* this block.
HandleBlock(b, c) ==
    /\ Answer(b, c)
    /\ ~HashPanics(b)
    /\ owed' = IF owed[b] > 0 THEN [owed EXCEPT ![b] = @ - 1] ELSE owed
    /\ badLeft' = IF c = "good" THEN badLeft ELSE badLeft - 1
    /\ WriteBlock(b, c)
    /\ UNCHANGED <<pc, file_path, end_game_mode, order, queue, dest, sessions>>
    /\ \/ /\ ~PieceComplete(PieceOf[b])'
          /\ UNCHANGED <<verified, file_verified, writer>>
       \/ /\ PieceComplete(PieceOf[b])'
          /\ verified' = Hashed(b, PieceValid(PieceOf[b])')
          /\ IF PieceValid(PieceOf[b])'
             THEN VerifyAndWriteFile(FileOf[b])
             ELSE UNCHANGED <<file_verified, writer>>

\* The block came a second time after its file, or the file of another block of
\* its piece, was assembled: the hash opens a removed block file and panics.
HandleBlockPanics(b, c) ==
    /\ Answer(b, c)
    /\ HashPanics(b)
    /\ temp' = Written(b, c)
    /\ Halt("panicked")
    /\ UNCHANGED dest

\* A Block event names a piece and an offset at which no block begins: write_block
\* unwraps the block it looks up.
UnknownBlockPanics ==
    /\ "unknown" \in Faults
    /\ pc = "events"
    /\ wop = "idle"
    /\ Halt("panicked")
    /\ UNCHANGED disk

\* The process is killed after write_block truncated the block file and before
\* all of the data was written.  Of a block that ends in zeros only those may be
\* missing.
CrashInWriteBlock(b) ==
    /\ Answer(b, "good")
    /\ Missing(b)
    /\ \E c \in {"bad"} \cup {x \in {"short"} : b \in ZeroTails} :
          temp' = [temp EXCEPT ![b] = c]
    /\ Halt("down")
    /\ UNCHANGED dest

\* process_bounded_events returns: the channel is empty, or its count is used up.
EndEvents ==
    /\ pc = "events"
    /\ wop = "idle"
    /\ pc' = "schedule"
    /\ UNCHANGED <<memory, queue, writer, disk, env>>

-----------------------------------------------------------------------------
(* Scheduler::enqueue_pending_blocks, for the requests of blocks. *)

\* Scheduler::schedule: the blocks of `sent' are requested, each from `copies'
\* peers.
SendRequests(sent, copies) ==
    /\ data_status' = [b \in Blocks |->
                         IF b \in sent THEN "Requested" ELSE data_status[b]]
    /\ owed' = [b \in Blocks |->
                  IF b \notin sent THEN owed[b]
                  ELSE IF owed[b] + copies > MaxOwed THEN MaxOwed
                  ELSE owed[b] + copies]

\* Counts the blocks to fetch, enters the end game when few are left, and sends
\* requests for some that are pending, or whose request is too old, and for whose
\* piece a usable peer exists.  Only in the end game is more than one peer asked.
EnqueuePendingBlocks(sent, copies) ==
    LET pending == {b \in Blocks : Missing(b)}
        few     == pending # {} /\ Cardinality(pending) < EndGameLimit
    IN  /\ pc = "schedule"
        /\ sent \subseteq pending
        /\ Cardinality(sent) <= ScheduleBatch
        /\ end_game_mode' = (end_game_mode \/ few)
        /\ copies > 1 => end_game_mode'
        /\ SendRequests(sent, copies)
        /\ pc' = "verify"
        /\ UNCHANGED <<verified, file_path, file_verified, order, queue, writer,
                       disk, badLeft, sessions>>

-----------------------------------------------------------------------------
(* Torrent::verify_blocks_and_files *)

Unverified == {b \in Blocks : ~verified[b]}

\* The first VerifyBatch unverified blocks in the iteration order of the map.
Batch == {b \in Unverified :
             Cardinality({c \in Unverified : order[c] < order[b]}) < VerifyBatch}

\* The complete pieces the batch touches, the ones is_piece_valid answers for.
Checked == {p \in Pieces : PieceComplete(p) /\ \E b \in Batch : PieceOf[b] = p}

\* Bug: the blocks of an invalid piece keep their status.
RejectedBug(b) == FALSE

\* The block belongs to a piece whose check fails.
Rejected(b) == PieceOf[b] \in Checked /\ ~PieceValid(PieceOf[b])

\* A valid piece has all its blocks verified; the blocks of an invalid one go
\* back to pending.  Then every file on disk whose blocks are all verified is
\* verified.
VerifyBlocksAndFiles ==
    /\ pc = "verify"
    /\ IF \A p \in Checked : PieceReadable(p)
       THEN /\ verified' = [b \in Blocks |->
                 \/ verified[b]
                 \/ PieceOf[b] \in Checked /\ PieceValid(PieceOf[b])]
            /\ data_status' = [b \in Blocks |->
                 IF Rejected(b) THEN "Pending" ELSE data_status[b]]
            /\ file_verified' = [f \in Files |->
                 \/ file_verified[f]
                 \/ file_path[f] /\ \A b \in BlocksOfFile(f) : verified'[b]]
            /\ pc' = "select"
            /\ UNCHANGED <<file_path, end_game_mode, order, queue, writer, disk, env>>
       ELSE Halt("panicked") /\ UNCHANGED disk

-----------------------------------------------------------------------------
(* writer::verify_and_write_pendinfg_files and the end of the loop. *)

\* Bug: every ready file is taken.
TakenBug(ready) == ready

\* The first WriteBatch files of `ready'.
Taken(ready) == {f \in ready : Cardinality({g \in ready : g < f}) < WriteBatch}

\* The pending files that are ready and within the batch.
SelectPendingFiles ==
    /\ pc = "select"
    /\ queue' = Taken({f \in Files : FilePending(f) /\ FileReady(f)})
    /\ pc' = "write"
    /\ UNCHANGED <<memory, writer, disk, env>>

WriteNextFile(f) ==
    /\ pc = "write"
    /\ wop = "idle"
    /\ Least(f, queue)
    /\ queue' = queue \ {f}
    /\ UNCHANGED <<data_status, verified>>
    /\ VerifyAndWriteFile(f)
    /\ UNCHANGED <<pc, file_path, end_game_mode, order, disk, env>>

\* The loop goes on while a file is pending.
EndPass ==
    /\ pc = "write"
    /\ wop = "idle"
    /\ queue = {}
    /\ pc' = IF \E f \in Files : FilePending(f) THEN "events" ELSE "cleanup"
    /\ UNCHANGED <<memory, queue, writer, disk, env>>

\* Controller::cleanup removes the temporary directory ...
CleanupRemove(b) ==
    /\ pc = "cleanup"
    /\ temp[b] # "none"
    /\ Unlink(b)
    /\ UNCHANGED <<pc, memory, queue, writer, dest, env>>

\* ... then asserts that every file was written, and the thread returns.
CleanupEnd ==
    /\ pc = "cleanup"
    /\ \A b \in Blocks : temp[b] = "none"
    /\ Halt(IF \A f \in Files : file_path[f] THEN "done" ELSE "panicked")
    /\ UNCHANGED disk

-----------------------------------------------------------------------------

\* Nothing runs and nobody starts the torrent again.
Stopped ==
    /\ pc \in Halted
    /\ sessions = MaxSessions
    /\ UNCHANGED vars

\* The steps the controller thread takes without waiting for an answer.
ControllerStep ==
    \/ OpenFile
    \/ OpenFilePanics
    \/ \E b \in Blocks : CopyBlock(b) \/ CopyBlockPanics(b)
    \/ \E b \in Blocks : RemoveBlockFile(b)
    \/ EndEvents
    \/ \E sent \in SUBSET Blocks, copies \in 1..MaxOwed :
          EnqueuePendingBlocks(sent, copies)
    \/ VerifyBlocksAndFiles
    \/ SelectPendingFiles
    \/ \E f \in Files : WriteNextFile(f)
    \/ EndPass
    \/ \E b \in Blocks : CleanupRemove(b)
    \/ CleanupEnd

PeerStep ==
    \/ \E b \in Blocks, c \in Data : HandleBlock(b, c) \/ HandleBlockPanics(b, c)
    \/ UnknownBlockPanics

EnvironmentStep ==
    \/ Start
    \/ Crash
    \/ \E b \in Blocks : CrashInWriteBlock(b)
    \/ Stopped

Next == ControllerStep \/ PeerStep \/ EnvironmentStep

Spec == Init /\ [][Next]_vars

\* The controller thread is never suspended for ever.  Of the peers it is assumed
\* that a block that keeps being missing keeps finding a peer to ask, and that a
\* block that keeps being asked for is answered with good data.
Requests(b) ==
    \E sent \in SUBSET Blocks, copies \in 1..MaxOwed :
        b \in sent /\ EnqueuePendingBlocks(sent, copies)

Fairness ==
    /\ WF_vars(ControllerStep)
    /\ \A b \in Blocks : SF_vars(Requests(b))
    /\ \A b \in Blocks : SF_vars(HandleBlock(b, "good"))

FairSpec == Spec /\ Fairness

-----------------------------------------------------------------------------
(* Properties. *)

\* Every variable holds a value of its type, and no pass writes more files than
\* its batch.
TypeOK ==
    /\ pc \in Running \cup Halted
    /\ data_status \in [Blocks -> BlockStatus]
    /\ verified \in [Blocks -> BOOLEAN]
    /\ file_path \in [Files -> BOOLEAN]
    /\ file_verified \in [Files -> BOOLEAN]
    /\ end_game_mode \in BOOLEAN
    /\ order \in HashOrders
    /\ queue \subseteq Files /\ Cardinality(queue) <= WriteBatch
    /\ wop \in {"idle", "open", "copy", "remove"}
    /\ wfile \in Files \cup {NoFile}
    /\ left \subseteq Blocks
    /\ temp \in [Blocks -> BlockFileContent]
    /\ dest \in [Blocks -> Content]
    /\ owed \in [Blocks -> 0..MaxOwed]
    /\ badLeft \in 0..MaxBad
    /\ sessions \in 0..MaxSessions

\* Until cleanup, a block the controller calls verified can be read from the disk,
\* as a block file or in place.  Verification, the assembly of files and late
\* answers (process_event, verify_and_write_file) must not lose it.
VerifiedBlockOnDisk ==
    pc # "cleanup" =>
        \A b \in Blocks : verified[b] => ReadsRight(temp[b]) \/ dest[b] = "good"

\* Verification is per piece: process_event and verify_blocks_and_files never
\* leave two blocks of one piece with different results.
VerifiedByPiece ==
    \A b, c \in Blocks : PieceOf[b] = PieceOf[c] => verified[b] = verified[c]

\* While a controller runs, a verified block stays verified: hashing the piece
\* again for a repeated answer cannot undo it.
VerifiedStays ==
    [][(pc \in Running /\ pc' \in Running) =>
          (\A b \in Blocks : verified[b] => verified'[b])]_vars

\* A destination file that is complete and correct on disk is never truncated or
\* overwritten again, in this session or after any restart.
IntactFileKept ==
    [][\A f \in Files : (Intact(f) => Intact(f)')]_vars

\* A file recorded as on disk and verified is the file the torrent describes.
VerifiedFileIntact ==
    \A f \in Files : file_path[f] /\ file_verified[f] => Intact(f)

\* When the controller finishes, every file of the torrent is correct: "On
\* completion, verify integrity of whole data" (Readme.md).
CompletionIntegrity == pc = "done" => \A f \in Files : Intact(f)

\* The block would be found by the sync_with_disk of a restart, and read right.
Recoverable(b) ==
    IF FullLength(FileOf[b]) THEN dest[b] = "good" ELSE ReadsRight(temp[b])

\* A crash costs verified blocks only of the one file that is being assembled:
\* verify_and_write_file removes block files before the file has its length.
CrashLosesOnlyOpenFile ==
    \A b \in Blocks : verified[b] /\ ~Recoverable(b) =>
        /\ wop \in {"copy", "remove"}
        /\ FileOf[b] = wfile

\* The assembly of a file has come to a block file that passed its hash without
\* having the block's length.
AtBadLength == wop = "copy" /\ \E b \in left : temp[b] \in {"short", "long"}

\* A panic of the data path costs no verified block, a new controller finds every
\* one of them on disk; but for those of a file that is being assembled when one of
\* its block files turns out not to have the block's length.
PanicKeepsBlocks ==
    [][(pc # "panicked" /\ pc' = "panicked") =>
          \A b \in Blocks :
              verified[b] => Recoverable(b)' \/ (AtBadLength /\ FileOf[b] = wfile)]_vars

\* No unwrap or assertion of the data path fails.
NeverPanics == pc # "panicked"

\* A started controller comes to an end: unless it is killed or panics it has all
\* files and cleans up.
SessionEnds == pc \in Running ~> pc \in Halted

\* The data path implements the abstract download: a file is complete when its
\* bytes on disk are right, and claimed when the controller reports it so.
Abstract == INSTANCE Download WITH
    complete <- {f \in Files : Intact(f)},
    claimed  <- {f \in Files : file_path[f] /\ file_verified[f]},
    finished <- pc = "done"

ImplementsDownload == Abstract!Spec

=============================================================================
