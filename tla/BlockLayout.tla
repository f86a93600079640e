---------------------------- MODULE BlockLayout ----------------------------
(***************************************************************************)
(* How a torrent is cut into blocks: decode_metainfo's choice of the files *)
(* (bencode.rs) and the loop of Torrent::new (torrent/state.rs), one       *)
(* iteration per step.  Its result is what the module TorrentStore takes   *)
(* as the constants PieceOf and FileOf.                                    *)
(*                                                                         *)
(* Indices start at 0 as in the code, so the file of index f is element    *)
(* f + 1 of a sequence.  Hashes, paths and trackers are left out.          *)
(***************************************************************************)
EXTENDS Integers, Sequences, FiniteSets

CONSTANTS
    MaxBlockLength, \* MAX_BLOCK_LENGTH
    Torrents        \* torrent files that may be added

\* What a torrent file holds.  A single-file torrent has the key "length" instead
\* of "files"; `lengths' has the lengths of its files in either case, and `hashes'
\* is the number of piece hashes.
TorrentFile == [single_file : BOOLEAN, lengths : Seq(Nat),
                piece_length : Nat \ {0}, hashes : Nat]

ASSUME TorrentsAssumption ==
    /\ MaxBlockLength \in Nat \ {0}
    /\ Torrents \subseteq TorrentFile

VARIABLES
    pc,
    torrent,                      \* the torrent file, chosen at first
    file_index, file_offset, file_budget,
    piece_index, piece_length, piece_budget, begin,
    block_ids_pos,                \* blocks of the current file: offset in it
    blocks,                       \* Torrent::blocks, from block ids
    pieces,                       \* lengths of Torrent::pieces
    files                         \* Torrent::files: length and block_ids_pos

cursor == <<file_index, file_offset, file_budget, piece_index, piece_length,
            piece_budget, begin, block_ids_pos>>
vars   == <<pc, torrent, cursor, blocks, pieces, files>>

LowerOf(a, b) == IF a <= b THEN a ELSE b

\* The file at an index and its length.
Indices == 0 .. Len(torrent.lengths) - 1
FileLength(f) == torrent.lengths[f + 1]

\* MetaInfo::files of decode_metainfo.  The length of a single file is used only if
\* there are other files; otherwise its name becomes the directory.
MetaFiles(t) == IF t.single_file THEN <<>> ELSE t.lengths

\* Bug: blocks are numbered as if all before them were full.
BlockIdBug(piece, offset) == <<piece, offset \div MaxBlockLength>>

\* formatter::get_block_id
BlockId(piece, offset) == <<piece, offset>>

\* HashMap::insert
Put(map, key, value) ==
    [k \in DOMAIN map \cup {key} |-> IF k = key THEN value ELSE map[k]]

Nothing == [k \in {} |-> 0]

Init ==
    /\ pc = "start"
    /\ torrent \in Torrents
    /\ file_index = 0 /\ file_offset = 0 /\ file_budget = 0
    /\ piece_index = 0 /\ piece_length = 0 /\ piece_budget = 0 /\ begin = 0
    /\ block_ids_pos = Nothing
    /\ blocks = Nothing
    /\ pieces = <<>>
    /\ files = <<>>

\* The first file and the first piece are looked up before the loop.
Start ==
    /\ pc = "start"
    /\ IF MetaFiles(torrent) = <<>> \/ torrent.hashes = 0
       THEN pc' = "panicked" /\ UNCHANGED cursor
       ELSE /\ pc' = "loop"
            /\ piece_budget' = torrent.piece_length
            /\ file_budget' = FileLength(0)
            /\ UNCHANGED <<file_index, file_offset, piece_index, piece_length,
                           begin, block_ids_pos>>
    /\ UNCHANGED <<torrent, blocks, pieces, files>>

-----------------------------------------------------------------------------
(* The loop. *)

\* Bug: the end of the file is not looked at.
BlockLengthBug == LowerOf(MaxBlockLength, piece_budget)

\* The length that can be added.
BlockLength == LowerOf(LowerOf(MaxBlockLength, piece_budget), file_budget)

LastFile == file_index = Len(torrent.lengths) - 1

\* Bug: the last piece is kept only if it is full.
PieceEndsBug == piece_budget = BlockLength

\* The block reaches the end of its piece, or the end of all files.
PieceEnds == piece_budget = BlockLength \/ (file_budget = BlockLength /\ LastFile)

FileEnds == file_budget = BlockLength

\* Bug: the block before is taken for a full one.
NextBeginBug == begin + MaxBlockLength

NextBegin == begin + BlockLength

AddBlock ==
    /\ blocks' = Put(blocks, BlockId(piece_index, begin),
                     [file |-> file_index, length |-> BlockLength])
    /\ IF PieceEnds
       THEN /\ pieces' = Append(pieces, piece_length + BlockLength)
            /\ piece_index' = piece_index + 1
            /\ begin' = 0
            /\ piece_length' = 0
            /\ piece_budget' = torrent.piece_length
       ELSE /\ begin' = NextBegin
            /\ piece_length' = piece_length + BlockLength
            /\ piece_budget' = piece_budget - BlockLength
            /\ UNCHANGED <<pieces, piece_index>>

\* Bug: positions are counted on from one file to the next.
NextOffsetBug == file_offset + BlockLength

\* The offset at which the next file begins.
NextOffset == 0

AddToFile ==
    LET pos == Put(block_ids_pos, BlockId(piece_index, begin), file_offset)
    IN  IF FileEnds
        THEN /\ files' = Append(files, [length |-> FileLength(file_index), pos |-> pos])
             /\ block_ids_pos' = Nothing
             /\ IF LastFile
                THEN /\ file_offset' = file_offset + BlockLength
                     /\ file_budget' = 0
                     /\ UNCHANGED file_index
                ELSE /\ file_index' = file_index + 1
                     /\ file_budget' = FileLength(file_index + 1)
                     /\ file_offset' = NextOffset
        ELSE /\ file_offset' = file_offset + BlockLength
             /\ file_budget' = file_budget - BlockLength
             /\ block_ids_pos' = pos
             /\ UNCHANGED <<file_index, files>>

\* A piece that ends needs a hash.
HashMissing == PieceEnds /\ piece_index >= torrent.hashes

Iterate ==
    /\ pc = "loop"
    /\ ~HashMissing
    /\ AddBlock
    /\ AddToFile
    /\ pc' = IF FileEnds /\ LastFile THEN "done" ELSE "loop"
    /\ UNCHANGED torrent

Panic ==
    /\ pc = "loop"
    /\ HashMissing
    /\ pc' = "panicked"
    /\ UNCHANGED <<torrent, cursor, blocks, pieces, files>>

Ended == pc \in {"done", "panicked"} /\ UNCHANGED vars

Next == Start \/ Iterate \/ Panic \/ Ended

Spec == Init /\ [][Next]_vars

-----------------------------------------------------------------------------
(* Properties. *)

BlockIds == Nat \X Nat

\* Every variable holds a value of its type; budgets do not become negative.
TypeOK ==
    /\ pc \in {"start", "loop", "done", "panicked"}
    /\ torrent \in Torrents
    /\ {file_index, file_offset, file_budget} \subseteq Nat
    /\ {piece_index, piece_length, piece_budget, begin} \subseteq Nat
    /\ DOMAIN blocks \subseteq BlockIds
    /\ \A id \in DOMAIN blocks :
          blocks[id].file \in Indices /\ blocks[id].length \in 0..MaxBlockLength
    /\ DOMAIN block_ids_pos \subseteq DOMAIN blocks
    /\ pieces \in Seq(Nat)
    /\ Len(files) <= Len(torrent.lengths)

\* No file of the torrent is empty.
NoEmptyFile == \A k \in DOMAIN torrent.lengths : torrent.lengths[k] > 0

\* The block holds byte o of its piece.
InPiece(id, o) == id[2] <= o /\ o < id[2] + blocks[id].length

\* The block holds byte o of file f, at the place recorded for it.
InFile(id, f, o) ==
    /\ id \in DOMAIN files[f + 1].pos
    /\ files[f + 1].pos[id] <= o
    /\ o < files[f + 1].pos[id] + blocks[id].length

\* The blocks of a finished piece cover it without a gap or an overlap, whichever
\* files they are in: hashing them in order hashes the piece.
PiecesTiled ==
    \A p \in 0 .. Len(pieces) - 1 : \A o \in 0 .. pieces[p + 1] - 1 :
        \E id \in DOMAIN blocks :
            /\ id[1] = p /\ InPiece(id, o)
            /\ \A other \in DOMAIN blocks :
                  other[1] = p /\ InPiece(other, o) => other = id

\* The positions recorded for a finished file cover it without a gap or an overlap,
\* and they are positions of exactly the blocks that name the file: a file is
\* complete when as many blocks name it as it has positions (writer.rs).  The block
\* of an empty file breaks this, because the next block takes its id.
FilesTiled ==
    NoEmptyFile =>
        \A f \in 0 .. Len(files) - 1 :
            /\ DOMAIN files[f + 1].pos = {id \in DOMAIN blocks : blocks[id].file = f}
            /\ \A o \in 0 .. FileLength(f) - 1 :
                  \E id \in DOMAIN blocks :
                      /\ InFile(id, f, o)
                      /\ \A other \in DOMAIN blocks :
                            InFile(other, f, o) => other = id

\* A torrent of several files, none of them empty, is laid out, and its pieces are
\* those the hashes are of: as many, each of the standard length but the last.
PiecesMatchHashes ==
    NoEmptyFile /\ ~torrent.single_file =>
        /\ pc # "panicked"
        /\ pc = "done" =>
              /\ Len(pieces) = torrent.hashes
              /\ \A k \in 1 .. Len(pieces) - 1 : pieces[k] = torrent.piece_length
              /\ pieces[Len(pieces)] \in 1 .. torrent.piece_length

\* Each iteration adds a block, if no file is empty: "We would always hit the block
\* boundary, add block and move block cursor" (state.rs).
BlockAdded ==
    [][pc = "loop" /\ pc' # "panicked" /\ NoEmptyFile =>
          Cardinality(DOMAIN blocks') = Cardinality(DOMAIN blocks) + 1]_vars

=============================================================================
