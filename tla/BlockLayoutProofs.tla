-------------------------- MODULE BlockLayoutProofs --------------------------
(***************************************************************************)
(* Theorems about the layout of a torrent: the blocks tile its pieces and  *)
(* its files, and the pieces are those the hashes are of, for any torrent  *)
(* files and any length of a block.                                        *)
(***************************************************************************)
EXTENDS BlockLayout, NumberLemmas, FiniteSetTheorems, TLAPS

-----------------------------------------------------------------------------
(* The inductive invariant. *)

\* The blocks of piece p are in its first n bytes and cover each of them once.
PieceTiled(B, p, n) ==
    /\ \A id \in DOMAIN B : id[1] = p => id[2] + B[id].length <= n
    /\ \A o \in 0 .. n - 1 :
          \E id \in DOMAIN B :
              /\ id[1] = p /\ id[2] <= o /\ o < id[2] + B[id].length
              /\ \A other \in DOMAIN B :
                    other[1] = p /\ other[2] <= o /\ o < other[2] + B[other].length
                    => other = id

\* The positions are those of the blocks of file f; they are in its first n bytes and
\* cover each of them once.
FileTiled(B, pos, f, n) ==
    /\ DOMAIN pos = {id \in DOMAIN B : B[id].file = f}
    /\ \A id \in DOMAIN pos : pos[id] + B[id].length <= n
    /\ \A o \in 0 .. n - 1 :
          \E id \in DOMAIN B :
              /\ id \in DOMAIN pos /\ pos[id] <= o /\ o < pos[id] + B[id].length
              /\ \A other \in DOMAIN B :
                    other \in DOMAIN pos /\ pos[other] <= o /\ o < pos[other] + B[other].length
                    => other = id

\* Where the loop is: in a file and in a piece, with bytes left of the piece, and of
\* the file if no file is empty.
CursorInv ==
    pc = "loop" =>
        /\ file_index \in Indices
        /\ Len(files) = file_index
        /\ file_offset + file_budget = FileLength(file_index)
        /\ piece_length = begin
        /\ begin + piece_budget = torrent.piece_length
        /\ piece_budget > 0
        /\ NoEmptyFile => file_budget > 0

\* Finished pieces are tiled, and the one at hand up to the cursor.
PieceInv ==
    /\ Len(pieces) = piece_index
    /\ \A p \in 0 .. piece_index - 1 : PieceTiled(blocks, p, pieces[p + 1])
    /\ PieceTiled(blocks, piece_index, begin)
    /\ \A id \in DOMAIN blocks : id[1] <= piece_index

\* So are files, when none is empty.
FileInv ==
    NoEmptyFile =>
        /\ \A f \in 0 .. Len(files) - 1 :
              FileTiled(blocks, files[f + 1].pos, f, FileLength(f))
        /\ pc = "loop" => FileTiled(blocks, block_ids_pos, file_index, file_offset)
        /\ \A id \in DOMAIN blocks : blocks[id].file <= file_index /\ blocks[id].length > 0

\* Positions of blocks in a file, and what is kept of a file.
Positions  == UNION {[D -> Nat] : D \in SUBSET BlockIds}
FileRecord == [length : Nat, pos : Positions]

\* Types that TypeOK leaves out.
StoreInv ==
    /\ block_ids_pos \in Positions
    /\ files \in Seq(FileRecord)
    /\ IsFiniteSet(DOMAIN blocks)

\* Nothing is laid out before the loop.
StartInv ==
    pc = "start" =>
        /\ file_index = 0 /\ file_offset = 0
        /\ piece_index = 0 /\ piece_length = 0 /\ begin = 0
        /\ blocks = Nothing /\ block_ids_pos = Nothing
        /\ files = <<>>

LayoutInv == TypeOK /\ StoreInv /\ StartInv /\ CursorInv /\ PieceInv /\ FileInv

-----------------------------------------------------------------------------
(* One iteration. *)

LEMMA TorrentType ==
    ASSUME TypeOK
    PROVE  /\ torrent.lengths \in Seq(Nat) /\ Len(torrent.lengths) \in Nat
           /\ torrent.piece_length \in Nat \ {0}
           /\ torrent.hashes \in Nat
           /\ \A f \in Indices : FileLength(f) \in Nat
           /\ NoEmptyFile => \A f \in Indices : FileLength(f) > 0
<1>1. torrent \in TorrentFile
  BY TorrentsAssumption DEF TypeOK
<1>2. /\ torrent.lengths \in Seq(Nat) /\ Len(torrent.lengths) \in Nat
      /\ torrent.piece_length \in Nat \ {0}
      /\ torrent.hashes \in Nat
  BY <1>1 DEF TorrentFile
<1>3. \A f \in Indices : f + 1 \in 1..Len(torrent.lengths) /\ f + 1 \in DOMAIN torrent.lengths
  BY <1>2 DEF Indices
<1> QED
  BY <1>2, <1>3 DEF FileLength, NoEmptyFile

\* The length of the next block fits everywhere.
LEMMA LengthFits ==
    ASSUME TypeOK, CursorInv, pc = "loop"
    PROVE  /\ BlockLength \in 0..MaxBlockLength
           /\ BlockLength \in Nat
           /\ BlockLength <= piece_budget /\ BlockLength <= file_budget
           /\ file_budget > 0 => BlockLength > 0
<1>1. MaxBlockLength \in Nat \ {0} /\ piece_budget \in Nat /\ file_budget \in Nat
  BY TorrentsAssumption DEF TypeOK
<1>2. piece_budget > 0
  BY DEF CursorInv
<1> QED
  BY <1>1, <1>2 DEF BlockLength, LowerOf

LEMMA PutPositions ==
    ASSUME NEW map \in Positions, NEW key \in BlockIds, NEW value \in Nat
    PROVE  Put(map, key, value) \in Positions
<1>1. PICK D \in SUBSET BlockIds : map \in [D -> Nat]
  BY DEF Positions
<1>2. Put(map, key, value) \in [D \cup {key} -> Nat]
  BY <1>1 DEF Put
<1>3. D \cup {key} \in SUBSET BlockIds
  OBVIOUS
<1> QED
  BY <1>2, <1>3 DEF Positions

LEMMA NothingPositions == Nothing \in Positions
<1>1. Nothing \in [{} -> Nat]
  BY DEF Nothing
<1> QED
  BY <1>1 DEF Positions

\* A piece is tiled further by a block at its end, and others as before.  A block that
\* was there has no byte.
LEMMA PieceGrows ==
    ASSUME NEW B, NEW p, NEW n \in Nat, NEW r, r.length \in Nat,
           \A id \in DOMAIN B : B[id].length \in Nat /\ id \in Nat \X Nat,
           PieceTiled(B, p, n), <<p, n>> \in Nat \X Nat
    PROVE  /\ PieceTiled(Put(B, <<p, n>>, r), p, n + r.length)
           /\ \A q \in Nat, m \in Nat : q # p /\ PieceTiled(B, q, m) =>
                 PieceTiled(Put(B, <<p, n>>, r), q, m)
<1> DEFINE new == <<p, n>>
           C == Put(B, new, r)
           In(A, q, id, o) == id[1] = q /\ id[2] <= o /\ o < id[2] + A[id].length
<1>1. /\ DOMAIN C = DOMAIN B \cup {new}
      /\ C[new] = r
      /\ \A id \in DOMAIN B : id # new => C[id] = B[id]
  BY DEF Put
<1>2. new[1] = p /\ new[2] = n /\ new \in Nat \X Nat
  OBVIOUS
<1>3. \A id \in Nat \X Nat : id[1] = p /\ id[2] = n => id = new
  OBVIOUS
<1> HIDE DEF C, new
<1>4. new \in DOMAIN B => B[new].length = 0
  BY <1>2 DEF PieceTiled
<1>5. \A id \in DOMAIN C : id[1] = p => id[2] + C[id].length <= n + r.length
  <2> SUFFICES ASSUME NEW id \in DOMAIN C, id[1] = p
               PROVE  id[2] + C[id].length <= n + r.length
    OBVIOUS
  <2>1. CASE id = new
    BY <1>1, <1>2, <2>1
  <2>2. CASE id # new
    <3>1. id \in DOMAIN B /\ C[id] = B[id] /\ id[2] \in Nat /\ B[id].length \in Nat
      BY <1>1, <2>2
    <3>2. id[2] + B[id].length <= n
      BY <3>1 DEF PieceTiled
    <3> QED
      BY <3>1, <3>2
  <2> QED
    BY <2>1, <2>2
<1>6. ASSUME NEW o \in 0 .. n - 1
      PROVE  \E id \in DOMAIN C : In(C, p, id, o) /\ \A other \in DOMAIN C : In(C, p, other, o) => other = id
  <2>1. PICK id \in DOMAIN B : In(B, p, id, o) /\ \A other \in DOMAIN B : In(B, p, other, o) => other = id
    BY DEF PieceTiled
  <2>2. id # new
    BY <1>2, <2>1
  <2>3. In(C, p, id, o) /\ id \in DOMAIN C
    BY <1>1, <2>1, <2>2
  <2>4. ASSUME NEW other \in DOMAIN C, In(C, p, other, o)
        PROVE  other = id
    <3>1. other # new
      BY <1>2, <2>4
    <3> QED
      BY <1>1, <2>1, <2>4, <3>1
  <2> QED
    BY <2>3, <2>4
<1>7. ASSUME NEW o \in n .. (n + r.length) - 1
      PROVE  \E id \in DOMAIN C : In(C, p, id, o) /\ \A other \in DOMAIN C : In(C, p, other, o) => other = id
  <2>1. In(C, p, new, o) /\ new \in DOMAIN C
    BY <1>1, <1>2
  <2>2. ASSUME NEW other \in DOMAIN C, In(C, p, other, o)
        PROVE  other = new
    <3> SUFFICES ASSUME other # new
                 PROVE  FALSE
      OBVIOUS
    <3>1. other \in DOMAIN B /\ C[other] = B[other] /\ B[other].length \in Nat /\ other[2] \in Nat
      BY <1>1
    <3>2. other[2] + B[other].length <= n
      BY <2>2, <3>1 DEF PieceTiled
    <3> QED
      BY <2>2, <3>1, <3>2
  <2> QED
    BY <2>1, <2>2
<1>8. PieceTiled(C, p, n + r.length)
  <2>1. \A o \in 0 .. (n + r.length) - 1 : o \in 0 .. n - 1 \/ o \in n .. (n + r.length) - 1
    OBVIOUS
  <2> QED
    BY <1>5, <1>6, <1>7, <2>1 DEF PieceTiled
<1>9. ASSUME NEW q \in Nat, NEW m \in Nat, q # p, PieceTiled(B, q, m)
      PROVE  PieceTiled(C, q, m)
  <2>1. \A id \in DOMAIN C : id[1] = q => id \in DOMAIN B /\ C[id] = B[id]
    BY <1>1, <1>2, <1>9
  <2>2. \A id \in DOMAIN B : id[1] = q => id \in DOMAIN C
    BY <1>1
  <2>3. \A id \in DOMAIN C : id[1] = q => id[2] + C[id].length <= m
    BY <1>9, <2>1 DEF PieceTiled
  <2>4. ASSUME NEW o \in 0 .. m - 1
        PROVE  \E id \in DOMAIN C : In(C, q, id, o) /\ \A other \in DOMAIN C : In(C, q, other, o) => other = id
    <3>1. PICK id \in DOMAIN B : In(B, q, id, o) /\ \A other \in DOMAIN B : In(B, q, other, o) => other = id
      BY <1>9 DEF PieceTiled
    <3> QED
      BY <2>1, <2>2, <3>1
  <2> QED
    BY <2>3, <2>4 DEF PieceTiled
<1> QED
  BY <1>8, <1>9 DEF C, new

\* A file is tiled further by a new block at its end, and others as before.
LEMMA FileGrows ==
    ASSUME NEW B, NEW pos \in Positions, NEW f, NEW n \in Nat, NEW r,
           r.length \in Nat, r.file = f, NEW new, new \notin DOMAIN B,
           \A id \in DOMAIN B : B[id].length \in Nat,
           FileTiled(B, pos, f, n)
    PROVE  /\ FileTiled(Put(B, new, r), Put(pos, new, n), f, n + r.length)
           /\ \A g, p, m : g # f /\ FileTiled(B, p, g, m) => FileTiled(Put(B, new, r), p, g, m)
<1> DEFINE C == Put(B, new, r)
           P == Put(pos, new, n)
           In(A, p, id, o) == id \in DOMAIN p /\ p[id] <= o /\ o < p[id] + A[id].length
<1>1. /\ DOMAIN C = DOMAIN B \cup {new}
      /\ C[new] = r
      /\ \A id \in DOMAIN B : id # new /\ C[id] = B[id]
  BY DEF Put
<1>2. /\ DOMAIN P = DOMAIN pos \cup {new}
      /\ P[new] = n
      /\ \A id \in DOMAIN pos : id # new => P[id] = pos[id]
  BY DEF Put
<1>3. DOMAIN pos = {id \in DOMAIN B : B[id].file = f} /\ \A id \in DOMAIN pos : pos[id] \in Nat
  BY DEF FileTiled, Positions
<1> HIDE DEF C, P
<1>4. DOMAIN P = {id \in DOMAIN C : C[id].file = f}
  BY <1>1, <1>2, <1>3
<1>5. \A id \in DOMAIN pos : id \in DOMAIN B /\ P[id] = pos[id] /\ C[id] = B[id]
  BY <1>1, <1>2, <1>3
<1>6. ASSUME NEW id \in DOMAIN P
      PROVE  P[id] + C[id].length <= n + r.length
  <2>1. CASE id = new
    BY <1>1, <1>2, <2>1
  <2>2. CASE id # new
    <3>1. id \in DOMAIN pos /\ pos[id] + B[id].length <= n
      BY <1>2, <2>2 DEF FileTiled
    <3>2. P[id] = pos[id] /\ C[id] = B[id] /\ pos[id] \in Nat /\ B[id].length \in Nat
      BY <1>3, <1>5, <3>1
    <3> QED
      BY <3>1, <3>2
  <2> QED
    BY <2>1, <2>2
<1>7. ASSUME NEW o \in 0 .. n - 1
      PROVE  \E id \in DOMAIN C : In(C, P, id, o) /\ \A other \in DOMAIN C : In(C, P, other, o) => other = id
  <2>1. PICK id \in DOMAIN B : In(B, pos, id, o) /\ \A other \in DOMAIN B : In(B, pos, other, o) => other = id
    BY DEF FileTiled
  <2>2. In(C, P, id, o) /\ id \in DOMAIN C
    BY <1>1, <1>2, <1>5, <2>1
  <2>3. ASSUME NEW other \in DOMAIN C, In(C, P, other, o)
        PROVE  other = id
    <3>1. other # new
      BY <1>2, <2>3
    <3>2. other \in DOMAIN pos
      BY <1>2, <2>3, <3>1
    <3> QED
      BY <1>5, <2>1, <2>3, <3>2
  <2> QED
    BY <2>2, <2>3
<1>8. ASSUME NEW o \in n .. (n + r.length) - 1
      PROVE  \E id \in DOMAIN C : In(C, P, id, o) /\ \A other \in DOMAIN C : In(C, P, other, o) => other = id
  <2>1. In(C, P, new, o) /\ new \in DOMAIN C
    BY <1>1, <1>2
  <2>2. ASSUME NEW other \in DOMAIN C, In(C, P, other, o)
        PROVE  other = new
    <3> SUFFICES ASSUME other # new
                 PROVE  FALSE
      OBVIOUS
    <3>1. other \in DOMAIN pos
      BY <1>2, <2>2
    <3>2. /\ P[other] = pos[other] /\ C[other] = B[other]
          /\ pos[other] \in Nat /\ B[other].length \in Nat
      BY <1>3, <1>5, <3>1
    <3>3. pos[other] + B[other].length <= n
      BY <3>1 DEF FileTiled
    <3> QED
      BY <2>2, <3>2, <3>3
  <2> QED
    BY <2>1, <2>2
<1>9. FileTiled(C, P, f, n + r.length)
  <2>1. \A o \in 0 .. (n + r.length) - 1 : o \in 0 .. n - 1 \/ o \in n .. (n + r.length) - 1
    OBVIOUS
  <2>2. \A o \in 0 .. (n + r.length) - 1 :
           \E id \in DOMAIN C : In(C, P, id, o) /\ \A other \in DOMAIN C : In(C, P, other, o) => other = id
    BY <1>7, <1>8, <2>1
  <2> QED
    BY <1>4, <1>6, <2>2 DEF FileTiled
<1>10. ASSUME NEW g, NEW p, NEW m, g # f, FileTiled(B, p, g, m)
       PROVE  FileTiled(C, p, g, m)
  <2>1. DOMAIN p = {id \in DOMAIN B : B[id].file = g}
    BY <1>10 DEF FileTiled
  <2>2. DOMAIN p = {id \in DOMAIN C : C[id].file = g}
    BY <1>1, <1>10, <2>1
  <2>3. \A id \in DOMAIN p : id \in DOMAIN B /\ id \in DOMAIN C /\ C[id] = B[id]
    BY <1>1, <2>1
  <2>4. \A id \in DOMAIN p : p[id] + C[id].length <= m
    BY <1>10, <2>3 DEF FileTiled
  <2>5. ASSUME NEW o \in 0 .. m - 1
        PROVE  \E id \in DOMAIN C : In(C, p, id, o) /\ \A other \in DOMAIN C : In(C, p, other, o) => other = id
    <3>1. PICK id \in DOMAIN B : In(B, p, id, o) /\ \A other \in DOMAIN B : In(B, p, other, o) => other = id
      BY <1>10 DEF FileTiled
    <3>2. In(C, p, id, o) /\ id \in DOMAIN C
      BY <2>3, <3>1
    <3>3. \A other \in DOMAIN C : In(C, p, other, o) => other = id
      BY <2>3, <3>1
    <3> QED
      BY <3>2, <3>3
  <2> QED
    BY <2>2, <2>4, <2>5 DEF FileTiled
<1> QED
  BY <1>9, <1>10 DEF C, P

\* What an iteration does: a block is put at the end of the piece and of the file at
\* hand, and either may end with it.
LEMMA IterateEffect ==
    ASSUME LayoutInv, Iterate
    PROVE  LET new == <<piece_index, begin>>
               r   == [file |-> file_index, length |-> BlockLength]
               pos == Put(block_ids_pos, new, file_offset)
           IN
           /\ pc = "loop" /\ torrent' = torrent
           /\ blocks' = Put(blocks, new, r)
           /\ \/ /\ PieceEnds
                 /\ pieces' = Append(pieces, begin + BlockLength)
                 /\ piece_index' = piece_index + 1
                 /\ begin' = 0 /\ piece_length' = 0
                 /\ piece_budget' = torrent.piece_length
              \/ /\ ~PieceEnds
                 /\ UNCHANGED <<pieces, piece_index>>
                 /\ begin' = begin + BlockLength /\ piece_length' = begin + BlockLength
                 /\ piece_budget' = piece_budget - BlockLength
           /\ \/ /\ FileEnds /\ LastFile
                 /\ pc' = "done"
                 /\ files' = Append(files, [length |-> FileLength(file_index), pos |-> pos])
                 /\ block_ids_pos' = Nothing
                 /\ file_offset' = file_offset + BlockLength
                 /\ file_budget' = 0 /\ file_index' = file_index
              \/ /\ FileEnds /\ ~LastFile
                 /\ pc' = "loop"
                 /\ files' = Append(files, [length |-> FileLength(file_index), pos |-> pos])
                 /\ block_ids_pos' = Nothing
                 /\ file_offset' = 0
                 /\ file_index' = file_index + 1
                 /\ file_budget' = FileLength(file_index + 1)
              \/ /\ ~FileEnds
                 /\ pc' = "loop"
                 /\ UNCHANGED <<files, file_index>>
                 /\ block_ids_pos' = pos
                 /\ file_offset' = file_offset + BlockLength
                 /\ file_budget' = file_budget - BlockLength
<1>1. pc = "loop" /\ piece_length = begin
  BY DEF Iterate, LayoutInv, CursorInv
<1>2. torrent' = torrent /\ pc' = IF FileEnds /\ LastFile THEN "done" ELSE "loop"
  BY DEF Iterate
<1>3. AddBlock /\ AddToFile
  BY DEF Iterate
<1> QED
  BY <1>1, <1>2, <1>3 DEF AddBlock, AddToFile, BlockId, NextBegin, NextOffset

\* The iteration keeps the types and where the cursors are.
LEMMA IterateCursor ==
    ASSUME LayoutInv, Iterate
    PROVE  TypeOK' /\ StoreInv' /\ CursorInv'
<1> DEFINE new == <<piece_index, begin>>
           r   == [file |-> file_index, length |-> BlockLength]
           pos == Put(block_ids_pos, new, file_offset)
<1>1. /\ TypeOK /\ StoreInv /\ CursorInv
      /\ pc = "loop" /\ torrent' = torrent /\ blocks' = Put(blocks, new, r)
  BY IterateEffect DEF LayoutInv
<1>2. /\ BlockLength \in 0..MaxBlockLength /\ BlockLength \in Nat
      /\ BlockLength <= piece_budget /\ BlockLength <= file_budget
  BY <1>1, LengthFits
<1>3. /\ file_index \in Nat /\ file_offset \in Nat /\ file_budget \in Nat
      /\ piece_index \in Nat /\ piece_length \in Nat /\ piece_budget \in Nat /\ begin \in Nat
      /\ pieces \in Seq(Nat)
  BY <1>1 DEF TypeOK
<1>4. /\ file_index \in Indices /\ Len(files) = file_index
      /\ file_offset + file_budget = FileLength(file_index)
      /\ piece_length = begin /\ begin + piece_budget = torrent.piece_length /\ piece_budget > 0
      /\ NoEmptyFile => file_budget > 0
  BY <1>1 DEF CursorInv
<1>5. /\ torrent.lengths \in Seq(Nat) /\ Len(torrent.lengths) \in Nat
      /\ torrent.piece_length \in Nat \ {0}
      /\ \A f \in Indices : FileLength(f) \in Nat
      /\ NoEmptyFile => \A f \in Indices : FileLength(f) > 0
  BY <1>1, TorrentType
<1>6. Indices' = Indices /\ (NoEmptyFile' <=> NoEmptyFile) /\ \A f : FileLength(f)' = FileLength(f)
  BY <1>1 DEF Indices, NoEmptyFile, FileLength
<1>7. new \in BlockIds /\ pos \in Positions
  BY <1>1, <1>3, PutPositions DEF BlockIds, StoreInv
<1>8. /\ DOMAIN blocks' = DOMAIN blocks \cup {new}
      /\ \A id \in DOMAIN blocks' : blocks'[id] = IF id = new THEN r ELSE blocks[id]
      /\ DOMAIN pos = DOMAIN block_ids_pos \cup {new}
  BY <1>1 DEF Put
<1> HIDE DEF new, pos
<1>9. DOMAIN blocks' \subseteq BlockIds
  BY <1>1, <1>7, <1>8 DEF TypeOK
<1>10. \A id \in DOMAIN blocks' :
          blocks'[id].file \in Indices' /\ blocks'[id].length \in 0..MaxBlockLength
  BY <1>1, <1>2, <1>4, <1>6, <1>8 DEF TypeOK
<1>11. DOMAIN pos \subseteq DOMAIN blocks' /\ DOMAIN Nothing \subseteq DOMAIN blocks'
  BY <1>1, <1>8 DEF TypeOK, Nothing
<1>12. IsFiniteSet(DOMAIN blocks')
  BY <1>1, <1>8, FS_AddElement DEF StoreInv
<1>13. /\ pieces' \in Seq(Nat)
       /\ {piece_index', piece_length', piece_budget', begin'} \subseteq Nat
       /\ piece_length' = begin' /\ begin' + piece_budget' = torrent.piece_length
       /\ piece_budget' > 0
  <2>1. CASE /\ PieceEnds
             /\ pieces' = Append(pieces, begin + BlockLength)
             /\ piece_index' = piece_index + 1
             /\ begin' = 0 /\ piece_length' = 0
             /\ piece_budget' = torrent.piece_length
    BY <1>2, <1>3, <1>5, <2>1
  <2>2. CASE /\ ~PieceEnds
             /\ UNCHANGED <<pieces, piece_index>>
             /\ begin' = begin + BlockLength /\ piece_length' = begin + BlockLength
             /\ piece_budget' = piece_budget - BlockLength
    BY <1>2, <1>3, <1>4, <1>5, <2>2 DEF PieceEnds
  <2> QED
    BY <2>1, <2>2, IterateEffect
<1>14. [length |-> FileLength(file_index), pos |-> pos] \in FileRecord
  BY <1>4, <1>5, <1>7 DEF FileRecord
<1>15. /\ pc' \in {"loop", "done"}
       /\ {file_index', file_offset', file_budget'} \subseteq Nat
       /\ block_ids_pos' \in {pos, Nothing}
       /\ files' \in Seq(FileRecord) /\ Len(files') <= Len(torrent.lengths)
       /\ pc' = "loop" =>
             /\ file_index' \in Indices
             /\ Len(files') = file_index'
             /\ file_offset' + file_budget' = FileLength(file_index')
             /\ NoEmptyFile => file_budget' > 0
  <2>1. CASE /\ FileEnds /\ LastFile
             /\ pc' = "done"
             /\ files' = Append(files, [length |-> FileLength(file_index), pos |-> pos])
             /\ block_ids_pos' = Nothing
             /\ file_offset' = file_offset + BlockLength
             /\ file_budget' = 0 /\ file_index' = file_index
    BY <1>1, <1>2, <1>3, <1>4, <1>5, <1>14, <2>1 DEF StoreInv, Indices
  <2>2. CASE /\ FileEnds /\ ~LastFile
             /\ pc' = "loop"
             /\ files' = Append(files, [length |-> FileLength(file_index), pos |-> pos])
             /\ block_ids_pos' = Nothing
             /\ file_offset' = 0
             /\ file_index' = file_index + 1
             /\ file_budget' = FileLength(file_index + 1)
    <3>1. file_index + 1 \in Indices /\ file_index + 1 <= Len(torrent.lengths)
      BY <1>4, <1>5, <2>2 DEF LastFile, Indices
    <3>2. files' \in Seq(FileRecord) /\ Len(files') = file_index + 1
      BY <1>1, <1>4, <1>14, <2>2 DEF StoreInv
    <3>3. FileLength(file_index + 1) \in Nat /\ (NoEmptyFile => FileLength(file_index + 1) > 0)
      BY <1>5, <3>1
    <3> QED
      BY <1>3, <2>2, <3>1, <3>2, <3>3
  <2>3. CASE /\ ~FileEnds
             /\ pc' = "loop"
             /\ UNCHANGED <<files, file_index>>
             /\ block_ids_pos' = pos
             /\ file_offset' = file_offset + BlockLength
             /\ file_budget' = file_budget - BlockLength
    <3>1. Len(files) <= Len(torrent.lengths)
      BY <1>1 DEF TypeOK
    <3>2. BlockLength < file_budget
      BY <1>2, <1>3, <2>3 DEF FileEnds
    <3> QED
      BY <1>1, <1>2, <1>3, <1>4, <1>5, <2>3, <3>1, <3>2 DEF StoreInv
  <2> QED
    BY <2>1, <2>2, <2>3, IterateEffect DEF pos, new
<1>16. TypeOK'
  <2>1. torrent \in Torrents
    BY <1>1 DEF TypeOK
  <2>2. DOMAIN block_ids_pos' \subseteq DOMAIN blocks'
    BY <1>11, <1>15
  <2> QED
    BY <1>1, <1>9, <1>10, <1>13, <1>15, <2>1, <2>2 DEF TypeOK
<1>17. StoreInv'
  BY <1>7, <1>12, <1>15, NothingPositions DEF StoreInv
<1>18. CursorInv'
  BY <1>1, <1>6, <1>13, <1>15 DEF CursorInv
<1> QED
  BY <1>16, <1>17, <1>18

\* The iteration tiles the piece at hand further, or begins another.
LEMMA IteratePiece ==
    ASSUME LayoutInv, Iterate
    PROVE  PieceInv'
<1> DEFINE new == <<piece_index, begin>>
           r   == [file |-> file_index, length |-> BlockLength]
           n   == begin + BlockLength
<1>1. /\ TypeOK /\ CursorInv /\ PieceInv
      /\ pc = "loop" /\ blocks' = Put(blocks, new, r)
  BY IterateEffect DEF LayoutInv
<1>2. BlockLength \in Nat /\ piece_index \in Nat /\ begin \in Nat /\ pieces \in Seq(Nat)
  BY <1>1, LengthFits DEF TypeOK
<1>3. \A id \in DOMAIN blocks : blocks[id].length \in Nat /\ id \in Nat \X Nat
  BY <1>1, TorrentsAssumption DEF TypeOK, BlockIds
<1>4. r.length = BlockLength /\ new \in Nat \X Nat /\ new[1] = piece_index
  BY <1>2
<1>5. /\ PieceTiled(blocks', piece_index, n)
      /\ \A q \in Nat, m \in Nat : q # piece_index /\ PieceTiled(blocks, q, m) =>
            PieceTiled(blocks', q, m)
  BY <1>1, <1>2, <1>3, <1>4, PieceGrows DEF PieceInv
<1>6. /\ Len(pieces) = piece_index
      /\ \A p \in 0 .. piece_index - 1 : PieceTiled(blocks, p, pieces[p + 1])
      /\ \A id \in DOMAIN blocks : id[1] <= piece_index
  BY <1>1 DEF PieceInv
<1>7. ASSUME NEW p \in 0 .. piece_index - 1
      PROVE  PieceTiled(blocks', p, pieces[p + 1])
  <2>1. p \in Nat /\ p # piece_index /\ pieces[p + 1] \in Nat
    BY <1>2, <1>6
  <2> QED
    BY <1>5, <1>6, <2>1
<1>8. DOMAIN blocks' = DOMAIN blocks \cup {new}
  BY <1>1 DEF Put
<1> HIDE DEF new
<1>9. \A id \in DOMAIN blocks' : id[1] <= piece_index /\ id[1] \in Nat
  BY <1>2, <1>3, <1>4, <1>6, <1>8
<1>10. CASE PieceEnds /\ pieces' = Append(pieces, n) /\ piece_index' = piece_index + 1 /\ begin' = 0
  <2>1. /\ Len(pieces') = piece_index'
        /\ pieces'[piece_index + 1] = n
        /\ \A p \in 0 .. piece_index - 1 : pieces'[p + 1] = pieces[p + 1]
    BY <1>2, <1>6, <1>10
  <2>2. ASSUME NEW p \in 0 .. piece_index' - 1
        PROVE  PieceTiled(blocks', p, pieces'[p + 1])
    <3>1. p = piece_index \/ p \in 0 .. piece_index - 1
      BY <1>2, <1>10
    <3> QED
      BY <1>5, <1>7, <2>1, <3>1
  <2>3. PieceTiled(blocks', piece_index', 0)
    BY <1>2, <1>9, <1>10 DEF PieceTiled
  <2>4. \A id \in DOMAIN blocks' : id[1] <= piece_index'
    BY <1>2, <1>9, <1>10
  <2> QED
    BY <1>10, <2>1, <2>2, <2>3, <2>4 DEF PieceInv
<1>11. CASE UNCHANGED <<pieces, piece_index>> /\ begin' = n
  BY <1>5, <1>6, <1>7, <1>9, <1>11 DEF PieceInv
<1> QED
  BY <1>10, <1>11, IterateEffect

\* If no file is empty, the block is new.
LEMMA NewBlock ==
    ASSUME LayoutInv, Iterate, NoEmptyFile
    PROVE  /\ <<piece_index, begin>> \notin DOMAIN blocks
           /\ BlockLength > 0
<1>1. TypeOK /\ CursorInv /\ PieceInv /\ FileInv /\ pc = "loop"
  BY IterateEffect DEF LayoutInv
<1>2. BlockLength > 0
  BY <1>1, LengthFits DEF CursorInv
<1> DEFINE new == <<piece_index, begin>>
<1>3. new[1] = piece_index /\ new[2] = begin /\ begin \in Nat
  BY <1>1 DEF TypeOK
<1> HIDE DEF new
<1>4. ASSUME new \in DOMAIN blocks
      PROVE  FALSE
  <2>1. blocks[new].length \in Nat /\ blocks[new].length > 0
    BY <1>1, <1>4, TorrentsAssumption DEF TypeOK, FileInv
  <2>2. new[2] + blocks[new].length <= begin
    BY <1>1, <1>3, <1>4 DEF PieceInv, PieceTiled
  <2> QED
    BY <1>3, <2>1, <2>2
<1> QED
  BY <1>2, <1>4 DEF new

\* The iteration tiles the file at hand further, or begins another.
LEMMA IterateFile ==
    ASSUME LayoutInv, Iterate
    PROVE  FileInv'
<1> DEFINE new == <<piece_index, begin>>
           r   == [file |-> file_index, length |-> BlockLength]
           pos == Put(block_ids_pos, new, file_offset)
           n   == file_offset + BlockLength
<1>1. /\ TypeOK /\ StoreInv /\ CursorInv /\ FileInv
      /\ pc = "loop" /\ torrent' = torrent /\ blocks' = Put(blocks, new, r)
  BY IterateEffect DEF LayoutInv
<1>2. (NoEmptyFile' <=> NoEmptyFile) /\ \A f : FileLength(f)' = FileLength(f)
  BY <1>1 DEF NoEmptyFile, FileLength
<1> SUFFICES ASSUME NoEmptyFile
             PROVE  FileInv'
  BY <1>2 DEF FileInv
<1>3. /\ BlockLength \in Nat /\ BlockLength <= file_budget
      /\ file_index \in Nat /\ file_offset \in Nat /\ file_budget \in Nat
  BY <1>1, LengthFits DEF TypeOK
<1>4. new \notin DOMAIN blocks /\ BlockLength > 0
  BY NewBlock
<1>5. /\ Len(files) = file_index /\ files \in Seq(FileRecord)
      /\ file_offset + file_budget = FileLength(file_index)
      /\ block_ids_pos \in Positions
  BY <1>1 DEF CursorInv, StoreInv
<1>6. /\ \A f \in 0 .. file_index - 1 :
            FileTiled(blocks, files[f + 1].pos, f, FileLength(f))
      /\ FileTiled(blocks, block_ids_pos, file_index, file_offset)
      /\ \A id \in DOMAIN blocks : blocks[id].file <= file_index /\ blocks[id].length > 0
  BY <1>1, <1>5 DEF FileInv
<1>7. \A id \in DOMAIN blocks : blocks[id].length \in Nat
  BY <1>1, TorrentsAssumption DEF TypeOK
<1>8. r.length = BlockLength /\ r.file = file_index
  OBVIOUS
<1> HIDE DEF r
<1>9. /\ FileTiled(blocks', pos, file_index, n)
      /\ \A g, p, m : g # file_index /\ FileTiled(blocks, p, g, m) => FileTiled(blocks', p, g, m)
  BY <1>1, <1>3, <1>4, <1>5, <1>6, <1>7, <1>8, FileGrows
<1>10. /\ DOMAIN blocks' = DOMAIN blocks \cup {new}
       /\ \A id \in DOMAIN blocks' : blocks'[id] = IF id = new THEN r ELSE blocks[id]
  BY <1>1 DEF Put
<1> HIDE DEF new
<1>11. \A id \in DOMAIN blocks' : blocks'[id].file <= file_index /\ blocks'[id].length > 0
  BY <1>3, <1>4, <1>6, <1>8, <1>10
<1>12. \A f \in 0 .. file_index - 1 : FileTiled(blocks', files[f + 1].pos, f, FileLength(f))
  BY <1>3, <1>6, <1>9
<1>13. ASSUME FileEnds,
              files' = Append(files, [length |-> FileLength(file_index), pos |-> pos])
       PROVE  /\ \A f \in 0 .. Len(files') - 1 :
                    FileTiled(blocks', files'[f + 1].pos, f, FileLength(f))
  <2>1. pos \in Positions /\ FileLength(file_index) = n
    <3>1. pos \in Positions
      BY <1>1, <1>3, <1>5, PutPositions DEF new, BlockIds, TypeOK
    <3> QED
      BY <1>3, <1>5, <1>13, <3>1 DEF FileEnds
  <2> HIDE DEF pos
  <2>2. /\ Len(files') = file_index + 1
        /\ files'[file_index + 1].pos = pos
        /\ \A f \in 0 .. file_index - 1 : files'[f + 1] = files[f + 1]
    BY <1>3, <1>5, <1>13
  <2>3. \A f \in 0 .. Len(files') - 1 : f = file_index \/ f \in 0 .. file_index - 1
    BY <1>3, <2>2
  <2> QED
    BY <1>9, <1>12, <2>1, <2>2, <2>3 DEF pos
<1>14. CASE /\ FileEnds /\ LastFile
            /\ pc' = "done"
            /\ files' = Append(files, [length |-> FileLength(file_index), pos |-> pos])
            /\ file_index' = file_index
  BY <1>2, <1>11, <1>13, <1>14 DEF FileInv
<1>15. CASE /\ FileEnds /\ ~LastFile
            /\ files' = Append(files, [length |-> FileLength(file_index), pos |-> pos])
            /\ block_ids_pos' = Nothing
            /\ file_offset' = 0
            /\ file_index' = file_index + 1
  <2>1. \A id \in DOMAIN blocks' : blocks'[id].file <= file_index' /\ blocks'[id].file # file_index'
    <3>1. \A id \in DOMAIN blocks' : blocks'[id].file \in Nat
      <4>1. TypeOK'
        BY IterateCursor
      <4> QED
        BY <4>1, TorrentType DEF TypeOK, Indices
    <3> QED
      BY <1>3, <1>11, <1>15, <3>1
  <2>2. DOMAIN Nothing = {}
    BY DEF Nothing
  <2>3. FileTiled(blocks', Nothing, file_index', 0)
    BY <2>1, <2>2 DEF FileTiled
  <2> QED
    BY <1>2, <1>11, <1>13, <1>15, <2>1, <2>3 DEF FileInv
<1>16. CASE /\ ~FileEnds
            /\ UNCHANGED <<files, file_index>>
            /\ block_ids_pos' = pos
            /\ file_offset' = n
  BY <1>2, <1>5, <1>9, <1>11, <1>12, <1>16 DEF FileInv
<1> QED
  BY <1>14, <1>15, <1>16, IterateEffect DEF new

-----------------------------------------------------------------------------
(* The theorems. *)

LEMMA LayoutInit == Init => LayoutInv
<1> SUFFICES ASSUME Init
             PROVE  LayoutInv
    OBVIOUS
<1> USE DEF Init
<1>1. TypeOK
  <2>1. torrent \in TorrentFile
    BY TorrentsAssumption
  <2>2. Len(torrent.lengths) \in Nat
    BY <2>1 DEF TorrentFile
  <2> QED
    BY <2>2 DEF TypeOK, Nothing
<1>2. StoreInv
  BY NothingPositions, FS_EmptySet DEF StoreInv, Nothing
<1>3. CursorInv /\ PieceInv /\ FileInv /\ StartInv
  BY DEF CursorInv, PieceInv, FileInv, StartInv, PieceTiled, Nothing
<1> QED
  BY <1>1, <1>2, <1>3 DEF LayoutInv

\* The first file and the first piece are taken up.
LEMMA LayoutStart == LayoutInv /\ Start => LayoutInv'
<1> SUFFICES ASSUME LayoutInv, Start
             PROVE  LayoutInv'
    OBVIOUS
<1> USE DEF cursor
<1>1. /\ TypeOK /\ StoreInv /\ PieceInv /\ FileInv /\ StartInv
      /\ pc = "start"
      /\ UNCHANGED <<torrent, blocks, pieces, files>>
  BY DEF LayoutInv, Start
<1>2. (NoEmptyFile' <=> NoEmptyFile) /\ Indices' = Indices /\ \A f : FileLength(f)' = FileLength(f)
  BY <1>1 DEF NoEmptyFile, FileLength, Indices
<1>3. CASE pc' = "panicked" /\ UNCHANGED cursor
  <2>1. TypeOK' /\ StoreInv' /\ PieceInv'
    BY <1>1, <1>2, <1>3 DEF TypeOK, StoreInv, PieceInv
  <2>2. FileInv'
    BY <1>1, <1>2, <1>3 DEF FileInv
  <2>3. CursorInv' /\ StartInv'
    BY <1>3 DEF CursorInv, StartInv
  <2> QED
    BY <2>1, <2>2, <2>3 DEF LayoutInv
<1>4. CASE /\ MetaFiles(torrent) # <<>>
           /\ pc' = "loop"
           /\ piece_budget' = torrent.piece_length
           /\ file_budget' = FileLength(0)
           /\ UNCHANGED <<file_index, file_offset, piece_index, piece_length,
                          begin, block_ids_pos>>
  <2>1. torrent.lengths # <<>> /\ torrent.lengths \in Seq(Nat)
    BY <1>1, <1>4, TorrentType DEF MetaFiles
  <2>2. 0 \in Indices
    BY <2>1 DEF Indices
  <2>3. /\ FileLength(0) \in Nat /\ torrent.piece_length \in Nat \ {0}
        /\ NoEmptyFile => FileLength(0) > 0
    BY <1>1, <2>2, TorrentType
  <2>4. TypeOK' /\ StoreInv' /\ PieceInv'
    BY <1>1, <1>2, <1>4, <2>3 DEF TypeOK, StoreInv, PieceInv
  <2>5. /\ file_index = 0 /\ file_offset = 0 /\ begin = 0 /\ piece_length = 0
        /\ DOMAIN blocks = {} /\ DOMAIN block_ids_pos = {} /\ Len(files) = 0
    BY <1>1 DEF StartInv, Nothing
  <2>6. CursorInv'
    BY <1>2, <1>1, <1>4, <2>2, <2>3, <2>5 DEF CursorInv
  <2>7. FileTiled(blocks, block_ids_pos, 0, 0)
    BY <2>5 DEF FileTiled
  <2>8. FileInv'
    BY <1>1, <1>2, <1>4, <2>5, <2>7 DEF FileInv
  <2>9. StartInv'
    BY <1>4 DEF StartInv
  <2> QED
    BY <2>4, <2>6, <2>8, <2>9 DEF LayoutInv
<1> QED
  BY <1>3, <1>4 DEF Start

\* Every step keeps the invariant.
LEMMA LayoutNext == LayoutInv /\ [Next]_vars => LayoutInv'
<1> SUFFICES ASSUME LayoutInv, [Next]_vars
             PROVE  LayoutInv'
    OBVIOUS
<1>1. CASE Iterate
  <2>1. StartInv'
    BY <1>1 DEF Iterate, StartInv
  <2> QED
    BY <1>1, <2>1, IterateCursor, IteratePiece, IterateFile DEF LayoutInv
<1>2. CASE pc' \in {pc, "panicked"} /\ UNCHANGED <<torrent, cursor, blocks, pieces, files>>
  <2>1. (NoEmptyFile' <=> NoEmptyFile) /\ Indices' = Indices /\ \A f : FileLength(f)' = FileLength(f)
    BY <1>2 DEF NoEmptyFile, FileLength, Indices
  <2> USE DEF LayoutInv, cursor
  <2>2. TypeOK' /\ StoreInv' /\ PieceInv'
    BY <1>2, <2>1 DEF TypeOK, StoreInv, PieceInv
  <2>3. FileInv'
    BY <1>2, <2>1 DEF FileInv
  <2>4. CursorInv' /\ StartInv'
    BY <1>2, <2>1 DEF CursorInv, StartInv
  <2> QED
    BY <2>2, <2>3, <2>4
<1>3. CASE Panic \/ Ended \/ UNCHANGED vars
  BY <1>2, <1>3 DEF Panic, Ended, vars
<1> QED
  BY <1>1, <1>3, LayoutStart DEF Next

\* The inductive invariant: the cursor of the loop, its budgets and what is laid out
\* behind it agree (Torrent::new).
THEOREM LayoutInvariant == Spec => []LayoutInv
BY LayoutInit, LayoutNext, PTL DEF Spec

\* Every variable holds a value of its type; no budget becomes negative.
THEOREM TypeCorrect == Spec => []TypeOK
<1>1. LayoutInv => TypeOK
  BY DEF LayoutInv
<1> QED
  BY <1>1, LayoutInvariant, PTL

\* The blocks of a finished piece cover it once, also if files are empty
\* (Torrent::new).
THEOREM PiecesAreTiled == Spec => []PiecesTiled
<1>1. LayoutInv => PiecesTiled
  BY DEF LayoutInv, PieceInv, PieceTiled, PiecesTiled, InPiece
<1> QED
  BY <1>1, LayoutInvariant, PTL

\* The positions of a finished file cover it once and are those of its blocks, if no
\* file is empty (Torrent::new).
THEOREM FilesAreTiled == Spec => []FilesTiled
<1>1. LayoutInv => FilesTiled
  BY DEF LayoutInv, FileInv, FileTiled, FilesTiled, InFile
<1> QED
  BY <1>1, LayoutInvariant, PTL

\* Each iteration adds a block, if no file is empty (Torrent::new).
THEOREM BlocksAreAdded == Spec => BlockAdded
<1>1. LayoutInv /\ [Next]_vars =>
         [pc = "loop" /\ pc' # "panicked" /\ NoEmptyFile =>
             Cardinality(DOMAIN blocks') = Cardinality(DOMAIN blocks) + 1]_vars
  <2> SUFFICES ASSUME LayoutInv, Next, pc = "loop", pc' # "panicked", NoEmptyFile
               PROVE  Cardinality(DOMAIN blocks') = Cardinality(DOMAIN blocks) + 1
    OBVIOUS
  <2>1. Iterate
    BY DEF Next, Start, Panic, Ended
  <2> DEFINE new == <<piece_index, begin>>
             D == DOMAIN blocks
  <2>2. DOMAIN blocks' = D \cup {new}
    BY <2>1, IterateEffect DEF Put
  <2>3. new \notin D /\ IsFiniteSet(D)
    BY <2>1, NewBlock DEF LayoutInv, StoreInv
  <2> HIDE DEF new, D
  <2>4. Cardinality(D \cup {new}) = IF new \in D THEN Cardinality(D) ELSE Cardinality(D) + 1
    BY <2>3, FS_AddElement
  <2> QED
    BY <2>2, <2>3, <2>4 DEF D
<1> QED
  BY <1>1, LayoutInvariant, PTL DEF Spec, BlockAdded

-----------------------------------------------------------------------------
(* The pieces are those the hashes are of. *)

\* rest[k] counts the bytes of the files after the first k of torrent t.
BytesAfter(t, rest) ==
    /\ rest \in [0 .. Len(t.lengths) -> Nat]
    /\ rest[Len(t.lengths)] = 0
    /\ \A k \in 1 .. Len(t.lengths) : rest[k - 1] = t.lengths[k] + rest[k]

\* Every torrent has such a count.
LEMMA BytesAfterExists ==
    ASSUME NEW t, t.lengths \in Seq(Nat)
    PROVE  \E rest : BytesAfter(t, rest)
<1> DEFINE l == t.lengths
           n == Len(l)
           From(i, f) == /\ f \in [i .. n -> Nat]
                         /\ f[n] = 0
                         /\ \A k \in i + 1 .. n : f[k - 1] = l[k] + f[k]
           S == {i \in 0 .. n : \E f : From(n - i, f)}
<1>1. n \in Nat /\ \A k \in 1 .. n : l[k] \in Nat
  OBVIOUS
<1> HIDE DEF l, n
<1>2. 0 \in S
  <2> DEFINE f == [i \in n .. n |-> 0]
  <2>1. From(n - 0, f)
    BY <1>1
  <2> HIDE DEF f, From
  <2> QED
    BY <1>1, <2>1
<1>3. ASSUME NEW i \in 0 .. n - 1, i \in S
      PROVE  i + 1 \in S
  <2> DEFINE j == n - i
  <2>1. PICK f : From(j, f)
    BY <1>3
  <2>2. j \in 1 .. n /\ n - (i + 1) = j - 1 /\ i + 1 \in 0 .. n
    BY <1>1
  <2> HIDE DEF j
  <2> DEFINE g == [k \in j - 1 .. n |-> IF k = j - 1 THEN l[j] + f[j] ELSE f[k]]
  <2>3. l[j] + f[j] \in Nat
    BY <1>1, <2>1, <2>2
  <2>4. g[j - 1] = l[j] + f[j] /\ \A k \in j .. n : g[k] = f[k]
    <3>1. j - 1 \in j - 1 .. n /\ \A k \in j .. n : k \in j - 1 .. n /\ k # j - 1
      BY <1>1, <2>2
    <3> QED
      BY <3>1
  <2>5. g \in [j - 1 .. n -> Nat]
    BY <2>1, <2>2, <2>3
  <2> HIDE DEF g
  <2>6. g[n] = 0
    BY <1>1, <2>1, <2>2, <2>4
  <2>7. \A k \in j + 1 .. n : g[k - 1] = l[k] + g[k]
    <3>1. \A k \in j + 1 .. n : k \in j .. n /\ k - 1 \in j .. n
      BY <1>1, <2>2
    <3> QED
      BY <2>1, <2>4, <3>1
  <2>8. g[j - 1] = l[j] + g[j]
    BY <1>1, <2>2, <2>4
  <2>9. \A k \in (j - 1) + 1 .. n : g[k - 1] = l[k] + g[k]
    <3>1. \A k \in (j - 1) + 1 .. n : k = j \/ k \in j + 1 .. n
      BY <2>2
    <3> QED
      BY <2>7, <2>8, <3>1
  <2>10. From(j - 1, g)
    BY <2>5, <2>6, <2>9
  <2> HIDE DEF From
  <2> QED
    BY <2>2, <2>10
<1> HIDE DEF S
<1>4. \A i \in 0 .. n : i \in S
  BY <1>1, <1>2, <1>3, SetInduction
<1>5. n \in S /\ n - n = 0
  BY <1>1, <1>4
<1>6. PICK f : From(0, f)
  <2> HIDE DEF From
  <2> QED
    BY <1>5 DEF S
<1>7. /\ f \in [0 .. n -> Nat] /\ f[n] = 0
      /\ \A k \in 1 .. n : f[k - 1] = l[k] + f[k]
  BY <1>6
<1> HIDE DEF From
<1> QED
  BY <1>7 DEF BytesAfter, l, n

\* A torrent file has files, and its hashes are as many as its bytes fill pieces.
HashesOf(t, rest) ==
    /\ t.lengths # <<>>
    /\ BytesAfter(t, rest)
    /\ rest[0] <= t.hashes * t.piece_length
    /\ t.hashes * t.piece_length < rest[0] + t.piece_length

WellFormed(t) == \E rest : HashesOf(t, rest)

\* The bytes before the cursor and those after it are all bytes of the torrent, so the
\* hashes do not run out.
BytesInv ==
    NoEmptyFile /\ ~torrent.single_file =>
        \A rest : HashesOf(torrent, rest) =>
            /\ pc # "panicked"
            /\ pc = "loop" =>
                  /\ \A k \in 1 .. Len(pieces) : pieces[k] = torrent.piece_length
                  /\ piece_index * torrent.piece_length + begin + file_budget
                        + rest[file_index + 1] = rest[0]
            /\ pc = "done" =>
                  /\ Len(pieces) = torrent.hashes
                  /\ \A k \in 1 .. Len(pieces) - 1 : pieces[k] = torrent.piece_length
                  /\ pieces[Len(pieces)] \in 1 .. torrent.piece_length

\* In the loop bytes are left, so that pieces are.
LEMMA HashesLeft ==
    ASSUME LayoutInv, BytesInv, pc = "loop", NoEmptyFile, ~torrent.single_file,
           NEW rest, HashesOf(torrent, rest)
    PROVE  /\ piece_index \in Nat /\ begin \in Nat /\ file_budget \in Nat
           /\ piece_budget \in Nat /\ file_budget > 0
           /\ torrent.piece_length \in Nat \ {0} /\ torrent.hashes \in Nat
           /\ begin + piece_budget = torrent.piece_length
           /\ file_index \in Indices
           /\ rest[file_index + 1] \in Nat
           /\ piece_index * torrent.piece_length + begin + file_budget
                 + rest[file_index + 1] = rest[0]
           /\ piece_index < torrent.hashes
<1> DEFINE P == torrent.piece_length
           H == torrent.hashes
<1>1. /\ piece_index \in Nat /\ begin \in Nat /\ file_budget \in Nat /\ piece_budget \in Nat
      /\ P \in Nat \ {0} /\ H \in Nat /\ Len(torrent.lengths) \in Nat
  BY TorrentType DEF LayoutInv, TypeOK
<1>2. file_budget > 0 /\ file_index \in Indices /\ begin + piece_budget = P
  BY DEF LayoutInv, CursorInv
<1>3. file_index + 1 \in 0 .. Len(torrent.lengths) /\ 0 \in 0 .. Len(torrent.lengths)
  BY <1>1, <1>2 DEF Indices
<1>4. /\ rest[file_index + 1] \in Nat /\ rest[0] \in Nat
      /\ rest[0] <= H * P
  BY <1>3 DEF HashesOf, BytesAfter
<1>5. piece_index * P + begin + file_budget + rest[file_index + 1] = rest[0]
  BY DEF BytesInv
<1>6. piece_index * P \in Nat /\ H * P \in Nat
  BY <1>1
<1>7. piece_index * P < H * P
  <2> DEFINE a == piece_index * P
             b == H * P
             c == rest[file_index + 1]
  <2>1. a \in Nat /\ b \in Nat /\ c \in Nat /\ rest[0] <= b /\ a + begin + file_budget + c = rest[0]
    BY <1>4, <1>5, <1>6
  <2> HIDE DEF a, b, c
  <2>2. a < b
    BY <1>1, <1>2, <1>4, <2>1
  <2> QED
    BY <2>2 DEF a, b
<1>8. piece_index < H
  BY <1>1, <1>7, MultiplesOrdered
<1> QED
  BY <1>1, <1>2, <1>4, <1>5, <1>8

\* When the bytes end in the piece after n others, there is a hash for each.
LEMMA LastHash ==
    ASSUME NEW n \in Nat, NEW p \in Nat \ {0}, NEW h \in Nat, NEW last \in 1 .. p,
           n * p + last <= h * p, h * p < n * p + last + p
    PROVE  h = n + 1
<1>1. n * p \in Nat /\ h * p \in Nat /\ (n + 1) * p \in Nat /\ (n + 2) * p \in Nat
  OBVIOUS
<1>2. (n + 1) * p = n * p + p /\ (n + 2) * p = n * p + p + p
  <2>1. (n + 1) * p = n * p + p
    BY NextMultiple
  <2>2. ((n + 1) + 1) * p = (n + 1) * p + p
    BY NextMultiple
  <2>3. (n + 1) + 1 = n + 2
    OBVIOUS
  <2> QED
    BY <2>1, <2>2, <2>3
<1>3. n * p < h * p /\ h * p < (n + 2) * p
  <2> DEFINE a == n * p
             b == h * p
             c == (n + 2) * p
  <2>1. a \in Nat /\ b \in Nat /\ a + last <= b /\ b < a + last + p /\ c = a + p + p
    BY <1>1, <1>2
  <2> HIDE DEF a, b, c
  <2>2. a < b /\ b < c
    BY <2>1
  <2> QED
    BY <2>2 DEF a, b, c
<1>4. n < h
  BY <1>3, MultiplesOrdered
<1>5. h < n + 2
  <2>1. n + 2 \in Nat
    OBVIOUS
  <2> QED
    BY <1>3, <2>1, MultiplesOrdered
<1> QED
  BY <1>4, <1>5

LEMMA AppendLast ==
    ASSUME NEW s \in Seq(Nat), NEW n \in Nat, NEW e \in Nat, Len(s) = n
    PROVE  /\ Len(Append(s, e)) = n + 1
           /\ \A k \in 1 .. n : Append(s, e)[k] = s[k]
           /\ Append(s, e)[n + 1] = e
OBVIOUS

\* The iteration moves bytes from after the cursor to before it.
LEMMA IterateBytes ==
    ASSUME LayoutInv, BytesInv, Iterate
    PROVE  BytesInv'
<1> DEFINE P == torrent.piece_length
           i == piece_index
           L == BlockLength
<1>1. pc = "loop" /\ torrent' = torrent /\ (NoEmptyFile' <=> NoEmptyFile)
  BY IterateEffect DEF NoEmptyFile
<1> SUFFICES ASSUME NoEmptyFile, ~torrent.single_file, NEW rest, HashesOf(torrent, rest)
             PROVE  /\ pc' # "panicked"
                    /\ pc' = "loop" =>
                          /\ \A k \in 1 .. Len(pieces') : pieces'[k] = P
                          /\ i' * P + begin' + file_budget' + rest[file_index' + 1] = rest[0]
                    /\ pc' = "done" =>
                          /\ Len(pieces') = torrent.hashes
                          /\ \A k \in 1 .. Len(pieces') - 1 : pieces'[k] = P
                          /\ pieces'[Len(pieces')] \in 1 .. P
  BY <1>1 DEF BytesInv
<1>2. /\ i \in Nat /\ begin \in Nat /\ file_budget \in Nat /\ piece_budget \in Nat
      /\ P \in Nat \ {0} /\ torrent.hashes \in Nat
      /\ begin + piece_budget = P
      /\ file_index \in Indices /\ rest[file_index + 1] \in Nat
  BY <1>1, HashesLeft
<1>3. /\ i * P \in Nat /\ (i + 1) * P = i * P + P
      /\ i * P + begin + file_budget + rest[file_index + 1] = rest[0]
  BY <1>1, <1>2, HashesLeft, NextMultiple
<1>4. L \in Nat /\ L > 0 /\ L <= piece_budget /\ L <= file_budget
  BY <1>1, NewBlock, LengthFits DEF LayoutInv
<1>5. /\ pieces \in Seq(Nat) /\ Len(pieces) = i
      /\ \A k \in 1 .. Len(pieces) : pieces[k] = P
      /\ torrent.lengths \in Seq(Nat)
  BY <1>1, TorrentType DEF LayoutInv, TypeOK, PieceInv, BytesInv
<1>6. Len(torrent.lengths) \in Nat /\ file_index \in Nat
  BY <1>2, <1>5 DEF Indices
<1>7. LastFile => rest[file_index + 1] = 0
  <2>1. LastFile => file_index + 1 = Len(torrent.lengths)
    BY <1>6 DEF LastFile
  <2> QED
    BY <2>1 DEF HashesOf, BytesAfter
<1>8. ~LastFile => rest[file_index + 1] = FileLength(file_index + 1) + rest[file_index + 2]
  <2> SUFFICES ASSUME ~LastFile
               PROVE  rest[file_index + 1] = FileLength(file_index + 1) + rest[file_index + 2]
    OBVIOUS
  <2>1. file_index + 2 \in 1 .. Len(torrent.lengths)
    BY <1>2, <1>6 DEF LastFile, Indices
  <2>2. (file_index + 2) - 1 = file_index + 1 /\ (file_index + 1) + 1 = file_index + 2
    BY <1>6
  <2> QED
    BY <2>1, <2>2 DEF HashesOf, BytesAfter, FileLength
<1> DEFINE a == i * P
           r == rest[file_index + 1]
<1>9. /\ a \in Nat /\ r \in Nat
      /\ a + begin + file_budget + r = rest[0]
      /\ LastFile => r = 0
  BY <1>2, <1>3, <1>7
<1>10. ASSUME PieceEnds, pieces' = Append(pieces, begin + L)
       PROVE  /\ Len(pieces') = i + 1
              /\ \A k \in 1 .. i : pieces'[k] = P
              /\ pieces'[i + 1] = begin + L
  <2>1. begin + L \in Nat
    BY <1>2, <1>4
  <2> HIDE DEF L
  <2> QED
    BY <1>2, <1>5, <1>10, <2>1, AppendLast
<1>11. CASE FileEnds /\ LastFile /\ pc' = "done"
  <2>1. PieceEnds
    BY <1>11 DEF FileEnds, PieceEnds
  <2>2. pieces' = Append(pieces, begin + L)
    BY <2>1, IterateEffect
  <2>3. file_budget = L /\ begin + L \in 1 .. P /\ rest[0] = a + (begin + L)
    <3>1. file_budget = L
      BY <1>11 DEF FileEnds
    <3> HIDE DEF a, r, L
    <3> QED
      BY <1>2, <1>4, <1>9, <1>11, <3>1
  <2>4. torrent.hashes = i + 1
    <3>1. rest[0] <= torrent.hashes * P /\ torrent.hashes * P < rest[0] + P
      BY DEF HashesOf
    <3> DEFINE last == begin + L
    <3>2. last \in 1 .. P /\ rest[0] = a + last
      BY <2>3
    <3> HIDE DEF last
    <3>3. a + last <= torrent.hashes * P /\ torrent.hashes * P < a + last + P
      BY <3>1, <3>2
    <3> QED
      BY <1>2, <3>2, <3>3, LastHash
  <2> HIDE DEF a, r, L
  <2> QED
    BY <1>2, <1>10, <1>11, <2>1, <2>2, <2>3, <2>4
<1>12. ASSUME ~(FileEnds /\ LastFile)
       PROVE  /\ pc' = "loop"
              /\ file_budget' \in Nat /\ rest[file_index' + 1] \in Nat
              /\ file_budget' + rest[file_index' + 1] = (file_budget - L) + r
  <2>1. file_budget' \in Nat
    BY IterateCursor DEF TypeOK
  <2>2. CASE FileEnds
    <3>1. /\ pc' = "loop" /\ file_index' = file_index + 1
          /\ file_budget' = FileLength(file_index + 1) /\ file_budget = L
      BY <1>12, <2>2, IterateEffect DEF FileEnds
    <3>2. (file_index + 1) + 1 = file_index + 2
      BY <1>6
    <3>3. file_index + 2 \in 0 .. Len(torrent.lengths)
      BY <1>2, <1>6, <1>12, <2>2 DEF LastFile, Indices
    <3>4. rest[file_index' + 1] \in Nat
      BY <3>1, <3>2, <3>3 DEF HashesOf, BytesAfter
    <3>5. file_budget' + rest[file_index' + 1] = r
      BY <1>8, <1>12, <2>2, <3>1, <3>2
    <3> QED
      BY <1>4, <1>9, <2>1, <3>1, <3>4, <3>5
  <2>3. CASE ~FileEnds
    <3>1. pc' = "loop" /\ file_index' = file_index /\ file_budget' = file_budget - L
      BY <2>3, IterateEffect
    <3> QED
      BY <1>9, <2>1, <3>1
  <2> QED
    BY <2>2, <2>3
<1>13. CASE ~(FileEnds /\ LastFile)
  <2> DEFINE f == file_budget'
             s == rest[file_index' + 1]
  <2>1. /\ pc' = "loop" /\ f \in Nat /\ s \in Nat
        /\ f + s = (file_budget - L) + r
        /\ a + begin + file_budget + r = rest[0]
    BY <1>9, <1>12, <1>13
  <2>2. (a + (begin + L)) + f + s = rest[0]
    <3> HIDE DEF a, r, f, s, L
    <3> QED
      BY <1>2, <1>4, <1>9, <2>1
  <2>3. CASE PieceEnds
    <3>1. /\ pieces' = Append(pieces, begin + L)
          /\ i' = i + 1 /\ begin' = 0
      BY <2>3, IterateEffect
    <3>2. begin + L = P
      <4>1. L = piece_budget
        BY <1>13, <2>3 DEF PieceEnds, FileEnds
      <4> QED
        BY <1>2, <4>1
    <3>3. \A k \in 1 .. Len(pieces') : pieces'[k] = P
      <4>1. /\ Len(pieces') = i + 1
            /\ \A k \in 1 .. i : pieces'[k] = P
            /\ pieces'[i + 1] = P
        BY <1>10, <2>3, <3>1, <3>2
      <4> QED
        BY <1>2, <4>1
    <3>4. i' * P + begin' + f + s = rest[0]
      <4>1. i' * P = a + P /\ begin' = 0
        BY <1>3, <3>1
      <4> DEFINE b == i' * P
      <4>2. b = a + P /\ (a + P) + f + s = rest[0]
        BY <2>2, <3>2, <4>1
      <4> HIDE DEF a, b, f, s
      <4>3. b + begin' + f + s = rest[0]
        BY <1>2, <1>9, <2>1, <4>1, <4>2
      <4> QED
        BY <4>3 DEF b
    <3> QED
      BY <2>1, <3>3, <3>4
  <2>4. CASE ~PieceEnds
    <3>1. pieces' = pieces /\ i' = i /\ begin' = begin + L
      BY <2>4, IterateEffect
    <3>2. \A k \in 1 .. Len(pieces') : pieces'[k] = P
      BY <1>5, <3>1
    <3>3. i' * P + begin' + f + s = rest[0]
      <4>1. i' * P = a
        BY <3>1
      <4> HIDE DEF a, f, s, L
      <4> QED
        BY <2>2, <3>1, <4>1
    <3> QED
      BY <2>1, <3>2, <3>3
  <2> QED
    BY <2>3, <2>4
<1>14. FileEnds /\ LastFile => pc' = "done"
  BY IterateEffect
<1> QED
  BY <1>11, <1>13, <1>14

LEMMA BytesStart == LayoutInv /\ BytesInv /\ Start => BytesInv'
<1> SUFFICES ASSUME LayoutInv, Start
             PROVE  BytesInv'
    OBVIOUS
<1>1. torrent' = torrent /\ pieces' = pieces /\ (NoEmptyFile' <=> NoEmptyFile)
  BY DEF Start, NoEmptyFile
<1> SUFFICES ASSUME NoEmptyFile, ~torrent.single_file, NEW rest, HashesOf(torrent, rest)
             PROVE  /\ pc' = "loop"
                    /\ \A k \in 1 .. Len(pieces) : pieces[k] = torrent.piece_length
                    /\ piece_index' * torrent.piece_length + begin' + file_budget'
                          + rest[file_index' + 1] = rest[0]
  BY <1>1 DEF BytesInv
<1>2. /\ torrent.lengths \in Seq(Nat) /\ Len(torrent.lengths) \in Nat
      /\ torrent.piece_length \in Nat \ {0} /\ torrent.hashes \in Nat
      /\ torrent.lengths # <<>>
  BY TorrentType DEF LayoutInv, HashesOf
<1>3. 1 \in 1 .. Len(torrent.lengths) /\ 0 \in Indices /\ 1 - 1 = 0 /\ 0 + 1 = 1
  BY <1>2 DEF Indices
<1>4. /\ rest[0] = FileLength(0) + rest[1] /\ rest[1] \in Nat
      /\ rest[0] <= torrent.hashes * torrent.piece_length
  BY <1>3 DEF HashesOf, BytesAfter, FileLength
<1>5. FileLength(0) > 0 /\ FileLength(0) \in Nat
  BY <1>3, TorrentType DEF LayoutInv
<1>6. torrent.hashes # 0
  <2> SUFFICES ASSUME torrent.hashes = 0
               PROVE  FALSE
    OBVIOUS
  <2>1. torrent.hashes * torrent.piece_length = 0
    BY <1>2
  <2> DEFINE b == torrent.hashes * torrent.piece_length
  <2>2. b = 0 /\ FileLength(0) + rest[1] <= b
    BY <1>4, <2>1
  <2> HIDE DEF b
  <2> QED
    BY <1>4, <1>5, <2>2
<1>7. /\ pc' = "loop" /\ file_budget' = FileLength(0)
      /\ UNCHANGED <<file_index, piece_index, begin>>
      /\ file_index = 0 /\ piece_index = 0 /\ begin = 0
      /\ Len(pieces) = 0
  BY <1>2, <1>6 DEF Start, MetaFiles, cursor, LayoutInv, StartInv, PieceInv
<1>8. piece_index' * torrent.piece_length = 0
  BY <1>2, <1>7
<1> DEFINE b == piece_index' * torrent.piece_length
<1>9. b = 0 /\ file_index' + 1 = 1
  BY <1>7, <1>8
<1> HIDE DEF b
<1>10. b + begin' + file_budget' + rest[file_index' + 1] = rest[0]
  BY <1>4, <1>5, <1>7, <1>9
<1> QED
  BY <1>7, <1>10 DEF b

LEMMA BytesNext == LayoutInv /\ BytesInv /\ [Next]_vars => BytesInv'
<1> SUFFICES ASSUME LayoutInv, BytesInv, [Next]_vars
             PROVE  BytesInv'
    OBVIOUS
<1>1. CASE Panic
  <2>1. /\ pc = "loop" /\ torrent' = torrent /\ (NoEmptyFile' <=> NoEmptyFile)
        /\ PieceEnds /\ piece_index >= torrent.hashes
    BY <1>1 DEF Panic, HashMissing, NoEmptyFile
  <2>2. ASSUME NoEmptyFile, ~torrent.single_file, NEW rest, HashesOf(torrent, rest)
        PROVE  FALSE
    <3>1. piece_index < torrent.hashes /\ piece_index \in Nat /\ torrent.hashes \in Nat
      BY <2>1, <2>2, HashesLeft
    <3> QED
      BY <2>1, <3>1
  <2> QED
    BY <2>1, <2>2 DEF BytesInv
<1>2. CASE UNCHANGED vars
  BY <1>2 DEF vars, cursor, BytesInv, NoEmptyFile
<1> QED
  BY <1>1, <1>2, BytesStart, IterateBytes DEF Next, Ended

\* A well-formed torrent of several files, none of them empty, is laid out without a
\* panic, and its pieces are as many as its hashes, each of the standard length but the
\* last (decode_metainfo, Torrent::new).
THEOREM PiecesMatch == Spec => [](WellFormed(torrent) => PiecesMatchHashes)
<1>1. Init => BytesInv
  BY DEF Init, BytesInv
<1>2. BytesInv => (WellFormed(torrent) => PiecesMatchHashes)
  BY DEF BytesInv, WellFormed, PiecesMatchHashes
<1> QED
  BY <1>1, <1>2, BytesNext, LayoutInvariant, PTL DEF Spec

=============================================================================
