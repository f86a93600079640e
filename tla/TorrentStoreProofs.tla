------------------------- MODULE TorrentStoreProofs -------------------------
(***************************************************************************)
(* Theorems about TorrentStore, for every layout of blocks, pieces and     *)
(* files, every batch size and every bound.                                *)
(***************************************************************************)
EXTENDS TorrentStore, FiniteSetTheorems, TLAPS

-----------------------------------------------------------------------------
(* Types. *)

\* An empty queue is within the batch.
LEMMA NoneQueued == Cardinality({}) <= WriteBatch
BY FS_EmptySet, BoundsAssumption

\* Part of a queue within the batch is within it.
LEMMA FewerQueued ==
    ASSUME NEW S \in SUBSET Files, NEW T \in SUBSET S, Cardinality(S) <= WriteBatch
    PROVE  Cardinality(T) <= WriteBatch
<1>1. IsFiniteSet(Files)
  BY FS_Interval, LayoutAssumption DEF Files
<1>2. IsFiniteSet(S) /\ IsFiniteSet(T)
  BY <1>1, FS_Subset
<1>3. Cardinality(T) <= Cardinality(S)
  BY <1>2, FS_Subset
<1>4. Cardinality(T) \in Nat /\ Cardinality(S) \in Nat
  BY <1>2, FS_CardinalityType
<1> QED BY <1>3, <1>4, BoundsAssumption

\* What verify_and_write_pendinfg_files takes is within the batch: of two files it
\* takes the later one has more ready files before it, and each has fewer than
\* WriteBatch.
LEMMA TakenFits ==
    ASSUME NEW ready \in SUBSET Files
    PROVE  Taken(ready) \subseteq Files /\ Cardinality(Taken(ready)) <= WriteBatch
<1> DEFINE T         == Taken(ready)
           Before(x) == {g \in ready : g < x}
           Place     == [x \in T |-> Cardinality(Before(x))]
           Places    == 0..(WriteBatch - 1)
<1>1. T \subseteq ready /\ T \subseteq Files
  BY DEF Taken
<1>2. IsFiniteSet(ready) /\ IsFiniteSet(T)
  <2>1. IsFiniteSet(Files)
    BY FS_Interval, LayoutAssumption DEF Files
  <2>2. IsFiniteSet(ready)
    BY <2>1, FS_Subset
  <2> QED BY <1>1, <2>2, FS_Subset
<1>3. ASSUME NEW x \in Files
      PROVE  IsFiniteSet(Before(x)) /\ Cardinality(Before(x)) \in Nat
  <2>1. IsFiniteSet(Before(x))
    BY <1>2, FS_Subset
  <2> QED BY <2>1, FS_CardinalityType
<1>4. IsFiniteSet(Places) /\ Cardinality(Places) = WriteBatch
  <2>1. WriteBatch \in Nat /\ 0 \in Int /\ WriteBatch - 1 \in Int
    BY BoundsAssumption
  <2>2. /\ IsFiniteSet(Places)
        /\ Cardinality(Places) = IF 0 > WriteBatch - 1 THEN 0 ELSE (WriteBatch - 1) - 0 + 1
    BY <2>1, FS_Interval
  <2> QED BY <2>1, <2>2
<1>5. Place \in [T -> Places]
  <2>1. \A x \in T : Cardinality(Before(x)) < WriteBatch
    BY DEF Taken
  <2> QED BY <1>1, <1>3, <2>1, BoundsAssumption
<1>6. ASSUME NEW x \in T, NEW y \in T, x < y
      PROVE  Place[x] # Place[y]
  <2>1. x \in ready /\ x \in Files /\ y \in Files
    BY <1>1
  <2>2. Before(x) \cup {x} \in SUBSET Before(y)
    <3>1. x \in Nat /\ y \in Nat /\ \A g \in ready : g \in Nat
      BY <2>1 DEF Files
    <3>2. \A g \in ready : g < x => g < y
      BY <1>6, <3>1
    <3> QED BY <1>6, <2>1, <3>2
  <2>3. x \notin Before(x)
    BY <2>1 DEF Files
  <2>4. Cardinality(Before(x) \cup {x}) = Cardinality(Before(x)) + 1
    BY <1>3, <2>1, <2>3, FS_AddElement
  <2>5. Cardinality(Before(x) \cup {x}) <= Cardinality(Before(y))
    BY <1>3, <2>1, <2>2, FS_Subset
  <2> QED BY <1>3, <2>1, <2>4, <2>5
<1>7. ASSUME WriteBatch < Cardinality(T)
      PROVE  FALSE
  <2> HIDE DEF T, Place, Places
  <2>1. PICK x \in T, y \in T : x # y /\ Place[x] = Place[y]
    BY <1>2, <1>4, <1>5, <1>7, FS_PigeonHole
  <2>2. x < y \/ y < x
    BY <1>1, <2>1 DEF Files
  <2> QED BY <1>6, <2>1, <2>2
<1>8. Cardinality(T) \in Nat /\ WriteBatch \in Nat
  BY <1>2, FS_CardinalityType, BoundsAssumption
<1> QED BY <1>1, <1>7, <1>8

\* The end of the thread leaves every variable it resets in its type.
LEMMA HaltType ==
    ASSUME TypeOK, NEW why \in Halted, Halt(why),
           temp' \in [Blocks -> BlockFileContent], dest' \in [Blocks -> Content]
    PROVE  TypeOK'
<1>1. owed' \in [Blocks -> 0..MaxOwed]
  BY BoundsAssumption DEF Halt, FreshMemory
<1>2. data_status' \in [Blocks -> BlockStatus]
  BY DEF Halt, BlockStatus
<1> QED
  BY <1>1, <1>2, NoneQueued DEF TypeOK, Halt, FreshMemory, NoFile

\* Every initial state is well typed.
LEMMA TypeInit == Init => TypeOK
<1> SUFFICES ASSUME Init
             PROVE  TypeOK
    OBVIOUS
<1>1. owed \in [Blocks -> 0..MaxOwed] /\ badLeft \in 0..MaxBad /\ sessions \in 0..MaxSessions
  BY BoundsAssumption DEF Init
<1>2. dest \in [Blocks -> Content] /\ temp \in [Blocks -> BlockFileContent]
  BY BoundsAssumption DEF Init, Content, BlockFileContent
<1>3. data_status \in [Blocks -> BlockStatus] /\ pc \in Halted
  BY DEF Init, BlockStatus, Halted
<1> QED
  BY <1>1, <1>2, <1>3, NoneQueued DEF Init, TypeOK, NoFile

\* Every step of the controller, a peer or the environment keeps the types.
LEMMA TypeNext == TypeOK /\ [Next]_vars => TypeOK'
<1> SUFFICES ASSUME TypeOK, [Next]_vars
             PROVE  TypeOK'
    OBVIOUS
<1> USE DEF memory, writer, disk, env
<1>1. CASE Start
  <2>1. owed' \in [Blocks -> 0..MaxOwed] /\ sessions' \in 0..MaxSessions
    BY <1>1, BoundsAssumption DEF Start, FreshMemory, TypeOK
  <2>2. data_status' \in [Blocks -> BlockStatus] /\ pc' \in Running
    BY <1>1 DEF Start, FoundStatus, BlockStatus, Running
  <2>3. file_path' \in [Files -> BOOLEAN]
    BY <1>1 DEF Start, FoundFile, FullLength
  <2> QED
    BY <1>1, <2>1, <2>2, <2>3, NoneQueued DEF Start, FreshMemory, TypeOK, NoFile
<1>2. CASE Crash
  BY <1>2, HaltType DEF Crash, Halted, TypeOK
<1>3. CASE OpenFile
  BY <1>3 DEF OpenFile, TypeOK, Content
<1>4. CASE OpenFilePanics
  BY <1>4, HaltType DEF OpenFilePanics, Halted, TypeOK
<1>5. ASSUME NEW b \in Blocks, CopyBlock(b) \/ CopyBlockPanics(b)
      PROVE  TypeOK'
  <2>1. CASE CopyBlock(b)
    BY <2>1 DEF CopyBlock, TypeOK, Content
  <2>2. CASE CopyBlockPanics(b)
    BY <2>2, HaltType DEF CopyBlockPanics, AfterFailedCopy, Halted, TypeOK
  <2> QED BY <1>5, <2>1, <2>2
<1>6. ASSUME NEW b \in Blocks, RemoveBlockFile(b)
      PROVE  TypeOK'
  BY <1>6 DEF RemoveBlockFile, Unlink, TypeOK, BlockFileContent, Content, NoFile
<1>7. CASE EndEvents
  BY <1>7 DEF EndEvents, TypeOK, Running
<1>8. ASSUME NEW sent \in SUBSET Blocks, NEW copies \in 1..MaxOwed,
             EnqueuePendingBlocks(sent, copies)
      PROVE  TypeOK'
  <2>1. owed' \in [Blocks -> 0..MaxOwed]
    BY <1>8, BoundsAssumption DEF EnqueuePendingBlocks, SendRequests, TypeOK
  <2>2. data_status' \in [Blocks -> BlockStatus]
    BY <1>8 DEF EnqueuePendingBlocks, SendRequests, TypeOK, BlockStatus
  <2>3. end_game_mode' \in BOOLEAN /\ pc' \in Running
    BY <1>8 DEF EnqueuePendingBlocks, TypeOK, Running
  <2> QED
    BY <1>8, <2>1, <2>2, <2>3 DEF EnqueuePendingBlocks, TypeOK
<1>9. CASE VerifyBlocksAndFiles
  <2>1. CASE \A p \in Checked : PieceReadable(p)
    BY <1>9, <2>1 DEF VerifyBlocksAndFiles, TypeOK, Running, BlockStatus
  <2>2. CASE ~\A p \in Checked : PieceReadable(p)
    BY <1>9, <2>2, HaltType DEF VerifyBlocksAndFiles, Halted, TypeOK
  <2> QED BY <2>1, <2>2
<1>10. CASE SelectPendingFiles
  BY <1>10, TakenFits DEF SelectPendingFiles, TypeOK, Running
<1>11. ASSUME NEW f \in Files, WriteNextFile(f)
       PROVE  TypeOK'
  <2>1. queue' \subseteq Files /\ Cardinality(queue') <= WriteBatch
    BY <1>11, FewerQueued DEF WriteNextFile, TypeOK
  <2> QED
    BY <1>11, <2>1 DEF WriteNextFile, VerifyAndWriteFile, TypeOK, BlocksOfFile
<1>12. CASE EndPass
  BY <1>12 DEF EndPass, TypeOK, Running
<1>13. ASSUME NEW b \in Blocks, CleanupRemove(b)
       PROVE  TypeOK'
  BY <1>13 DEF CleanupRemove, Unlink, TypeOK, BlockFileContent, Content
<1>14. CASE CleanupEnd
  BY <1>14, HaltType DEF CleanupEnd, Halted, TypeOK
<1>15. ASSUME NEW b \in Blocks, NEW c \in Data, HandleBlock(b, c)
       PROVE  TypeOK'
  <2>1. owed' \in [Blocks -> 0..MaxOwed] /\ badLeft' \in 0..MaxBad
    BY <1>15, BoundsAssumption DEF HandleBlock, Answer, TypeOK
  <2>2. /\ temp' \in [Blocks -> BlockFileContent]
        /\ data_status' \in [Blocks -> BlockStatus]
    BY <1>15 DEF HandleBlock, Written, WriteBlock, TypeOK, Data, BlockStatus
  <2>3. verified' \in [Blocks -> BOOLEAN]
    BY <1>15 DEF HandleBlock, Hashed, PieceValid, TypeOK
  <2>4. FileOf[b] \in Files
    BY LayoutAssumption
  <2>5. /\ file_verified' \in [Files -> BOOLEAN]
        /\ wop' \in {"idle", "open", "copy", "remove"}
        /\ wfile' \in Files \cup {NoFile}
        /\ left' \subseteq Blocks
    BY <1>15, <2>4 DEF HandleBlock, VerifyAndWriteFile, TypeOK, BlocksOfFile
  <2> QED
    BY <1>15, <2>1, <2>2, <2>3, <2>5 DEF HandleBlock, TypeOK
<1>16. ASSUME NEW b \in Blocks, NEW c \in Data,
              HandleBlockPanics(b, c)
       PROVE  TypeOK'
  BY <1>16, HaltType DEF HandleBlockPanics, Written, Halted, TypeOK, Data
<1>17. ASSUME NEW b \in Blocks, CrashInWriteBlock(b)
       PROVE  TypeOK'
  BY <1>17, HaltType DEF CrashInWriteBlock, Halted, TypeOK, BlockFileContent, Content
<1>18. CASE UnknownBlockPanics
  BY <1>18, HaltType DEF UnknownBlockPanics, Halted, TypeOK
<1>19. CASE UNCHANGED vars
  BY <1>19 DEF vars, TypeOK
<1> QED
  BY <1>1, <1>2, <1>3, <1>4, <1>5, <1>6, <1>7, <1>8, <1>9, <1>10, <1>11,
     <1>12, <1>13, <1>14, <1>15, <1>16, <1>17, <1>18, <1>19
     DEF Next, ControllerStep, PeerStep, EnvironmentStep, Stopped

\* Type correctness of the data path.
THEOREM TypeCorrect == Spec => []TypeOK
BY TypeInit, TypeNext, PTL DEF Spec

-----------------------------------------------------------------------------
(* The inductive invariant. *)

Copying   == wop \in {"copy", "remove"}
Copied(b) == Copying /\ FileOf[b] = wfile /\ b \notin left

\* Verification is per piece and of persisted blocks, and a block said to be in
\* its file is in a file that is there.
StatusInv ==
    /\ VerifiedByPiece
    /\ \A b \in Blocks : verified[b] => Persisted(b)
    /\ \A b \in Blocks : data_status[b] = "PersistedInFile" =>
           file_path[FileOf[b]] /\ (verified[b] => dest[b] = "good")

\* The controller knows which files have their length, but for the one it is
\* writing.
FileInv ==
    /\ \A f \in Files : file_path[f] => FullLength(f)
    /\ pc \in Running =>
         \A f \in Files :
             ~file_path[f] /\ ~(Copying /\ wfile = f) => ~FullLength(f)

\* The block file of a verified block reads right, and one that is gone was copied.
TempInv ==
    pc # "cleanup" =>
        \A b \in Blocks : data_status[b] = "PersistedSeparately" =>
            /\ temp[b] = "none" => /\ verified[b]
                                   /\ dest[b] = "good"
                                   /\ file_path[FileOf[b]] \/ Copied(b)
            /\ verified[b] /\ temp[b] # "none" => ReadsRight(temp[b])

\* While a file is assembled all its blocks are verified block files, those not
\* left to copy are good in it, and it does not reach beyond them.
WriterInv ==
    wop # "idle" =>
        /\ pc \in {"events", "write"}
        /\ wfile \in Files
        /\ ~file_path[wfile]
        /\ left # {}
        /\ left \subseteq BlocksOfFile(wfile)
        /\ \A b \in BlocksOfFile(wfile) :
               verified[b] /\ data_status[b] = "PersistedSeparately"
        /\ wop = "open" => left = BlocksOfFile(wfile)
        /\ Copying => \A b \in BlocksOfFile(wfile) \ left : dest[b] = "good"
        /\ wop = "copy" => \A b \in left : dest[b] = "none"
        /\ wop = "remove" => \A b \in left :
               IF Least(b, left) THEN dest[b] = "good" ELSE dest[b] = "none"

StoreInv == TypeOK /\ StatusInv /\ FileInv /\ TempInv /\ WriterInv

\* Initially nothing runs and nothing is in memory.
LEMMA StoreInit == Init => StoreInv
<1> SUFFICES ASSUME Init
             PROVE  StoreInv
    OBVIOUS
<1>1. StatusInv
  BY LayoutAssumption DEF Init, StatusInv, VerifiedByPiece
<1>2. FileInv
  BY DEF Init, FileInv, Running
<1>3. TempInv /\ WriterInv
  BY DEF Init, TempInv, WriterInv
<1> QED
  BY TypeInit, <1>1, <1>2, <1>3 DEF StoreInv

\* The end of the thread forgets everything the invariant speaks of.
LEMMA HaltInv ==
    ASSUME NEW why \in Halted, Halt(why)
    PROVE  StatusInv' /\ FileInv' /\ TempInv' /\ WriterInv'
<1>1. StatusInv'
  BY LayoutAssumption DEF Halt, FreshMemory, StatusInv, VerifiedByPiece
<1>2. FileInv'
  BY DEF Halt, FreshMemory, FileInv, Running, Halted
<1>3. TempInv' /\ WriterInv'
  BY DEF Halt, FreshMemory, TempInv, WriterInv
<1> QED BY <1>1, <1>2, <1>3

\* A complete and readable piece with a verified block is valid.
LEMMA VerifiedPieceValid ==
    ASSUME StoreInv, pc # "cleanup", NEW b \in Blocks, verified[b],
           PieceReadable(PieceOf[b])
    PROVE  PieceComplete(PieceOf[b]) /\ PieceValid(PieceOf[b])
<1>1. \A x \in BlocksOfPiece(PieceOf[b]) : verified[x] /\ Persisted(x)
  BY DEF StoreInv, StatusInv, VerifiedByPiece, BlocksOfPiece
<1>2. PieceValid(PieceOf[b])
  BY <1>1 DEF StoreInv, StatusInv, TempInv, PieceValid, PieceReadable, Stored,
              BlocksOfPiece, Persisted, ReadsRight
<1> QED BY <1>1, <1>2 DEF PieceComplete

\* Trying to finish file f (verify_and_write_file, up to its first write) sets up
\* the assembly correctly.
LEMMA WriterStarts ==
    ASSUME StatusInv', NEW f \in Files, VerifyAndWriteFile(f), wop = "idle",
           pc' \in {"events", "write"}, UNCHANGED file_path
    PROVE  /\ WriterInv'
           /\ wop' \in {"idle", "open"}
<1>1. CASE UNCHANGED writer
  BY <1>1 DEF WriterInv, writer
<1>2. CASE /\ FileReady(f)'
           /\ ~file_path[f]
           /\ wop' = "open" /\ wfile' = f /\ left' = BlocksOfFile(f)
  <2>1. \A b \in BlocksOfFile(f) :
            verified'[b] /\ data_status'[b] = "PersistedSeparately"
    BY <1>2 DEF FileReady, Persisted, BlocksOfFile, StatusInv
  <2>2. BlocksOfFile(f) # {}
    BY LayoutAssumption DEF BlocksOfFile
  <2> QED
    BY <1>2, <2>1, <2>2 DEF WriterInv, Copying, BlocksOfFile
<1> QED
  BY <1>1, <1>2 DEF VerifyAndWriteFile

\* A step that changes none of what the invariant speaks of but pc keeps it.
LEMMA PcStep ==
    ASSUME StoreInv, wop = "idle", pc \in Running, pc' \in Running,
           pc = "cleanup" => pc' = "cleanup",
           UNCHANGED <<verified, file_path, writer, disk>>,
           \A b \in Blocks : \/ data_status'[b] = data_status[b]
                             \/ Missing(b) /\ data_status'[b] = "Requested"
    PROVE  StatusInv' /\ FileInv' /\ TempInv' /\ WriterInv'
<1> USE DEF writer, disk
<1>1. StatusInv'
  BY DEF StoreInv, StatusInv, VerifiedByPiece, Persisted, Missing
<1>2. FileInv'
  BY DEF StoreInv, FileInv, FullLength, BlocksOfFile, Copying
<1>3. TempInv'
  BY DEF StoreInv, TempInv, Copied, Copying
<1>4. WriterInv'
  BY DEF WriterInv
<1> QED BY <1>1, <1>2, <1>3, <1>4

\* Creating the file leaves every block of it as a good block file.
LEMMA OpenFileInv ==
    ASSUME StoreInv, OpenFile
    PROVE  StatusInv' /\ FileInv' /\ TempInv' /\ WriterInv'
<1> USE DEF memory, writer, env
<1>1. /\ wfile \in Files /\ ~file_path[wfile] /\ left = BlocksOfFile(wfile)
      /\ left # {} /\ pc \in {"events", "write"}
      /\ \A b \in BlocksOfFile(wfile) :
             verified[b] /\ data_status[b] = "PersistedSeparately"
  BY DEF StoreInv, WriterInv, OpenFile
<1>2. \A b \in Blocks : FileOf[b] # wfile => dest'[b] = dest[b]
  BY DEF OpenFile
<1>3. StatusInv'
  <2>1. VerifiedByPiece' /\ \A b \in Blocks : (verified[b] => Persisted(b))'
    BY DEF OpenFile, StoreInv, StatusInv, VerifiedByPiece, Persisted
  <2>2. ASSUME NEW b \in Blocks, data_status[b] = "PersistedInFile"
        PROVE  file_path[FileOf[b]] /\ (verified[b] => dest'[b] = "good")
    BY <2>2, <1>1, <1>2 DEF StoreInv, StatusInv
  <2> QED
    BY <2>1, <2>2 DEF OpenFile, StatusInv
<1>4. FileInv'
  <2>1. ASSUME NEW f \in Files, f # wfile
        PROVE  FullLength(f)' <=> FullLength(f)
    BY <2>1, <1>2 DEF FullLength, BlocksOfFile
  <2> QED
    BY <2>1, <1>1 DEF OpenFile, StoreInv, FileInv, Copying, Running
<1>5. TempInv'
  <2>1. ASSUME NEW b \in Blocks, data_status[b] = "PersistedSeparately",
               temp[b] = "none"
        PROVE  verified[b] /\ dest'[b] = "good" /\ file_path[FileOf[b]]
    <3>1. verified[b] /\ dest[b] = "good" /\ file_path[FileOf[b]]
      BY <2>1, <1>1 DEF OpenFile, StoreInv, TempInv, Copied, Copying
    <3> QED BY <3>1, <1>1, <1>2
  <2> QED
    BY <2>1, <1>1 DEF OpenFile, StoreInv, TempInv
<1>6. WriterInv'
  BY <1>1 DEF OpenFile, WriterInv, Copying, BlocksOfFile
<1> QED BY <1>3, <1>4, <1>5, <1>6

\* While copying, the next block is a block file that reads right.
LEMMA CopySource ==
    ASSUME StoreInv, NEW b \in left, wop \in {"open", "copy"}
    PROVE  /\ data_status[b] = "PersistedSeparately"
           /\ ReadsRight(temp[b])
           /\ b \in Blocks
           /\ FileOf[b] = wfile
BY DEF StoreInv, WriterInv, TempInv, Copied, BlocksOfFile, Copying

\* What is copied is good.
LEMMA CopiedGood ==
    ASSUME StoreInv, NEW b \in Blocks, CopyBlock(b)
    PROVE  /\ b \in left /\ wop = "copy"
           /\ FileOf[b] = wfile
           /\ dest' = [dest EXCEPT ![b] = "good"]
<1>1. b \in left /\ wop = "copy"
  BY DEF CopyBlock, Least
<1>2. temp[b] = "good" /\ FileOf[b] = wfile
  BY <1>1, CopySource DEF CopyBlock, ReadsRight
<1> QED BY <1>1, <1>2 DEF CopyBlock

\* A copy fails only at a block file of another length, and changes nothing but
\* the blocks left to copy.
LEMMA CopyFails ==
    ASSUME StoreInv, NEW b \in Blocks, CopyBlockPanics(b)
    PROVE  /\ b \in left /\ wop = "copy"
           /\ temp[b] \in {"short", "long"}
           /\ dest' \in AfterFailedCopy(b)
           /\ \A x \in Blocks \ left : dest'[x] = dest[x]
<1>1. b \in left /\ wop = "copy"
  BY DEF CopyBlockPanics, Least
<1>2. temp[b] \in {"short", "long"}
  BY <1>1, CopySource DEF CopyBlockPanics, ReadsRight
<1>3. dest' \in AfterFailedCopy(b)
  BY DEF CopyBlockPanics
<1>4. \A x \in Blocks \ left : dest'[x] = dest[x]
  BY <1>3 DEF AfterFailedCopy
<1> QED BY <1>1, <1>2, <1>3, <1>4

\* Appending a block puts good bytes in the file being written and nowhere else.
LEMMA CopyBlockInv ==
    ASSUME StoreInv, NEW b \in Blocks, CopyBlock(b)
    PROVE  StatusInv' /\ FileInv' /\ TempInv' /\ WriterInv'
<1> USE DEF memory, env
<1>1. /\ b \in left /\ Least(b, left) /\ wop = "copy"
      /\ wfile \in Files /\ ~file_path[wfile]
      /\ left # {} /\ left \subseteq BlocksOfFile(wfile)
      /\ \A x \in BlocksOfFile(wfile) :
             verified[x] /\ data_status[x] = "PersistedSeparately"
      /\ \A x \in BlocksOfFile(wfile) \ left : dest[x] = "good"
      /\ \A x \in left : dest[x] = "none"
      /\ pc \in {"events", "write"}
  BY DEF CopyBlock, Least, StoreInv, WriterInv, Copying
<1>2. /\ dest' = [dest EXCEPT ![b] = "good"]
      /\ wop' = "remove"
      /\ UNCHANGED <<pc, memory, queue, wfile, left, temp, env>>
  BY CopiedGood DEF CopyBlock
<1>3. /\ dest'[b] = "good"
      /\ \A x \in left \ {b} : dest'[x] = "none"
      /\ \A x \in Blocks : dest'[x] = dest[x] \/ dest'[x] = "good"
      /\ \A x \in Blocks : FileOf[x] # wfile => dest'[x] = dest[x]
  BY <1>1, <1>2, CopySource DEF StoreInv, TypeOK, BlocksOfFile
<1>4. StatusInv'
  BY <1>2, <1>3 DEF StoreInv, StatusInv, VerifiedByPiece, Persisted
<1>5. FileInv'
  <2>1. ASSUME NEW f \in Files, f # wfile
        PROVE  FullLength(f)' <=> FullLength(f)
    BY <2>1, <1>3 DEF FullLength, BlocksOfFile
  <2> QED
    BY <2>1, <1>1, <1>2 DEF StoreInv, FileInv, Copying
<1>6. TempInv'
  BY <1>1, <1>2, <1>3 DEF StoreInv, TempInv, Copied, Copying
<1>7. WriterInv'
  <2>1. \A x \in left : Least(x, left) => x = b
    BY <1>1 DEF Least, BlocksOfFile, Blocks
  <2>2. \A x \in BlocksOfFile(wfile) \ left : dest'[x] = "good"
    BY <1>1, <1>3 DEF BlocksOfFile
  <2> QED
    BY <1>1, <1>2, <1>3, <2>1, <2>2 DEF WriterInv, BlocksOfFile, Least, Copying
<1> QED BY <1>4, <1>5, <1>6, <1>7

\* Deleting a copied block file loses nothing, and after the last one the file
\* has its length.
LEMMA RemoveBlockFileInv ==
    ASSUME StoreInv, NEW b \in Blocks, RemoveBlockFile(b)
    PROVE  StatusInv' /\ FileInv' /\ TempInv' /\ WriterInv'
<1> USE DEF env
<1>1. /\ b \in left /\ wop = "remove"
      /\ wfile \in Files /\ ~file_path[wfile]
      /\ left \subseteq BlocksOfFile(wfile)
      /\ \A x \in BlocksOfFile(wfile) :
             verified[x] /\ data_status[x] = "PersistedSeparately"
      /\ \A x \in BlocksOfFile(wfile) \ left : dest[x] = "good"
      /\ dest[b] = "good"
      /\ \A x \in left \ {b} : dest[x] = "none"
      /\ pc \in {"events", "write"}
  <2>1. \A x \in left \ {b} : ~Least(x, left)
    BY DEF RemoveBlockFile, Least, StoreInv, TypeOK, Blocks
  <2> QED
    BY <2>1 DEF RemoveBlockFile, Least, StoreInv, WriterInv, Copying
<1>2. /\ UNCHANGED <<pc, data_status, verified, dest>>
      /\ temp'[b] = "none"
      /\ \A x \in Blocks : x # b => temp'[x] = temp[x]
      /\ left' = left \ {b}
  BY DEF RemoveBlockFile, Unlink, StoreInv, TypeOK
<1>3. \A f \in Files : file_path[f] => file_path'[f]
  BY <1>1 DEF RemoveBlockFile, StoreInv, TypeOK
<1>4. CASE left = {b}
  <2>1. /\ file_path' = [file_path EXCEPT ![wfile] = TRUE]
        /\ wop' = "idle"
    BY <1>4 DEF RemoveBlockFile
  <2>2. FullLength(wfile)
    BY <1>1, <1>4 DEF FullLength
  <2>3. StatusInv'
    BY <1>2, <1>3, LayoutAssumption DEF StoreInv, StatusInv, VerifiedByPiece, Persisted
  <2>4. FileInv'
    BY <1>1, <1>2, <2>1, <2>2 DEF StoreInv, TypeOK, FileInv, FullLength, Copying, BlocksOfFile
  <2>5. TempInv'
    <3>1. file_path'[wfile]
      BY <1>1, <2>1 DEF StoreInv, TypeOK
    <3>2. \A x \in Blocks : Copied(x) => FileOf[x] = wfile
      BY DEF Copied
    <3>3. FileOf[b] = wfile /\ verified[b]
      BY <1>1 DEF BlocksOfFile
    <3> QED
      BY <1>1, <1>2, <1>3, <3>1, <3>2, <3>3, LayoutAssumption DEF StoreInv, TempInv
  <2>6. WriterInv'
    BY <2>1 DEF WriterInv
  <2> QED BY <2>3, <2>4, <2>5, <2>6
<1>5. CASE left # {b}
  <2>1. wop' = "copy" /\ UNCHANGED <<file_path, wfile>>
    BY <1>5 DEF RemoveBlockFile
  <2>2. StatusInv'
    BY <1>2, <2>1 DEF StoreInv, StatusInv, VerifiedByPiece, Persisted
  <2>3. FileInv'
    BY <1>1, <1>2, <2>1 DEF StoreInv, FileInv, FullLength, Copying, BlocksOfFile
  <2>4. TempInv'
    <3>1. \A x \in Blocks : Copied(x) => Copied(x)'
      BY <1>2, <2>1 DEF Copied, Copying
    <3>2. Copied(b)'
      BY <1>1, <1>2, <2>1 DEF Copied, Copying, BlocksOfFile
    <3>3. verified[b]
      BY <1>1
    <3> QED
      BY <1>1, <1>2, <2>1, <3>1, <3>2, <3>3 DEF StoreInv, TempInv
  <2>5. WriterInv'
    BY <1>1, <1>2, <1>5, <2>1 DEF WriterInv, Copying, BlocksOfFile
  <2> QED BY <2>2, <2>3, <2>4, <2>5
<1> QED BY <1>4, <1>5

\* Starting believes the lengths of files and the presence of block files, and
\* nothing counts as verified.
LEMMA StartInv ==
    ASSUME StoreInv, Start
    PROVE  StatusInv' /\ FileInv' /\ TempInv' /\ WriterInv'
<1> USE DEF disk
<1>1. StatusInv'
  BY LayoutAssumption DEF Start, FoundFile, FoundStatus, FreshMemory, StatusInv, VerifiedByPiece
<1>2. FileInv'
  BY DEF Start, FoundFile, FoundStatus, FreshMemory, FileInv, FullLength
<1>3. TempInv'
  BY DEF Start, FoundFile, FoundStatus, FreshMemory, TempInv
<1>4. WriterInv'
  BY DEF Start, FreshMemory, WriterInv
<1> QED BY <1>1, <1>2, <1>3, <1>4

\* Storing an answer and hashing the piece it completes.
LEMMA HandleBlockInv ==
    ASSUME StoreInv, TypeOK', NEW b \in Blocks, NEW c \in Data,
           HandleBlock(b, c)
    PROVE  StatusInv' /\ FileInv' /\ TempInv' /\ WriterInv'
<1> DEFINE p == PieceOf[b]
<1>1. /\ pc = "events" /\ wop = "idle" /\ UNCHANGED <<pc, file_path, dest>>
      /\ ~HashPanics(b) /\ WriteBlock(b, c)
      /\ FileOf[b] \in Files
  BY LayoutAssumption DEF HandleBlock, Answer
<1>2. \A x \in Blocks : x # b => temp'[x] = temp[x] /\ data_status'[x] = data_status[x]
  BY <1>1 DEF Written, WriteBlock, StoreInv, TypeOK
<1>3. /\ Persisted(b)'
      /\ Persisted(b) => temp'[b] = temp[b] /\ data_status'[b] = data_status[b]
      /\ ~Persisted(b) => temp'[b] # "none" /\ data_status'[b] = "PersistedSeparately"
  BY <1>1 DEF Data, Written, WriteBlock, Persisted, StoreInv, TypeOK
<1>4. ~Persisted(b) => \A x \in BlocksOfPiece(p) : ~verified[x]
  BY DEF StoreInv, StatusInv, VerifiedByPiece, BlocksOfPiece
<1>5. \A x \in Blocks : Persisted(x) => Persisted(x)'
  BY <1>2, <1>3 DEF Persisted
<1>6. CASE ~PieceComplete(p)' /\ UNCHANGED <<verified, file_verified, writer>>
  <2>1. StatusInv'
    <3>1. VerifiedByPiece' /\ \A x \in Blocks : (verified[x] => Persisted(x))'
      BY <1>5, <1>6 DEF StoreInv, StatusInv, VerifiedByPiece
    <3>2. ASSUME NEW x \in Blocks, data_status'[x] = "PersistedInFile"
          PROVE  file_path[FileOf[x]] /\ (verified[x] => dest[x] = "good")
      BY <1>2, <1>3, <3>2 DEF StoreInv, StatusInv
    <3> QED
      BY <1>1, <1>6, <3>1, <3>2 DEF StatusInv
  <2>2. FileInv' /\ WriterInv'
    BY <1>1, <1>6 DEF StoreInv, FileInv, WriterInv, FullLength, Copying, writer
  <2>3. TempInv'
    <3>1. ~Persisted(b) => ~verified[b]
      BY DEF StoreInv, StatusInv
    <3> QED
      BY <1>1, <1>2, <1>3, <1>6, <3>1
         DEF StoreInv, TempInv, Copied, Copying, writer
  <2> QED BY <2>1, <2>2, <2>3
<1>7. CASE /\ PieceComplete(p)'
           /\ verified' = [x \in Blocks |-> IF PieceOf[x] = p THEN PieceValid(p)'
                                            ELSE verified[x]]
           /\ IF PieceValid(p)' THEN VerifyAndWriteFile(FileOf[b])
              ELSE UNCHANGED <<file_verified, writer>>
  <2>1. \A x \in BlocksOfPiece(p) :
            (data_status'[x] = "PersistedSeparately" => temp'[x] # "none")
    <3>1. \A x \in BlocksOfPiece(p) \ {b} : Persisted(x)
      BY <1>2, <1>7 DEF PieceComplete, Persisted, BlocksOfPiece
    <3>2. PieceReadable(p)
      BY <1>1, <3>1 DEF HashPanics
    <3> QED
      BY <1>2, <1>3, <3>2 DEF PieceReadable, BlocksOfPiece, Persisted
  <2>2. StatusInv'
    <3>1. VerifiedByPiece'
      BY <1>7 DEF StoreInv, StatusInv, VerifiedByPiece
    <3>2. ASSUME NEW x \in Blocks, verified'[x]
          PROVE  Persisted(x)'
      <4>1. CASE PieceOf[x] = p
        BY <1>7, <4>1 DEF PieceComplete, BlocksOfPiece
      <4>2. CASE PieceOf[x] # p
        BY <1>5, <1>7, <3>2, <4>2 DEF StoreInv, StatusInv
      <4> QED BY <4>1, <4>2
    <3>3. ASSUME NEW x \in Blocks, data_status'[x] = "PersistedInFile"
          PROVE  file_path[FileOf[x]] /\ (verified'[x] => dest[x] = "good")
      <4>1. data_status[x] = "PersistedInFile"
        BY <1>2, <1>3, <3>3
      <4>2. CASE PieceOf[x] = p
        BY <1>1, <1>7, <3>3, <4>1, <4>2
           DEF StoreInv, TypeOK, Content, StatusInv, PieceValid, ReadsRight, Stored,
               BlocksOfPiece
      <4>3. CASE PieceOf[x] # p
        BY <1>7, <4>1, <4>3 DEF StoreInv, StatusInv
      <4> QED BY <4>2, <4>3
    <3> QED
      BY <1>1, <3>1, <3>2, <3>3 DEF StatusInv
  <2>3. WriterInv' /\ wop' \in {"idle", "open"}
    <3>1. CASE PieceValid(p)'
      BY <1>1, <1>7, <2>2, <3>1, WriterStarts
    <3>2. CASE ~PieceValid(p)'
      BY <1>1, <1>7, <3>2 DEF WriterInv, writer
    <3> QED BY <3>1, <3>2
  <2>4. FileInv'
    BY <1>1, <2>3 DEF StoreInv, FileInv, FullLength, Copying
  <2>5. TempInv'
    <3> SUFFICES ASSUME NEW x \in Blocks, data_status'[x] = "PersistedSeparately"
                 PROVE  /\ temp'[x] = "none" => /\ verified'[x]
                                                /\ dest'[x] = "good"
                                                /\ file_path'[FileOf[x]]
                        /\ verified'[x] /\ temp'[x] # "none" => ReadsRight(temp'[x])
        BY <1>1 DEF TempInv
    <3>1. CASE PieceOf[x] = p
      BY <1>7, <2>1, <3>1 DEF PieceValid, Stored, BlocksOfPiece
    <3>2. CASE PieceOf[x] # p
      BY <1>1, <1>2, <1>7, <3>2 DEF StoreInv, TempInv, Copied, Copying
    <3> QED BY <3>1, <3>2
  <2> QED BY <2>2, <2>3, <2>4, <2>5
<1> QED
  BY <1>6, <1>7 DEF HandleBlock, Hashed

\* Hashing complete pieces again: good ones stay as they are, and only blocks that
\* were not verified go back to pending.
LEMMA VerifyBlocksInv ==
    ASSUME StoreInv, VerifyBlocksAndFiles, \A p \in Checked : PieceReadable(p)
    PROVE  StatusInv' /\ FileInv' /\ TempInv' /\ WriterInv'
<1> USE DEF writer, disk, env
<1>1. /\ pc = "verify" /\ pc' = "select" /\ wop = "idle"
      /\ UNCHANGED <<file_path, writer, disk>>
      /\ verified' = [b \in Blocks |->
                        \/ verified[b]
                        \/ PieceOf[b] \in Checked /\ PieceValid(PieceOf[b])]
      /\ data_status' = [b \in Blocks |->
                           IF PieceOf[b] \in Checked /\ ~PieceValid(PieceOf[b])
                           THEN "Pending" ELSE data_status[b]]
  BY DEF VerifyBlocksAndFiles, Rejected, StoreInv, WriterInv
<1>2. ASSUME NEW b \in Blocks, PieceOf[b] \in Checked, verified[b]
      PROVE  PieceValid(PieceOf[b])
  BY <1>1, <1>2, VerifiedPieceValid
<1>3. ASSUME NEW b \in Blocks, PieceOf[b] \in Checked
      PROVE  Persisted(b)
  BY <1>3 DEF Checked, PieceComplete, BlocksOfPiece
<1>4. \A b \in Blocks : verified'[b] => Persisted(b)'
  BY <1>1, <1>2, <1>3 DEF StoreInv, StatusInv, Persisted
<1>5. VerifiedByPiece'
  BY <1>1 DEF StoreInv, StatusInv, VerifiedByPiece
<1>6. ASSUME NEW b \in Blocks, data_status'[b] = "PersistedInFile"
      PROVE  file_path[FileOf[b]] /\ (verified'[b] => dest[b] = "good")
  <2>1. data_status[b] = "PersistedInFile"
    BY <1>1, <1>6
  <2>2. CASE verified[b]
    BY <1>6, <2>1, <2>2 DEF StoreInv, StatusInv
  <2>3. CASE ~verified[b]
    BY <1>1, <2>1, <2>3
       DEF StoreInv, TypeOK, Content, StatusInv, PieceValid, ReadsRight, Stored,
           BlocksOfPiece
  <2> QED BY <2>2, <2>3
<1>7. StatusInv'
  BY <1>1, <1>4, <1>5, <1>6 DEF StatusInv
<1>8. FileInv' /\ WriterInv'
  BY <1>1 DEF StoreInv, FileInv, FullLength, Copying, WriterInv, Running
<1>9. TempInv'
  <2> SUFFICES ASSUME NEW b \in Blocks, data_status'[b] = "PersistedSeparately"
               PROVE  /\ temp[b] = "none" => /\ verified'[b]
                                             /\ dest[b] = "good"
                                             /\ file_path[FileOf[b]]
                      /\ verified'[b] /\ temp[b] # "none" => ReadsRight(temp[b])
      BY <1>1 DEF TempInv
  <2>1. data_status[b] = "PersistedSeparately"
    BY <1>1
  <2>2. CASE verified[b]
    BY <1>1, <2>1, <2>2 DEF StoreInv, TempInv, Copied, Copying
  <2>3. CASE ~verified[b]
    BY <1>1, <2>1, <2>3
       DEF StoreInv, TempInv, PieceValid, Stored, BlocksOfPiece
  <2> QED BY <2>2, <2>3
<1> QED BY <1>7, <1>8, <1>9

\* Visiting the next file.
LEMMA WriteNextFileInv ==
    ASSUME StoreInv, NEW f \in Files, WriteNextFile(f)
    PROVE  StatusInv' /\ FileInv' /\ TempInv' /\ WriterInv'
<1> USE DEF disk
<1>1. /\ pc = "write" /\ wop = "idle"
      /\ UNCHANGED <<pc, data_status, verified, file_path, temp, dest>>
      /\ VerifyAndWriteFile(f)
  BY DEF WriteNextFile
<1>2. StatusInv'
  BY <1>1 DEF StoreInv, StatusInv, VerifiedByPiece, Persisted
<1>3. WriterInv' /\ wop' \in {"idle", "open"}
  BY <1>1, <1>2, WriterStarts
<1>4. FileInv'
  BY <1>1, <1>3 DEF StoreInv, FileInv, FullLength, Copying
<1>5. TempInv'
  BY <1>1 DEF StoreInv, TempInv, Copied, Copying
<1> QED BY <1>2, <1>3, <1>4, <1>5

\* Every step keeps the inductive invariant.
LEMMA StoreNext == StoreInv /\ [Next]_vars => StoreInv'
<1> SUFFICES ASSUME StoreInv, [Next]_vars
             PROVE  StoreInv'
    OBVIOUS
<1>0. TypeOK'
  BY TypeNext DEF StoreInv
<1> DEFINE Rest == StatusInv /\ FileInv /\ TempInv /\ WriterInv
<1> SUFFICES Rest'
    BY <1>0 DEF StoreInv
<1> USE DEF memory, writer, disk, env
<1>1. CASE Start
  BY <1>1, StartInv
<1>2. CASE Crash
  BY <1>2, HaltInv DEF Crash, Halted
<1>3. CASE OpenFile
  BY <1>3, OpenFileInv
<1>4. CASE OpenFilePanics
  BY <1>4, HaltInv DEF OpenFilePanics, Halted
<1>5. ASSUME NEW b \in Blocks, CopyBlock(b) \/ CopyBlockPanics(b)
      PROVE  Rest'
  BY <1>5, CopyBlockInv, HaltInv DEF CopyBlockPanics, Halted
<1>6. ASSUME NEW b \in Blocks, RemoveBlockFile(b)
      PROVE  Rest'
  BY <1>6, RemoveBlockFileInv
<1>7. CASE EndEvents
  BY <1>7, PcStep DEF EndEvents, Running
<1>8. ASSUME NEW sent \in SUBSET Blocks, NEW copies \in 1..MaxOwed,
             EnqueuePendingBlocks(sent, copies)
      PROVE  Rest'
  <2>1. wop = "idle" /\ pc = "schedule" /\ pc' = "verify"
    BY <1>8 DEF EnqueuePendingBlocks, StoreInv, WriterInv
  <2>2. \A b \in Blocks : \/ data_status'[b] = data_status[b]
                          \/ Missing(b) /\ data_status'[b] = "Requested"
    BY <1>8 DEF EnqueuePendingBlocks, SendRequests
  <2> QED
    BY <1>8, <2>1, <2>2, PcStep DEF EnqueuePendingBlocks, Running
<1>9. CASE VerifyBlocksAndFiles
  <2>1. CASE \A p \in Checked : PieceReadable(p)
    BY <1>9, <2>1, VerifyBlocksInv
  <2>2. CASE ~\A p \in Checked : PieceReadable(p)
    BY <1>9, <2>2, HaltInv DEF VerifyBlocksAndFiles, Halted
  <2> QED BY <2>1, <2>2
<1>10. CASE SelectPendingFiles
  <2>1. wop = "idle" /\ pc = "select"
    BY <1>10 DEF SelectPendingFiles, StoreInv, WriterInv
  <2> QED
    BY <1>10, <2>1, PcStep DEF SelectPendingFiles, Running
<1>11. ASSUME NEW f \in Files, WriteNextFile(f)
       PROVE  Rest'
  BY <1>11, WriteNextFileInv
<1>12. CASE EndPass
  BY <1>12, PcStep DEF EndPass, Running
<1>13. ASSUME NEW b \in Blocks, CleanupRemove(b)
       PROVE  Rest'
  <2>1. wop = "idle"
    BY <1>13 DEF CleanupRemove, StoreInv, WriterInv
  <2>2. StatusInv' /\ FileInv' /\ TempInv' /\ WriterInv'
    BY <1>13, <2>1
       DEF CleanupRemove, StoreInv, StatusInv, VerifiedByPiece, Persisted,
           FileInv, FullLength, Copying, TempInv, WriterInv
  <2> QED BY <2>2
<1>14. CASE CleanupEnd
  BY <1>14, HaltInv DEF CleanupEnd, Halted
<1>15. ASSUME NEW b \in Blocks, NEW c \in Data, HandleBlock(b, c)
       PROVE  Rest'
  BY <1>0, <1>15, HandleBlockInv
<1>16. ASSUME NEW b \in Blocks, NEW c \in Data,
              HandleBlockPanics(b, c)
       PROVE  Rest'
  BY <1>16, HaltInv DEF HandleBlockPanics, Halted
<1>17. ASSUME NEW b \in Blocks, CrashInWriteBlock(b)
       PROVE  Rest'
  BY <1>17, HaltInv DEF CrashInWriteBlock, Halted
<1>18. CASE UnknownBlockPanics
  BY <1>18, HaltInv DEF UnknownBlockPanics, Halted
<1>19. CASE UNCHANGED vars
  BY <1>19 DEF vars, StoreInv, StatusInv, VerifiedByPiece, Persisted, FileInv,
     FullLength, TempInv, Copied, Copying, WriterInv
<1> QED
  BY <1>1, <1>2, <1>3, <1>4, <1>5, <1>6, <1>7, <1>8, <1>9, <1>10, <1>11,
     <1>12, <1>13, <1>14, <1>15, <1>16, <1>17, <1>18, <1>19
     DEF Next, ControllerStep, PeerStep, EnvironmentStep, Stopped

\* The inductive invariant holds in every reachable state.
THEOREM StoreCorrect == Spec => []StoreInv
BY StoreInit, StoreNext, PTL DEF Spec

-----------------------------------------------------------------------------
(* What follows from it. *)

\* Every verified block can be read from the disk until cleanup, whatever the
\* destination held before, and through duplicates, data that nobody asked for, is
\* wrong or has another length, and crashes.
THEOREM VerifiedDataKept == Spec => []VerifiedBlockOnDisk
<1>1. StoreInv => VerifiedBlockOnDisk
  BY DEF StoreInv, StatusInv, TempInv, VerifiedBlockOnDisk, Persisted
<1> QED
  BY <1>1, StoreCorrect, PTL

\* Two blocks of one piece always have the same result.
THEOREM PiecesVerifiedWhole == Spec => []VerifiedByPiece
<1>1. StoreInv => VerifiedByPiece
  BY DEF StoreInv, StatusInv
<1> QED
  BY <1>1, StoreCorrect, PTL

\* Nothing the running controller does takes a verified block back.
THEOREM VerificationIsFinal == Spec => VerifiedStays
<1> DEFINE Keeps == (pc \in Running /\ pc' \in Running) =>
                        (\A b \in Blocks : verified[b] => verified'[b])
<1>1. ASSUME StoreInv, [Next]_vars
      PROVE  [Keeps]_vars
  <2> SUFFICES ASSUME pc \in Running, pc' \in Running,
                      NEW b \in Blocks, verified[b]
               PROVE  verified'[b]
      OBVIOUS
  <2> USE DEF memory, writer, disk, env
  <2>1. ASSUME NEW why \in Halted, Halt(why)
        PROVE  FALSE
    BY <2>1 DEF Halt, Halted, Running
  <2>2. ~Start
    BY DEF Start, Halted, Running
  <2>3. ASSUME NEW x \in Blocks, NEW c \in Data, HandleBlock(x, c)
        PROVE  verified'[b]
    <3>1. CASE UNCHANGED verified
      BY <3>1
    <3>2. CASE /\ PieceComplete(PieceOf[x])'
               /\ verified' = [y \in Blocks |-> IF PieceOf[y] = PieceOf[x]
                                                THEN PieceValid(PieceOf[x])'
                                                ELSE verified[y]]
      <4>1. CASE PieceOf[b] # PieceOf[x]
        BY <3>2, <4>1
      <4>2. CASE PieceOf[b] = PieceOf[x]
        <5>1. \A y \in BlocksOfPiece(PieceOf[x]) : verified[y] /\ Persisted(y)
          BY <1>1, <4>2 DEF StoreInv, StatusInv, VerifiedByPiece, BlocksOfPiece
        <5>2. UNCHANGED <<temp, data_status, dest>> /\ pc = "events"
          BY <2>3, <5>1 DEF HandleBlock, Answer, Written, WriteBlock, BlocksOfPiece
        <5>3. PieceReadable(PieceOf[b])
          BY <2>3, <4>2, <5>1 DEF HandleBlock, HashPanics, BlocksOfPiece
        <5>4. PieceValid(PieceOf[b])
          BY <1>1, <5>2, <5>3, VerifiedPieceValid
        <5>5. PieceValid(PieceOf[x])'
          BY <4>2, <5>2, <5>4 DEF PieceValid, ReadsRight, Stored
        <5> QED BY <3>2, <4>2, <5>5
      <4> QED BY <4>1, <4>2
    <3> QED
      BY <2>3, <3>1, <3>2 DEF HandleBlock, Hashed
  <2>4. CASE VerifyBlocksAndFiles
    BY <2>1, <2>4 DEF VerifyBlocksAndFiles, Halted
  <2>5. ASSUME NEW x \in Blocks, CopyBlock(x)
        PROVE  verified'[b]
    BY <2>5 DEF CopyBlock
  <2>6. ~Crash /\ ~OpenFilePanics /\ ~CleanupEnd /\ ~UnknownBlockPanics
    BY <2>1 DEF Crash, OpenFilePanics, CleanupEnd, UnknownBlockPanics, Halted
  <2>7. ASSUME NEW x \in Blocks
        PROVE  /\ \A c \in Data : ~HandleBlockPanics(x, c)
               /\ ~CrashInWriteBlock(x)
               /\ ~CopyBlockPanics(x)
    BY <2>1 DEF HandleBlockPanics, CrashInWriteBlock, CopyBlockPanics, Halted
  <2>8. ASSUME \/ OpenFile \/ EndEvents \/ SelectPendingFiles \/ EndPass
               \/ \E x \in Blocks : RemoveBlockFile(x) \/ CleanupRemove(x)
               \/ \E f \in Files : WriteNextFile(f)
               \/ \E sent \in SUBSET Blocks, copies \in 1..MaxOwed :
                      EnqueuePendingBlocks(sent, copies)
               \/ UNCHANGED vars
        PROVE  verified'[b]
    BY <2>8 DEF OpenFile, EndEvents, SelectPendingFiles, EndPass,
       RemoveBlockFile, CleanupRemove, WriteNextFile, EnqueuePendingBlocks, vars
  <2> QED
    BY <1>1, <2>2, <2>3, <2>4, <2>5, <2>6, <2>7, <2>8
       DEF Next, ControllerStep, PeerStep, EnvironmentStep, Stopped
<1> QED
  BY <1>1, StoreCorrect, PTL DEF Spec, VerifiedStays

\* A complete and correct file on disk is never damaged: only a file the controller
\* knows not to have its length is truncated, and only good blocks are copied.
THEOREM IntactFilesSafe == Spec => IntactFileKept
<1> DEFINE Keeps == \A f \in Files : (Intact(f) => Intact(f)')
<1>1. ASSUME StoreInv, [Next]_vars
      PROVE  [Keeps]_vars
  <2> SUFFICES ASSUME NEW f \in Files, Intact(f)
               PROVE  Intact(f)'
      OBVIOUS
  <2> USE DEF memory, writer, disk, env
  <2>1. ASSUME UNCHANGED dest
        PROVE  Intact(f)'
    BY <2>1 DEF Intact
  <2>2. CASE OpenFile
    <3>1. FullLength(f) /\ pc \in Running
      BY <1>1, <2>2
         DEF Intact, FullLength, OpenFile, StoreInv, WriterInv, Running
    <3>2. f # wfile
      BY <1>1, <2>2, <3>1 DEF OpenFile, StoreInv, FileInv, WriterInv, Copying
    <3> QED
      BY <2>2, <3>2 DEF OpenFile, Intact, BlocksOfFile
  <2>3. ASSUME NEW b \in Blocks, CopyBlock(b)
        PROVE  Intact(f)'
    <3>1. dest' = [dest EXCEPT ![b] = "good"]
      BY <1>1, <2>3, CopiedGood
    <3> QED
      BY <1>1, <3>1 DEF StoreInv, TypeOK, Intact, BlocksOfFile
  <2>4. ASSUME NEW b \in Blocks, CopyBlockPanics(b)
        PROVE  Intact(f)'
    <3>1. /\ b \in left /\ wop = "copy"
          /\ \A x \in Blocks \ left : dest'[x] = dest[x]
      BY <1>1, <2>4, CopyFails
    <3>2. \A x \in left : dest[x] = "none"
      BY <1>1, <3>1 DEF StoreInv, WriterInv
    <3>3. BlocksOfFile(f) \cap left = {}
      BY <3>2 DEF Intact
    <3> QED
      BY <3>1, <3>3 DEF Intact, BlocksOfFile
  <2>5. ASSUME \/ Start \/ Crash \/ OpenFilePanics \/ EndEvents
               \/ UnknownBlockPanics
               \/ VerifyBlocksAndFiles \/ SelectPendingFiles \/ EndPass
               \/ CleanupEnd
               \/ \E b \in Blocks :
                    \/ RemoveBlockFile(b) \/ CleanupRemove(b)
                    \/ CrashInWriteBlock(b)
                    \/ \E c \in Data :
                          HandleBlock(b, c) \/ HandleBlockPanics(b, c)
               \/ \E g \in Files : WriteNextFile(g)
               \/ \E sent \in SUBSET Blocks, copies \in 1..MaxOwed :
                      EnqueuePendingBlocks(sent, copies)
               \/ UNCHANGED vars
        PROVE  UNCHANGED dest
    BY <2>5 DEF Start, Crash, OpenFilePanics, EndEvents, VerifyBlocksAndFiles,
       SelectPendingFiles, EndPass, CleanupEnd, RemoveBlockFile, CleanupRemove,
       HandleBlockPanics, CrashInWriteBlock, HandleBlock, WriteNextFile,
       EnqueuePendingBlocks, UnknownBlockPanics, vars
  <2> QED
    BY <1>1, <2>1, <2>2, <2>3, <2>4, <2>5
       DEF Next, ControllerStep, PeerStep, EnvironmentStep, Stopped
<1> QED
  BY <1>1, StoreCorrect, PTL DEF Spec, IntactFileKept

-----------------------------------------------------------------------------
(* When panics are out of the question. *)

\* No directory has to be made, each block is asked for once and answered once,
\* with as much data as it has, and its last byte is not zero.
Undisturbed ==
    /\ NestedFiles = {}
    /\ MaxOwed = 1
    /\ Faults = {}
    /\ ZeroTails = {}

\* Answers are owed for missing blocks only, every block file that reads right has
\* the block's length, the loop ends with every file written, and nothing has
\* panicked.
NoPanicInv ==
    /\ \A b \in Blocks : owed[b] > 0 => Missing(b)
    /\ \A b \in Blocks : temp[b] \in Content
    /\ pc = "cleanup" => \A f \in Files : file_path[f]
    /\ pc # "panicked"

\* Initially nothing is owed.
LEMMA NoPanicInit == Init => NoPanicInv
BY DEF Init, NoPanicInv, Missing, Content

\* A block file that hashing needs is gone only in a verified piece.
LEMMA UnverifiedReadable ==
    ASSUME StoreInv, pc # "cleanup", NEW b \in Blocks, ~verified[b]
    PROVE  PieceReadable(PieceOf[b])
BY DEF StoreInv, StatusInv, VerifiedByPiece, TempInv, PieceReadable, BlocksOfPiece

\* No step panics, and every step keeps the invariant.
LEMMA NoPanicNext ==
    ASSUME Undisturbed
    PROVE  StoreInv /\ NoPanicInv /\ [Next]_vars => NoPanicInv'
<1> SUFFICES ASSUME StoreInv, NoPanicInv, [Next]_vars
             PROVE  NoPanicInv'
    OBVIOUS
<1> USE DEF memory, writer, disk, env
<1>1. ASSUME NEW why \in {"down", "done"}, Halt(why),
             \A b \in Blocks : temp'[b] \in Content
      PROVE  NoPanicInv'
  BY <1>1 DEF Halt, FreshMemory, NoPanicInv, Missing
<1>2. CASE Start
  BY <1>2 DEF Start, FreshMemory, NoPanicInv
<1>3. ASSUME \/ Crash
             \/ \E b \in Blocks : CrashInWriteBlock(b)
      PROVE  NoPanicInv'
  <2>1. \A b \in Blocks : temp'[b] \in Content
    BY <1>3 DEF Crash, CrashInWriteBlock, Undisturbed, NoPanicInv, Content, StoreInv,
       TypeOK
  <2> QED
    BY <1>1, <1>3, <2>1 DEF Crash, CrashInWriteBlock
<1>4. CASE CleanupEnd
  BY <1>1, <1>4 DEF CleanupEnd, NoPanicInv
<1>5. ~OpenFilePanics /\ ~UnknownBlockPanics
  BY DEF OpenFilePanics, UnknownBlockPanics, Undisturbed
<1>6. ASSUME NEW b \in Blocks, CopyBlock(b) \/ CopyBlockPanics(b)
      PROVE  NoPanicInv'
  <2>1. ~CopyBlockPanics(b)
    BY CopyFails DEF NoPanicInv, Content
  <2> QED
    BY <1>6, <2>1 DEF CopyBlock, NoPanicInv, Missing
<1>7. ASSUME NEW b \in Blocks, RemoveBlockFile(b)
      PROVE  NoPanicInv'
  BY <1>7 DEF RemoveBlockFile, Unlink, NoPanicInv, Missing, StoreInv, TypeOK, WriterInv,
     Content
<1>8. ASSUME NEW b \in Blocks, NEW c \in Data,
             HandleBlock(b, c) \/ HandleBlockPanics(b, c)
      PROVE  NoPanicInv'
  <2>1. /\ Answer(b, c) /\ owed[b] > 0 /\ Missing(b) /\ ~verified[b]
        /\ pc = "events" /\ c \in Content
    BY <1>8 DEF HandleBlock, HandleBlockPanics, Answer, NoPanicInv, StoreInv,
       StatusInv, Missing, Persisted, Undisturbed, Data, BlockFileContent
  <2>2. ~HashPanics(b)
    BY <2>1, UnverifiedReadable DEF HashPanics
  <2>3. owed[b] = 1
    BY <2>1 DEF Undisturbed, StoreInv, TypeOK
  <2>4. \A x \in Blocks : x # b => data_status'[x] = data_status[x]
    BY <1>8, <2>2 DEF HandleBlock, HandleBlockPanics, WriteBlock, StoreInv, TypeOK
  <2>5. owed' = [owed EXCEPT ![b] = 0] /\ pc' = "events"
    BY <1>8, <2>1, <2>2, <2>3 DEF HandleBlock, HandleBlockPanics
  <2>6. \A x \in Blocks : temp'[x] \in Content
    BY <1>8, <2>1, <2>2 DEF HandleBlock, HandleBlockPanics, WriteBlock, Written,
       NoPanicInv, StoreInv, TypeOK
  <2> QED
    BY <2>4, <2>5, <2>6 DEF NoPanicInv, Missing, StoreInv, TypeOK
<1>9. ASSUME NEW sent \in SUBSET Blocks, NEW copies \in 1..MaxOwed,
             EnqueuePendingBlocks(sent, copies)
      PROVE  NoPanicInv'
  <2>1. \A b \in Blocks : \/ b \in sent /\ data_status'[b] = "Requested"
                          \/ owed'[b] = owed[b] /\ data_status'[b] = data_status[b]
    BY <1>9 DEF EnqueuePendingBlocks, SendRequests
  <2> QED
    BY <1>9, <2>1 DEF EnqueuePendingBlocks, NoPanicInv, Missing
<1>10. CASE VerifyBlocksAndFiles
  <2>1. \A p \in Checked : PieceReadable(p)
    BY <1>10, UnverifiedReadable
       DEF VerifyBlocksAndFiles, Checked, Batch, Unverified
  <2> QED
    BY <1>10, <2>1 DEF VerifyBlocksAndFiles, NoPanicInv, Missing
<1>11. CASE EndPass
  BY <1>11 DEF EndPass, FilePending, NoPanicInv, Missing
<1>12. ASSUME \/ OpenFile \/ EndEvents \/ SelectPendingFiles
              \/ \E b \in Blocks : CleanupRemove(b)
              \/ \E f \in Files : WriteNextFile(f)
              \/ UNCHANGED vars
       PROVE  NoPanicInv'
  BY <1>12 DEF OpenFile, EndEvents, SelectPendingFiles, CleanupRemove, Unlink,
     WriteNextFile, vars, NoPanicInv, Missing, StoreInv, TypeOK, Content
<1> QED
  BY <1>2, <1>3, <1>4, <1>5, <1>6, <1>7, <1>8, <1>9, <1>10, <1>11, <1>12
     DEF Next, ControllerStep, PeerStep, EnvironmentStep, Stopped

\* When every directory exists, no block ends in a zero, and peers answer each
\* block once with as many bytes as it has, right or wrong, the unwraps and
\* assertions of the data path hold (the block looked up, the block files opened,
\* their lengths, every file written), whatever is on disk and whenever the process
\* is killed.  A missing directory, a second answer, an answer nobody asked for, one
\* for no block, and a block file of another length each have a panic of their own.
THEOREM NoPanics ==
    ASSUME Undisturbed
    PROVE  Spec => []NeverPanics
<1>1. NoPanicInv => NeverPanics
  BY DEF NoPanicInv, NeverPanics
<1> QED
  BY <1>1, NoPanicInit, NoPanicNext, StoreCorrect, PTL DEF Spec

-----------------------------------------------------------------------------
(* A destination without corrupt data. *)

\* No file of the right length is wrong at first, and no peer sends more data than
\* a block has, which could fill a file up to its length.
CleanDisk == "bad" \notin PriorContents /\ "long" \notin Faults

\* Only good data is in the destination, no block file is too long, and the loop
\* ends only with every file written and verified.
CleanInv ==
    /\ \A b \in Blocks : dest[b] # "bad"
    /\ \A b \in Blocks : temp[b] # "long"
    /\ pc = "cleanup" => \A f \in Files : file_path[f] /\ file_verified[f]
    /\ pc = "done" => \A f \in Files : Intact(f)

\* Without bad data a file that has its length is right.
LEMMA FullIsIntact ==
    ASSUME StoreInv, CleanInv, NEW f \in Files
    PROVE  FullLength(f) <=> Intact(f)
BY DEF StoreInv, TypeOK, CleanInv, FullLength, Intact, BlocksOfFile, Content

\* The steps of Next that leave the destination alone, by what they do to pc.
LEMMA PcMoves ==
    ASSUME StoreInv, [Next]_vars
    PROVE  \/ OpenFile
           \/ \E b \in Blocks : CopyBlock(b)
           \/ \E b \in Blocks : CopyBlockPanics(b)
           \/ EndPass
           \/ CleanupEnd
           \/ /\ UNCHANGED <<dest, file_path, file_verified, pc>>
           \/ /\ UNCHANGED dest
              /\ pc' \notin {"cleanup", "done"}
           \/ /\ UNCHANGED <<dest, pc>>
              /\ pc # "cleanup"
<1> USE DEF memory, writer, disk, env
<1>1. ASSUME NEW why \in {"down", "panicked"}, Halt(why)
      PROVE  pc' \notin {"cleanup", "done"}
  BY <1>1 DEF Halt
<1>2. ASSUME \/ Crash \/ OpenFilePanics \/ UnknownBlockPanics
             \/ \E b \in Blocks :
                  \/ CrashInWriteBlock(b)
                  \/ \E c \in Data : HandleBlockPanics(b, c)
      PROVE  UNCHANGED dest /\ pc' \notin {"cleanup", "done"}
  BY <1>1, <1>2 DEF Crash, OpenFilePanics, UnknownBlockPanics, HandleBlockPanics,
     CrashInWriteBlock
<1>3. ASSUME \/ Start \/ EndEvents \/ SelectPendingFiles
             \/ \E sent \in SUBSET Blocks, copies \in 1..MaxOwed :
                    EnqueuePendingBlocks(sent, copies)
      PROVE  UNCHANGED dest /\ pc' \notin {"cleanup", "done"}
  BY <1>3 DEF Start, EndEvents, SelectPendingFiles, EnqueuePendingBlocks
<1>4. CASE VerifyBlocksAndFiles
  BY <1>1, <1>4 DEF VerifyBlocksAndFiles
<1>5. ASSUME \/ \E b \in Blocks :
                  \/ RemoveBlockFile(b)
                  \/ \E c \in Data : HandleBlock(b, c)
             \/ \E f \in Files : WriteNextFile(f)
      PROVE  UNCHANGED <<dest, pc>> /\ pc # "cleanup"
  BY <1>5 DEF RemoveBlockFile, HandleBlock, Answer, WriteNextFile, StoreInv,
     WriterInv
<1>6. ASSUME NEW b \in Blocks, CleanupRemove(b)
      PROVE  UNCHANGED <<dest, file_path, file_verified, pc>>
  BY <1>6 DEF CleanupRemove
<1>7. CASE UNCHANGED vars
  BY <1>7 DEF vars
<1> QED
  BY <1>2, <1>3, <1>4, <1>5, <1>6, <1>7
     DEF Next, ControllerStep, PeerStep, EnvironmentStep, Stopped

\* A clean destination starts clean ...
LEMMA CleanInit == CleanDisk /\ Init => CleanInv
BY DEF CleanDisk, Init, CleanInv

\* No block file gets longer than its block ...
LEMMA NoneTooLong ==
    ASSUME CleanDisk, StoreInv, CleanInv, [Next]_vars
    PROVE  \A b \in Blocks : temp'[b] # "long"
<1> USE DEF memory, writer, disk, env
<1>1. ASSUME UNCHANGED temp
      PROVE  \A b \in Blocks : temp'[b] # "long"
  BY <1>1 DEF CleanInv
<1>2. ASSUME NEW b \in Blocks, RemoveBlockFile(b) \/ CleanupRemove(b)
      PROVE  \A x \in Blocks : temp'[x] # "long"
  BY <1>2 DEF RemoveBlockFile, CleanupRemove, Unlink, CleanInv, StoreInv, TypeOK
<1>3. ASSUME NEW b \in Blocks, NEW c \in Data, HandleBlock(b, c) \/ HandleBlockPanics(b, c)
      PROVE  \A x \in Blocks : temp'[x] # "long"
  BY <1>3 DEF HandleBlock, HandleBlockPanics, Answer, WriteBlock, Written, CleanDisk,
     CleanInv, StoreInv, TypeOK
<1>4. ASSUME NEW b \in Blocks, CrashInWriteBlock(b)
      PROVE  \A x \in Blocks : temp'[x] # "long"
  BY <1>4 DEF CrashInWriteBlock, CleanInv, StoreInv, TypeOK
<1>5. ASSUME \/ Start \/ Crash \/ OpenFile \/ OpenFilePanics \/ UnknownBlockPanics
             \/ EndEvents \/ VerifyBlocksAndFiles \/ SelectPendingFiles \/ EndPass
             \/ CleanupEnd
             \/ \E b \in Blocks : CopyBlock(b) \/ CopyBlockPanics(b)
             \/ \E f \in Files : WriteNextFile(f)
             \/ \E sent \in SUBSET Blocks, copies \in 1..MaxOwed :
                    EnqueuePendingBlocks(sent, copies)
             \/ UNCHANGED vars
      PROVE  UNCHANGED temp
  BY <1>5 DEF Start, Crash, OpenFile, OpenFilePanics, UnknownBlockPanics, EndEvents,
     VerifyBlocksAndFiles, SelectPendingFiles, EndPass, CleanupEnd, CopyBlock,
     CopyBlockPanics, WriteNextFile, EnqueuePendingBlocks, vars
<1> QED
  BY <1>1, <1>2, <1>3, <1>4, <1>5
     DEF Next, ControllerStep, PeerStep, EnvironmentStep, Stopped

\* ... so a failed copy leaves the destination as it was ...
LEMMA FailedCopyLeaves ==
    ASSUME StoreInv, CleanInv, NEW b \in Blocks, CopyBlockPanics(b)
    PROVE  UNCHANGED dest
BY DEF CopyBlockPanics, AfterFailedCopy, CleanInv

\* ... and it stays clean.
LEMMA CleanNext ==
    ASSUME CleanDisk
    PROVE  StoreInv /\ CleanInv /\ [Next]_vars => CleanInv'
<1> SUFFICES ASSUME StoreInv, CleanInv, [Next]_vars
             PROVE  CleanInv'
    OBVIOUS
<1> USE DEF memory, writer, disk, env
<1>0. \A b \in Blocks : temp'[b] # "long"
  BY NoneTooLong
<1>1. CASE OpenFile
  BY <1>0, <1>1 DEF OpenFile, CleanInv, StoreInv, WriterInv
<1>2. ASSUME NEW b \in Blocks, CopyBlock(b)
      PROVE  CleanInv'
  <2>1. pc \in {"events", "write"} /\ pc' = pc
    BY <1>2 DEF CopyBlock, StoreInv, WriterInv
  <2>2. dest' = [dest EXCEPT ![b] = "good"]
    BY <1>2, CopiedGood
  <2> QED
    BY <1>0, <2>1, <2>2 DEF CleanInv, StoreInv, TypeOK
<1>3. ASSUME NEW b \in Blocks, CopyBlockPanics(b)
      PROVE  CleanInv'
  <2>1. UNCHANGED dest
    BY <1>3, FailedCopyLeaves
  <2> QED
    BY <1>0, <1>3, <2>1 DEF CopyBlockPanics, Halt, CleanInv
<1>4. CASE EndPass
  BY <1>0, <1>4 DEF EndPass, FilePending, CleanInv
<1>5. CASE CleanupEnd
  <2>1. \A f \in Files : Intact(f)
    BY <1>5, FullIsIntact DEF CleanupEnd, CleanInv, StoreInv, FileInv
  <2>2. UNCHANGED dest /\ pc' # "cleanup"
    BY <1>5 DEF CleanupEnd, Halt
  <2> QED
    BY <1>0, <2>1, <2>2 DEF CleanInv, Intact
<1>6. CASE \/ UNCHANGED <<dest, file_path, file_verified, pc>>
           \/ UNCHANGED dest /\ pc' \notin {"cleanup", "done"}
           \/ UNCHANGED <<dest, pc>> /\ pc # "cleanup"
  BY <1>0, <1>6 DEF CleanInv, Intact
<1> QED
  BY <1>1, <1>2, <1>4, <1>5, <1>6, <1>3, PcMoves

\* The invariants of a session over a clean destination.
THEOREM CleanCorrect ==
    ASSUME CleanDisk
    PROVE  Spec => [](StoreInv /\ CleanInv)
<1>1. Init => CleanInv
  BY CleanInit
<1> QED
  BY <1>1, CleanNext, StoreCorrect, PTL DEF Spec

\* Over a clean destination, a file reported as on disk and verified is the file
\* the torrent describes.
THEOREM ReportedFilesIntact ==
    ASSUME CleanDisk
    PROVE  Spec => []VerifiedFileIntact
<1>1. StoreInv /\ CleanInv => VerifiedFileIntact
  BY FullIsIntact DEF StoreInv, FileInv, VerifiedFileIntact
<1> QED
  BY <1>1, CleanCorrect, PTL

\* Over a clean destination, a finished download is the torrent.
THEOREM FinishedIsIntact ==
    ASSUME CleanDisk
    PROVE  Spec => []CompletionIntegrity
<1>1. CleanInv => CompletionIntegrity
  BY DEF CleanInv, CompletionIntegrity
<1> QED
  BY <1>1, CleanCorrect, PTL

\* A verified block is found again, unless its file is being assembled.
LEMMA LosesOnlyOpenFile == StoreInv /\ CleanInv => CrashLosesOnlyOpenFile
<1>1. ASSUME StoreInv, CleanInv, NEW b \in Blocks, verified[b], ~Copied(b)
      PROVE  Recoverable(b) \/ (Copying /\ FileOf[b] = wfile)
  <2>1. FileOf[b] \in Files /\ b \in BlocksOfFile(FileOf[b])
    BY LayoutAssumption DEF BlocksOfFile
  <2>2. CASE FullLength(FileOf[b])
    BY <1>1, <2>1, <2>2, FullIsIntact DEF Recoverable, Intact
  <2>3. CASE ~FullLength(FileOf[b])
    <3>1. ~file_path[FileOf[b]]
      BY <1>1, <2>1, <2>3 DEF StoreInv, FileInv
    <3>2. data_status[b] = "PersistedSeparately" /\ pc # "cleanup"
      BY <1>1, <2>1, <3>1 DEF StoreInv, StatusInv, Persisted, CleanInv
    <3>3. ReadsRight(temp[b])
      BY <1>1, <3>1, <3>2 DEF StoreInv, TempInv
    <3> QED BY <2>3, <3>3 DEF Recoverable
  <2> QED BY <2>2, <2>3
<1> QED
  BY <1>1 DEF CrashLosesOnlyOpenFile, Copied, Copying

\* Over a clean destination, a crash can only lose verified blocks of the one file
\* that is being assembled.
THEOREM CrashIsLocal ==
    ASSUME CleanDisk
    PROVE  Spec => []CrashLosesOnlyOpenFile
BY LosesOnlyOpenFile, CleanCorrect, PTL

\* A panic comes while a file is copied only at a block file of another length; it
\* keeps the block files of verified blocks, and of the destination it changes no
\* other file than that one.
LEMMA PanicStep ==
    ASSUME StoreInv, [Next]_vars, pc # "panicked", pc' = "panicked"
    PROVE  /\ wop \in {"copy", "remove"} => AtBadLength
           /\ \A b \in Blocks : ~(AtBadLength /\ FileOf[b] = wfile) => dest'[b] = dest[b]
           /\ \A b \in Blocks : verified[b] => temp'[b] = temp[b]
<1> USE DEF memory, writer, disk, env
<1>1. CASE OpenFilePanics \/ UnknownBlockPanics
  BY <1>1 DEF OpenFilePanics, UnknownBlockPanics
<1>2. ASSUME NEW b \in Blocks, CopyBlockPanics(b)
      PROVE  /\ AtBadLength /\ UNCHANGED temp
             /\ \A x \in Blocks : FileOf[x] # wfile => dest'[x] = dest[x]
  <2>1. /\ b \in left /\ wop = "copy" /\ temp[b] \in {"short", "long"}
        /\ \A x \in Blocks \ left : dest'[x] = dest[x]
    BY <1>2, CopyFails
  <2>2. \A x \in left : FileOf[x] = wfile
    BY <2>1 DEF StoreInv, WriterInv, BlocksOfFile
  <2> QED
    BY <1>2, <2>1, <2>2 DEF CopyBlockPanics, AtBadLength
<1>3. ASSUME NEW b \in Blocks, NEW c \in Data, HandleBlockPanics(b, c)
      PROVE  /\ wop = "idle" /\ UNCHANGED dest
             /\ \A x \in Blocks : verified[x] => temp'[x] = temp[x]
  <2>1. wop = "idle" /\ UNCHANGED dest /\ temp' = Written(b, c)
    BY <1>3 DEF HandleBlockPanics, Answer
  <2>2. \A x \in Blocks : verified[x] => Persisted(x)
    BY DEF StoreInv, StatusInv
  <2> QED
    BY <2>1, <2>2 DEF Written, StoreInv, TypeOK
<1>4. ASSUME VerifyBlocksAndFiles \/ CleanupEnd
      PROVE  wop = "idle" /\ UNCHANGED <<dest, temp>>
  <2>1. pc \notin {"events", "write"}
    BY <1>4 DEF VerifyBlocksAndFiles, CleanupEnd
  <2>2. wop = "idle"
    BY <2>1 DEF StoreInv, WriterInv
  <2> QED
    BY <1>4, <2>2 DEF VerifyBlocksAndFiles, CleanupEnd
<1>5. ASSUME \/ Start \/ Crash
             \/ \E b \in Blocks : CrashInWriteBlock(b)
      PROVE  FALSE
  BY <1>5 DEF Start, Crash, CrashInWriteBlock, Halt
<1>6. ASSUME \/ OpenFile
             \/ \E b \in Blocks : CopyBlock(b) \/ RemoveBlockFile(b) \/ CleanupRemove(b)
             \/ EndEvents \/ SelectPendingFiles \/ EndPass
             \/ \E sent \in SUBSET Blocks, copies \in 1..MaxOwed :
                    EnqueuePendingBlocks(sent, copies)
             \/ \E f \in Files : WriteNextFile(f)
             \/ \E b \in Blocks, c \in Data : HandleBlock(b, c)
             \/ UNCHANGED vars
      PROVE  FALSE
  BY <1>6 DEF OpenFile, CopyBlock, RemoveBlockFile, CleanupRemove, EndEvents, SelectPendingFiles,
     EndPass, EnqueuePendingBlocks, WriteNextFile, HandleBlock, vars
<1> QED
  BY <1>1, <1>2, <1>3, <1>4, <1>5, <1>6
     DEF Next, ControllerStep, PeerStep, EnvironmentStep, Stopped

\* Over a clean destination, a panic loses no verified block, sync_with_disk of the
\* next controller finds each of them; unless a file was being assembled and one of
\* its block files has not the length of its block: then it loses those of that file
\* only.
THEOREM PanicsKeepBlocks ==
    ASSUME CleanDisk
    PROVE  Spec => PanicKeepsBlocks
<1>1. StoreInv /\ CleanInv /\ [Next]_vars =>
         [(pc # "panicked" /\ pc' = "panicked") =>
             \A b \in Blocks :
                 verified[b] => Recoverable(b)' \/ (AtBadLength /\ FileOf[b] = wfile)]_vars
  <2> SUFFICES ASSUME StoreInv, CleanInv, [Next]_vars, pc # "panicked", pc' = "panicked",
                      NEW b \in Blocks, verified[b], ~(AtBadLength /\ FileOf[b] = wfile)
               PROVE  Recoverable(b)'
    OBVIOUS
  <2>1. Recoverable(b)
    BY PanicStep, LosesOnlyOpenFile DEF CrashLosesOnlyOpenFile
  <2>2. \A x \in BlocksOfFile(FileOf[b]) \cup {b} : dest'[x] = dest[x]
    BY PanicStep DEF BlocksOfFile
  <2>3. temp'[b] = temp[b]
    BY PanicStep
  <2> QED
    BY <2>1, <2>2, <2>3 DEF Recoverable, FullLength, BlocksOfFile, ReadsRight
<1> QED
  BY <1>1, CleanCorrect, PTL DEF Spec, PanicKeepsBlocks

-----------------------------------------------------------------------------
(* The data path implements the abstract download. *)

Complete == {f \in Files : Intact(f)}
Claimed  == {f \in Files : file_path[f] /\ file_verified[f]}

\* A session that ends, or starts, is a restart of the abstract download.
LEMMA ForgetStep ==
    ASSUME UNCHANGED dest, Claimed' = {}, pc' # "done"
    PROVE  Abstract!Restart
BY DEF Abstract!Restart, Claimed, Intact

\* A step that only adds claims of complete files is an abstract claim.
LEMMA ClaimStep ==
    ASSUME UNCHANGED dest, pc # "done", pc' # "done", NEW S, S = Claimed',
           Claimed \subseteq S, S \subseteq Complete
    PROVE  Abstract!Claim(S)
BY DEF Abstract!Claim, Claimed, Complete, Intact

\* Over a clean destination only complete files are claimed.
LEMMA ClaimsHold == StoreInv /\ CleanInv => Claimed \subseteq Complete
BY FullIsIntact DEF StoreInv, FileInv, Claimed, Complete

\* Visiting a file only adds claims.
LEMMA WriterClaims ==
    ASSUME NEW f \in Files, VerifyAndWriteFile(f), UNCHANGED file_path, TypeOK
    PROVE  Claimed \subseteq Claimed'
BY DEF VerifyAndWriteFile, Claimed, TypeOK

\* The thread's end, but for a finished download, is a restart.
LEMMA HaltStep ==
    ASSUME NEW why \in {"down", "panicked"}, Halt(why), UNCHANGED dest
    PROVE  Abstract!Next
<1>1. Claimed' = {} /\ pc' # "done"
  BY DEF Halt, Claimed
<1> QED
  BY <1>1, ForgetStep DEF Abstract!Next

\* Every step of the data path is a step of the abstract download, or none.
LEMMA StepImplements ==
    ASSUME StoreInv, CleanInv, StoreInv', CleanInv', Claimed' \subseteq Complete',
           [Next]_vars
    PROVE  [Abstract!Next]_(Abstract!vars)
<1> USE DEF memory, writer, disk, env
<1>1. ASSUME UNCHANGED dest, pc # "done", pc' # "done", Claimed \subseteq Claimed'
      PROVE  Abstract!Next
  <2>1. Claimed' \subseteq Complete /\ Claimed' \in SUBSET Files
    BY <1>1 DEF Complete, Intact, Claimed
  <2>2. PICK S \in SUBSET Files : S = Claimed'
    BY <2>1
  <2>3. Abstract!Claim(S)
    BY <1>1, <2>1, <2>2, ClaimStep
  <2> QED
    BY <2>3 DEF Abstract!Next
<1>2. CASE Start
  <2>1. Claimed' = {} /\ pc' # "done"
    BY <1>2 DEF Start, FreshMemory, Claimed
  <2> QED
    BY <1>2, <2>1, ForgetStep DEF Start, Abstract!Next
<1>3. ASSUME \/ Crash \/ OpenFilePanics \/ UnknownBlockPanics
             \/ \E b \in Blocks :
                  \/ CrashInWriteBlock(b)
                  \/ CopyBlockPanics(b)
                  \/ \E c \in Data : HandleBlockPanics(b, c)
      PROVE  Abstract!Next
  <2>1. UNCHANGED dest
    BY <1>3, FailedCopyLeaves
       DEF Crash, OpenFilePanics, UnknownBlockPanics, HandleBlockPanics,
           CrashInWriteBlock
  <2> QED
    BY <1>3, <2>1, HaltStep
       DEF Crash, OpenFilePanics, UnknownBlockPanics, HandleBlockPanics,
           CrashInWriteBlock, CopyBlockPanics
<1>4. CASE OpenFile
  <2>1. /\ wfile \in Files /\ ~file_path[wfile] /\ pc \in {"events", "write"}
        /\ BlocksOfFile(wfile) # {}
    BY <1>4, LayoutAssumption DEF OpenFile, StoreInv, WriterInv, BlocksOfFile
  <2>2. ~Intact(wfile)
    BY <1>4, <2>1, FullIsIntact
       DEF OpenFile, StoreInv, FileInv, Copying, Running
  <2>3. ~Intact(wfile)'
    BY <1>4, <2>1 DEF OpenFile, Intact, BlocksOfFile
  <2>4. \A f \in Files : f # wfile => (Intact(f) <=> Intact(f)')
    BY <1>4 DEF OpenFile, Intact, BlocksOfFile
  <2>5. {f \in Files : Intact(f)} = {f \in Files : Intact(f)}'
    BY <1>4, <2>2, <2>3, <2>4 DEF OpenFile
  <2> QED
    BY <1>4, <2>5 DEF OpenFile, Abstract!vars
<1>5. ASSUME NEW b \in Blocks, CopyBlock(b)
      PROVE  [Abstract!Next]_(Abstract!vars)
  <2>1. /\ wfile \in Files /\ FileOf[b] = wfile /\ pc \in {"events", "write"}
        /\ dest' = [dest EXCEPT ![b] = "good"]
        /\ UNCHANGED <<pc, wfile, file_path, file_verified>>
    BY <1>5, CopiedGood DEF CopyBlock, StoreInv, WriterInv
  <2>2. \A f \in Files : f # wfile => (Intact(f) <=> Intact(f)')
    BY <2>1 DEF Intact, BlocksOfFile, StoreInv, TypeOK
  <2>3. Intact(wfile) => Intact(wfile)'
    BY <2>1 DEF Intact, BlocksOfFile, StoreInv, TypeOK
  <2>4. CASE Intact(wfile) <=> Intact(wfile)'
    <3>1. \A f \in Files : Intact(f) <=> Intact(f)'
      BY <2>1, <2>2, <2>4
    <3>2. {f \in Files : Intact(f)} = {f \in Files : Intact(f)}'
      BY <3>1
    <3> QED
      BY <2>1, <3>2 DEF Abstract!vars
  <2>5. CASE ~Intact(wfile) /\ Intact(wfile)'
    <3>1. {f \in Files : Intact(f)}' = {f \in Files : Intact(f)} \cup {wfile}
      BY <2>1, <2>2, <2>5
    <3>2. Abstract!CompleteFile(wfile)
      BY <2>1, <2>5, <3>1 DEF Abstract!CompleteFile
    <3> QED
      BY <2>1, <3>2 DEF Abstract!Next
  <2> QED BY <2>3, <2>4, <2>5
<1>6. ASSUME NEW b \in Blocks, RemoveBlockFile(b)
      PROVE  Abstract!Next
  <2>1. Claimed \subseteq Claimed'
    BY <1>6 DEF RemoveBlockFile, Claimed, StoreInv, TypeOK
  <2> QED
    BY <1>1, <1>6, <2>1 DEF RemoveBlockFile, StoreInv, WriterInv
<1>7. ASSUME \/ EndEvents \/ SelectPendingFiles \/ EndPass
             \/ \E b \in Blocks : CleanupRemove(b)
             \/ \E sent \in SUBSET Blocks, copies \in 1..MaxOwed :
                    EnqueuePendingBlocks(sent, copies)
      PROVE  Abstract!Next
  BY <1>1, <1>7 DEF EndEvents, SelectPendingFiles, EndPass, CleanupRemove,
     EnqueuePendingBlocks, Claimed
<1>8. CASE VerifyBlocksAndFiles
  <2>1. CASE \A p \in Checked : PieceReadable(p)
    <3>1. /\ Claimed \subseteq Claimed'
          /\ UNCHANGED dest /\ pc = "verify" /\ pc' = "select"
      BY <1>8, <2>1 DEF VerifyBlocksAndFiles, Claimed
    <3> QED BY <1>1, <3>1
  <2>2. CASE ~\A p \in Checked : PieceReadable(p)
    BY <1>8, <2>2, HaltStep DEF VerifyBlocksAndFiles
  <2> QED BY <2>1, <2>2
<1>9. ASSUME NEW f \in Files, WriteNextFile(f)
      PROVE  Abstract!Next
  <2>1. Claimed \subseteq Claimed'
    BY <1>9, WriterClaims DEF WriteNextFile, StoreInv
  <2> QED
    BY <1>1, <1>9, <2>1 DEF WriteNextFile
<1>10. ASSUME NEW b \in Blocks, NEW c \in Data, HandleBlock(b, c)
       PROVE  Abstract!Next
  <2>1. FileOf[b] \in Files
    BY LayoutAssumption
  <2>2. UNCHANGED <<file_path, dest, pc>> /\ pc = "events"
    BY <1>10 DEF HandleBlock, Answer
  <2>3. VerifyAndWriteFile(FileOf[b]) \/ UNCHANGED file_verified
    BY <1>10 DEF HandleBlock
  <2>4. Claimed \subseteq Claimed'
    BY <2>1, <2>2, <2>3, WriterClaims DEF Claimed, StoreInv
  <2> QED
    BY <1>1, <2>2, <2>4
<1>11. CASE CleanupEnd
  <2>1. CASE \A f \in Files : file_path[f]
    <3>1. Complete = Files /\ Claimed' = {} /\ pc' = "done"
      BY <1>11, <2>1, FullIsIntact
         DEF CleanupEnd, Halt, Claimed, Complete, StoreInv, FileInv
    <3>2. Abstract!Finish
      BY <1>11, <3>1 DEF CleanupEnd, Abstract!Finish, Complete, Claimed, Intact
    <3> QED BY <3>2 DEF Abstract!Next
  <2>2. CASE ~\A f \in Files : file_path[f]
    BY <1>11, <2>2, HaltStep DEF CleanupEnd
  <2> QED BY <2>1, <2>2
<1>12. CASE UNCHANGED vars
  BY <1>12 DEF vars, Abstract!vars, Intact
<1> QED
  BY <1>2, <1>3, <1>4, <1>5, <1>6, <1>7, <1>8, <1>9, <1>10, <1>11, <1>12
     DEF Next, ControllerStep, PeerStep, EnvironmentStep, Stopped

\* Over a clean destination, what the data path does is a download: files complete
\* one by one and stay complete, only complete files are reported, and the
\* download finishes only with all of them.
THEOREM DownloadImplemented ==
    ASSUME CleanDisk
    PROVE  Spec => ImplementsDownload
<1>1. Init => Abstract!Init
  BY DEF Init, Abstract!Init
<1> DEFINE Inv == StoreInv /\ CleanInv /\ Claimed \subseteq Complete
<1>2. StoreInv /\ CleanInv => Inv
  BY ClaimsHold
<1>3. Inv /\ Inv' /\ [Next]_vars => [Abstract!Next]_(Abstract!vars)
  BY StepImplements
<1> QED
  BY <1>1, <1>2, <1>3, CleanCorrect, PTL
     DEF Spec, ImplementsDownload, Abstract!Spec

=============================================================================
