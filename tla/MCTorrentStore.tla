--------------------------- MODULE MCTorrentStore ---------------------------
(***************************************************************************)
(* Small torrents for TLC.                                                 *)
(***************************************************************************)
EXTENDS TorrentStore

\* Two opposite orders in which a hash map may iterate over the blocks.
TwoOrders == {[b \in Blocks |-> b], [b \in Blocks |-> NumBlocks - b]}

\* Three blocks; the first piece lies across the boundary of the two files.
AcrossPieceOf == <<1, 1, 2>>
AcrossFileOf  == <<1, 2, 2>>

\* Two blocks, one piece, one file each.
PairPieceOf == <<1, 1>>
PairFileOf  == <<1, 2>>

=============================================================================
