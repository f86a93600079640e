--------------------------- MODULE MCBlockLayout ---------------------------
(***************************************************************************)
(* Small torrents for TLC.                                                 *)
(***************************************************************************)
EXTENDS BlockLayout

SumOf(s) == IF Len(s) = 1 THEN s[1] ELSE IF Len(s) = 2 THEN s[1] + s[2]
            ELSE s[1] + s[2] + s[3]

\* A torrent file with the hashes its pieces have.
Whole(single, lengths, length) ==
    [single_file |-> single, lengths |-> lengths, piece_length |-> length,
     hashes |-> (SumOf(lengths) + length - 1) \div length]

UpTo3(S) == {<<a>> : a \in S} \cup (S \X S) \cup (S \X S \X S)

\* Up to three files, none of them empty.
FilledFiles == {Whole(FALSE, s, l) : s \in UpTo3(1..5), l \in 1..5}

\* Up to three files, some of them empty but not all.
EmptyFiles == {Whole(FALSE, s, l) : s \in {x \in UpTo3(0..2) : SumOf(x) > 0}, l \in 1..3}

\* Torrents of a single file.
SingleFiles == {Whole(TRUE, <<n>>, l) : n \in 1..5, l \in 1..3}

AnyFiles == FilledFiles \cup EmptyFiles \cup SingleFiles

=============================================================================
