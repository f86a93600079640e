------------------------------ MODULE Download ------------------------------
(***************************************************************************)
(* What downloading one torrent promises, without blocks, pieces, peers or *)
(* a temporary directory: files of the torrent become complete one by one  *)
(* and stay complete, a file is claimed (shown to the user as on disk and  *)
(* verified) only when it is, and the download finishes only when all are. *)
(*                                                                         *)
(* TorrentStore implements this when the destination holds no corrupt file *)
(* of the right length.                                                    *)
(***************************************************************************)
CONSTANT Files

VARIABLES
    complete,   \* files that are on disk exactly as the torrent describes them
    claimed,    \* files the running session reports as on disk and verified
    finished    \* the last session ended with the whole torrent

vars == <<complete, claimed, finished>>

Init ==
    /\ complete \in SUBSET Files
    /\ claimed = {}
    /\ finished = FALSE

\* The last missing bytes of f reach the disk.
CompleteFile(f) ==
    /\ ~finished
    /\ f \notin complete
    /\ complete' = complete \cup {f}
    /\ UNCHANGED <<claimed, finished>>

\* The session finds out that files are complete.
Claim(S) ==
    /\ ~finished
    /\ S \subseteq complete
    /\ claimed' = claimed \cup S
    /\ UNCHANGED <<complete, finished>>

\* The session ends because every file is claimed.
Finish ==
    /\ complete = Files
    /\ finished' = TRUE
    /\ claimed' = {}
    /\ UNCHANGED complete

\* The session is lost and forgets its claims, or a new one starts.
Restart ==
    /\ finished' = FALSE
    /\ claimed' = {}
    /\ UNCHANGED complete

Next ==
    \/ \E f \in Files : CompleteFile(f)
    \/ \E S \in SUBSET Files : Claim(S)
    \/ Finish
    \/ Restart

Spec == Init /\ [][Next]_vars

=============================================================================
