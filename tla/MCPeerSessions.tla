--------------------------- MODULE MCPeerSessions ---------------------------
(* Behaviours of sessions that begin late, for TLC. *)
EXTENDS PeerSessions

\* The first connection of each peer is up, and the peer has said that it has all
\* pieces and that it unchokes the client: all this was handled.  From here on requests
\* are sent, which Init comes to only after messages whose orders are too many for the
\* temporal properties.
ServedInit ==
    /\ pc = "events"
    /\ count = 0
    /\ end_game = FALSE
    /\ joining = {}
    /\ initiated = [p \in Peers |-> "recent"]
    /\ control_rx = [p \in Peers |-> 1]
    /\ state = [p \in Peers |-> [choked |-> FALSE, bitfield |-> Pieces]]
    /\ handle = [p \in Peers |-> 1]
    /\ have = [i \in Pieces |-> Cardinality(Peers)]
    /\ events = <<>>
    /\ started = [p \in Peers |-> 1]
    /\ thread = [c \in Conns |-> IF c[2] = 1 THEN "serving" ELSE "unused"]
    /\ writer = [c \in Conns |-> IF c[2] = 1 THEN "waiting" ELSE "none"]
    /\ socket = [c \in Conns |-> "open"]
    /\ view = [c \in Conns |-> IF c[2] = 1 THEN [choked |-> FALSE, bitfield |-> Pieces]
                               ELSE Fresh]
    /\ inbox = [c \in Conns |-> <<>>]
    /\ msgsLeft = 0

ThreadsSpec == (Init \/ ServedInit) /\ [][Next]_vars /\ Fairness

=============================================================================
