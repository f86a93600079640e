----------------------------- MODULE MCPeerWire -----------------------------
(* Bytes of three bits, numbers of two bytes, four pieces: messages for TLC. *)
EXTENDS PeerWire

\* Messages the client understands.  The large offset needs both bytes of a number,
\* the bitfield both bytes of a bitfield.
Understood == {KeepAlive, Choked(TRUE), Choked(FALSE), Have(3), Bitfield({0, 3}),
               Block(1, 9, <<6, 0>>), Other(2, <<>>)}

\* An index past the last piece, a request, a bitfield that is too short, a message
\* of the maximal length.
Strange == {Have(4), Other(6, <<0, 1, 0, 0>>), Other(5, <<4>>),
            Other(6, <<0, 1, 0, 0, 0, 0, 0, 1>>)}

AnyMessage == Understood \cup Strange
=============================================================================
