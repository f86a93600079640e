----------------------------- MODULE MCTrackers -----------------------------
(* Two trackers and two peers for TLC. *)
EXTENDS Trackers

TwoTrackers == <<"first", "second">>
ByScheme(f, s) == [t \in {"first", "second"} |-> IF t = "first" THEN f ELSE s]

\* Each protocol in front of the other, a scheme that is not supported, and a URL
\* that udp_tracker panics on.
SomeSchemes == {ByScheme("udp", "http"), ByScheme("http", "udp without port"),
                ByScheme("other", "udp")}

\* Two peers.  The UDP decoder makes one of the pair, with the port it reads out of
\* the second one's IP address; here that is the right port by chance.
One == <<1, 2, 3>>
Two == <<4, 3, 6>>
AllAddresses == {One, Two}
Lists == {<<>>, <<One, Two>>}

\* The text of an error, long enough to be taken for a peer.
LongText == {<<7, 7, 7, 7, 7, 7, 1, 2, 7, 7, 3, 7>>}

\* Any of these answers may also be meant for another.
AnyAnswer == {<<"connect", <<>>>>} \cup ({"announce"} \X Lists) \cup ({"error"} \X LongText)
=============================================================================
