------------------------------- MODULE MCTunnel -------------------------------
(* A small instance of Tunnel for TLC, and a few packets for Packet.       *)
EXTENDS Tunnel

Ids   == {Id, P!EMPTY_STREAM, P!TOKEN_STREAM}
Bytes == {<<>>, <<0>>, <<5, 255>>, <<1, 2, 3, 4, 5, 6, 7, 8, 9>>}

Packets ==
    {P!Packet(k, id, <<>>) : k \in {"init", "refused", "end"}, id \in Ids}
    \cup {P!Packet("data", id, d) : id \in Ids, d \in Bytes}
    \cup {P!Ping} \cup {P!PingWith(t) : t \in Bytes}

\* What is serialized is read back as it was, also an empty token and a stream
\* that has drawn one of the ids that pings use.
ASSUME RoundTrip == \A p \in Packets : P!deserialize(P!serialize(p)) = p

\* What is too short or of no kind is refused.
ASSUME Malformed ==
    /\ \A n \in 0 .. 8 : P!deserialize([i \in 1 .. n |-> 1]) = P!Invalid
    /\ \A k \in {0, 6, 255} : P!deserialize(<<k>> \o Id) = P!Invalid
=============================================================================
