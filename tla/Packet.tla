-------------------------------- MODULE Packet --------------------------------
(***************************************************************************)
(* The messages of the websocket: ControlPacket of neutun_lib with         *)
(* serialize and deserialize.  A message is a sequence of bytes: the kind, *)
(* eight bytes of stream id, and the data.                                 *)
(***************************************************************************)
EXTENDS Naturals, Sequences

Kinds == {"init", "data", "refused", "end", "ping"}
Code  == [init |-> 1, data |-> 2, refused |-> 3, end |-> 4, ping |-> 5]

Byte     == 0 .. 255
StreamId == [1 .. 8 -> Byte]

EMPTY_STREAM == <<15, 0, 0, 0, 0, 0, 0, 0>>
TOKEN_STREAM == <<15, 0, 0, 0, 0, 0, 0, 1>>

\* A packet of a stream, and a ping without a token and with the token t.
Packet(k, id, d) == [kind |-> k, id |-> id, data |-> d]
Ping             == Packet("ping", EMPTY_STREAM, <<>>)
PingWith(t)      == Packet("ping", TOKEN_STREAM, t)

Invalid == Packet("invalid", EMPTY_STREAM, <<>>)

serialize(p) == <<Code[p.kind]>> \o p.id \o p.data

\* Only data and a token are taken from what follows the stream id, and any id
\* but EMPTY_STREAM announces a token.
deserialize(b) ==
    IF Len(b) < 9 \/ \A k \in Kinds : Code[k] # b[1]
       THEN Invalid
       ELSE LET kind == CHOOSE k \in Kinds : Code[k] = b[1]
                id   == SubSeq(b, 2, 9)
                rest == SubSeq(b, 10, Len(b))
            IN  CASE kind = "data" -> Packet("data", id, rest)
                  [] kind = "ping" /\ id = EMPTY_STREAM -> Ping
                  [] kind = "ping" /\ id # EMPTY_STREAM -> PingWith(rest)
                  [] OTHER -> Packet(kind, id, <<>>)
=============================================================================
