-------------------------------- MODULE Tunnel --------------------------------
(***************************************************************************)
(* A visitor's stream from end to end: the server's side (RemoteStream)    *)
(* and the client's side (Client), joined by the websocket between them.   *)
(*                                                                         *)
(*   visitor <-> process_tcp_stream, neutun_stream          RemoteStream   *)
(*           <-> control channel, tunnel_client,                           *)
(*               process_client_messages                    here           *)
(*           <-> process_control_flow_message, the writer   here           *)
(*           <-> process_local_tcp, forward_to_local_tcp    Client         *)
(*           <-> local service                                             *)
(*                                                                         *)
(* Each side assumes of the other that packets come in a certain order;    *)
(* here the packets of one side are the packets of the other, so the       *)
(* assumptions are obligations.  One stream, and one websocket, which      *)
(* holds until the client's process ends: how each side takes the loss of  *)
(* a websocket under a client that lives on is in its own module.          *)
(***************************************************************************)
EXTENDS Naturals, Sequences

CONSTANTS
    Stream,     \* the visitor's stream
    MaxReads,   \* bound on the chunks of the request, see VisitorSends
    MaxConns,   \* bound on the local connections opened for the stream
    MaxReplies  \* bound on the chunks a local connection answers

ASSUME TunnelBounds ==
    MaxReads \in Nat /\ MaxConns \in Nat \ {0} /\ MaxReplies \in Nat

Streams    == {Stream}
MaxChunks  == MaxReads + 1
MaxAnswers == MaxConns * MaxReplies + 2 * MaxChunks

VARIABLES
    registered, chanOpen, reader, active, tcp, sink, squeue, queueOpen, visitor,
    unread, sent, replied, page, shut

server == <<registered, chanOpen, reader, active, tcp, sink, squeue, queueOpen,
            visitor, unread, sent, replied, page, shut>>

R == INSTANCE RemoteStream WITH queue <- squeue, MaxReplies <- MaxAnswers

VARIABLES
    tunnel, era, link, writer, channel, at, cur, phase, home, got, made, entry,
    local, source, replies, fwd, queue, wrote, ender, held, out, log

client == <<tunnel, era, link, writer, channel, at, cur, phase, home, got, made,
            entry, local, source, replies, fwd, queue, wrote, ender, held, out,
            log>>

C == INSTANCE Client WITH MaxEras <- 1, MaxPackets <- 0

\* The packets of a side are kept whole (sent and out); these count how many of
\* them have been written to the websocket while it was up.
VARIABLES
    down,       \* packets of the server under way to the client or read by it
    up          \* packets of the client under way to the server or read by it

vars == <<server, client, down, up>>

P == INSTANCE Packet

Init ==
    /\ R!Init
    /\ C!Init
    /\ down = 0
    /\ up = 0

(***************************************************************************)
(* Steps of one side alone.                                                *)
(***************************************************************************)

Server(A) == A /\ UNCHANGED <<client, down, up>>
Client(A) == tunnel # "exited" /\ A /\ UNCHANGED <<server, down, up>>

Locals == Streams \X (1 .. MaxConns)

\* A visitor is led to the client once the client is connected.
Visitor ==
    \/ era = 1 /\ R!Accept(Stream)
    \/ R!VisitorSends(Stream)
    \/ \E how \in {"eof", "gone"} : R!VisitorLeaves(Stream, how)

\* The server closes the control channel when it finds the websocket closed.
Notices == tunnel = "exited" /\ R!ChannelClosed

\* The client's process ends: by itself, see C!SendFails, or because it is
\* stopped.  What it has written arrives, then the server sees the end.
Stopped ==
    /\ tunnel = "up"
    /\ tunnel' = "exited"
    /\ UNCHANGED <<server, era, link, writer, channel, at, cur, phase, home,
                   got, made, entry, local, source, replies, fwd, queue, wrote,
                   ender, held, out, log, down, up>>

(***************************************************************************)
(* The websocket.                                                          *)
(***************************************************************************)

Id == <<1, 0, 0, 0, 0, 0, 0, 0>>

\* tunnel_client takes the next packet from the control channel and writes it.
Relay ==
    /\ down < Len(sent[Stream]) /\ tunnel = "up"
    /\ down' = down + 1
    /\ UNCHANGED <<server, client, up>>

\* The packets the client has read of the stream.
Read == (IF phase[Stream] = "new" THEN 0 ELSE 1) + got[Stream]
        + (IF phase[Stream] = "ended" THEN 1 ELSE 0)

\* The i-th packet of the server, as the client gets it: the (i-1)-th chunk of
\* the request follows the init packet.
Arriving(i) ==
    LET k == sent[Stream][i]
        d == IF k = "data" THEN <<i - 1>> ELSE <<>>
    IN  P!deserialize(P!serialize(P!Packet(k, Id, d)))

\* The reader of the client gets the next packet.
ClientReads ==
    /\ tunnel = "up" /\ Read < down
    /\ LET p == Arriving(Read + 1) IN
          \/ p.kind = "init" /\ C!InitStream(Stream)
          \/ p.kind = "data" /\ C!Data(Stream)
          \/ p.kind = "end" /\ C!End(Stream)
    /\ UNCHANGED <<server, down, up>>

\* The writer of the client.
ClientWrites ==
    /\ tunnel # "exited"
    /\ C!WriterSend(1)
    /\ up' = up + 1
    /\ UNCHANGED <<server, down>>

\* The i-th packet of the client, as the server gets it.
Returning(i) ==
    LET k == out[Stream][i]
        p == IF k = C!Refused THEN P!Packet("refused", Id, <<>>)
                              ELSE P!Packet("data", Id, <<k>>)
    IN  P!deserialize(P!serialize(p))

\* process_client_messages gets the next packet.
ServerReads ==
    /\ replied[Stream] < up
    /\ R!Forward(Stream, Returning(replied[Stream] + 1).kind)
    /\ UNCHANGED <<client, down, up>>

Next ==
    \/ Server(Visitor) \/ Server(R!TcpTask(Stream)) \/ Server(R!SinkTask(Stream))
    \/ Server(Notices) \/ Server(R!Unregistered) \/ Server(R!ReaderEnds)
    \/ Client(C!DialSucceeds) \/ Client(C!Packet) \/ Client(C!Ender(Stream))
    \/ \E c \in Locals :
          \/ Client(C!LocalCloses(c)) \/ Client(C!LocalResets(c))
          \/ Client(C!Source(c)) \/ Client(C!Fwd(c))
    \/ Relay \/ ClientReads \/ ClientWrites \/ ServerReads
    \/ Stopped

Spec == Init /\ [][Next]_vars

\* The fairness of the two sides, and of the tasks that move packets.  As there,
\* a visitor and a local service that stay take what is written to them.
Fairness ==
    /\ WF_vars(Server(R!TcpTask(Stream)))
    /\ WF_vars(Server(R!SinkTask(Stream)))
    /\ WF_vars(Server(R!ReaderEnds))
    /\ WF_vars(ClientReads \/ Client(C!Packet))
    /\ WF_vars(Client(C!Ender(Stream)))
    /\ \A c \in Locals :
          WF_vars(Client(C!Source(c))) /\ WF_vars(Client(C!Fwd(c)))
    /\ WF_vars(Relay)
    /\ WF_vars(ClientWrites)
    /\ WF_vars(ServerReads)

FairSpec == Spec /\ Fairness

(***************************************************************************)
(* Properties.                                                             *)
(***************************************************************************)

\* The chunks of the request that the server has sent to the client's channel.
Asked == IF sent[Stream] = <<>> THEN 0
         ELSE Len(sent[Stream]) - 1
              - (IF sent[Stream][Len(sent[Stream])] = "end" THEN 1 ELSE 0)

\* What the visitor has been written, in terms of what the client has said.
Seen ==
    [i \in 1 .. Len(page[Stream]) |->
        LET m == page[Stream][i] IN
        [page |-> m.kind # "data",
         from |-> IF m.kind = "notfound" THEN 0 ELSE out[Stream][m.n]]]

Abstract ==
    INSTANCE Pipes WITH
        asked <- Asked,
        heard <- [k \in 1 .. MaxConns |-> wrote[<<Stream, k>>]],
        said  <- out[Stream],
        seen  <- Seen

\* Both sides and the websocket together keep what a tunnel promises.
ImplementsPipes == Abstract!Spec

\* A packet that has arrived is one its reader can do something with: the
\* client hears of a stream before its data and never after its end, with no
\* chunk missing; the server gets no packet for a stream nobody was told of.
PacketsUnderstood ==
    /\ Read < down =>
          LET p == Arriving(Read + 1) IN
          /\ p.kind = "init" <=> phase[Stream] = "new"
          /\ p.kind \in {"data", "end"} <=> phase[Stream] = "told"
          /\ p.kind = "data" => p.data = <<got[Stream] + 1>>
    /\ replied[Stream] < up => sent[Stream] # <<>>

Reset      == \E c \in Locals : local[c] = "reset"

Heard(n)   == \E c \in Locals : \E i \in 1 .. Len(wrote[c]) : wrote[c][i] = n
HasRefused == \E i \in 1 .. Len(out[Stream]) : out[Stream][i] = C!Refused

\* What the server has read of the request catches up: every chunk is written
\* to a local connection, unless one was answered with a refusal, which ends
\* the stream for its visitor, the local service resets the connection, or the
\* client ends.
RequestArrives ==
    []<>\/ \A n \in 1 .. Asked : Heard(n)
        \/ HasRefused \/ Reset \/ tunnel = "exited"

\* What the local service has answered catches up: all of it reaches the
\* visitor, also after one of the two has closed its own side, unless an error
\* page is written before it, the visitor is gone, or the client ends.
AnswerArrives ==
    []<>\/ Len(page[Stream]) = Len(out[Stream])
        \/ shut[Stream] \/ visitor[Stream] = "gone" \/ tunnel = "exited"

(***************************************************************************)
(* The inductive invariant behind the safety properties: that of each      *)
(* side, and what the packets between them have to do with both.           *)
(***************************************************************************)

\* The client has read the first packets of the server, the end among them if
\* it knows of the end.
Downward ==
    /\ down \in Nat /\ Read <= down /\ down <= Len(sent[Stream])
    /\ phase[Stream] = "new" => got[Stream] = 0
    /\ phase[Stream] = "told" => sent[Stream][Read] # "end"
    /\ phase[Stream] = "ended" => sent[Stream][Read] = "end"

\* The packets of the client are on the websocket or wait for its writer; they
\* are answers of connections made so far, and none is made for a stream the
\* client has not been told of.
Upward ==
    /\ up \in Nat /\ replied[Stream] <= up
    /\ up + channel[1] = Len(out[Stream])
    /\ phase[Stream] = "new" => made[Stream] = 0 /\ out[Stream] = <<>>
    /\ phase[Stream] # "new" => home[Stream] = 1
    /\ \A i \in 1 .. Len(out[Stream]) : out[Stream][i] <= made[Stream]

\* A message for the visitor is an answer that has reached the server, of the
\* kind that the client has sent, or tells of the client's loss.
Honest(m) ==
    \/ m = R!NotFound
    \/ /\ m.kind # "notfound" /\ m.n \in 1 .. replied[Stream]
       /\ m.kind = "refused" <=> out[Stream][m.n] = C!Refused

Answers ==
    /\ \A i \in 1 .. Len(squeue[Stream]) : Honest(squeue[Stream][i])
    /\ \A i \in 1 .. Len(page[Stream]) : Honest(page[Stream][i])

IInv == R!IInv /\ C!IInv /\ Downward /\ Upward /\ Answers
=============================================================================
