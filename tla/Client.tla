-------------------------------- MODULE Client --------------------------------
(***************************************************************************)
(* The client: run_tunnel, run_wormhole and process_control_flow_message   *)
(* of main.rs with local.rs.                                               *)
(*                                                                         *)
(* run_tunnel dials the server and dials again when the websocket is lost; *)
(* every websocket it gets is an era.  In an era                           *)
(*   reader  the loop of run_wormhole, one packet at a time                *)
(*   writer  the spawned task that empties the tunnel channel              *)
(* and for every local connection of a stream                              *)
(*   source  process_local_tcp: local service -> tunnel channel            *)
(*   fwd     forward_to_local_tcp: queue of the stream -> local service    *)
(*   collect collect_stream: what these two have moved -> dashboard        *)
(* while End packets each spawn a task that closes the stream later.       *)
(* ACTIVE_STREAMS, a process-wide map, holds for a stream the sender of    *)
(* its local connection's queue.  Only the reader ends with its era.       *)
(*                                                                         *)
(* The server's side of the protocol is module RemoteStream's: a stream is *)
(* announced, then come its chunks, then perhaps its end                   *)
(* (ProtocolOrder).                                                        *)
(***************************************************************************)
EXTENDS Naturals, Sequences

CONSTANTS
    Streams,    \* streams (StreamIds), each of one era
    MaxEras,    \* bound on the websockets opened
    MaxConns,   \* bound on the local connections opened for one stream
    MaxChunks,  \* bound on the chunks of a visitor's request
    MaxReplies, \* bound on the chunks a local connection answers
    MaxPackets  \* bound on the packets a pong may find in the channel

ASSUME ClientBounds ==
    /\ MaxEras \in Nat \ {0}
    /\ MaxConns \in Nat \ {0}
    /\ MaxChunks \in Nat
    /\ MaxReplies \in Nat
    /\ MaxPackets \in Nat

Eras  == 1 .. MaxEras
Locals == Streams \X (1 .. MaxConns)

VARIABLES
    tunnel,     \* run_tunnel: "dial", "up", "retry" (sleeping) or "exited"
    era,        \* the last websocket opened, 0 before the first
    link,       \* link[e]: "up", "lost", "unacked" or "down"
    writer,     \* writer[e]: "off", "on", "ended" or "failed"
    channel,    \* channel[e]: packets waiting for the writer
    at,         \* where the reader stands in a Data packet
    cur,        \* the stream of that packet
    phase,      \* phase[s]: "new", "told" or "ended", as the server said
    home,       \* home[s]: the era of the stream
    got,        \* got[s]: chunks of s the reader has taken
    made,       \* made[s]: local connections opened for s
    entry,      \* entry[s]: the connection ACTIVE_STREAMS holds, 0 for none
    local,      \* local[c]: "open", "eof" or "reset", the service's socket
    source,     \* source[c]: "off", "run", "done" or "dead"
    replies,    \* replies[c]: chunks read from the service
    fwd,        \* fwd[c]: "off", "run", "done" or "dead"
    queue,      \* queue[c]: chunks, or Close, waiting for fwd
    wrote,      \* wrote[c]: chunks written to the service
    ender,      \* ender[s]: the task of the End packet
    held,       \* held[s]: the connection whose sender that task holds
    out,        \* out[s]: what was put into the channel for s
    log         \* log[c]: what the dashboard holds of c, see Collect

loop   == <<tunnel, era>>
wire   == <<link, writer, channel>>
server == <<phase, home, got>>
conns  == <<made, entry, local, source, replies, fwd, queue, wrote>>
ending == <<ender, held>>
vars   == <<loop, wire, at, cur, server, conns, ending, out, log>>

Close   == 0    \* StreamMessage::Close; chunks are numbered from 1
Refused == 0    \* ControlPacket::Refused; k stands for Data of connection k

\* What collect_stream has made of a connection: the chunks of the request, the
\* number of chunks of the answer, and whether it has seen the end of both.
Record(whole, request, response) ==
    [whole |-> whole, request |-> request, response |-> response]

Records == [whole : BOOLEAN, request : Seq(1 .. MaxChunks),
            response : 0 .. MaxReplies]

TypeOK ==
    /\ tunnel \in {"dial", "up", "retry", "exited"}
    /\ era \in 0 .. MaxEras
    /\ link \in [Eras -> {"up", "lost", "unacked", "down"}]
    /\ writer \in [Eras -> {"off", "on", "ended", "failed"}]
    /\ channel \in [Eras -> Nat]
    /\ at \in {"idle", "look", "connect", "insert", "get"}
    /\ cur \in Streams
    /\ phase \in [Streams -> {"new", "told", "ended"}]
    /\ home \in [Streams -> 0 .. MaxEras]
    /\ got \in [Streams -> 0 .. MaxChunks]
    /\ made \in [Streams -> 0 .. MaxConns]
    /\ entry \in [Streams -> 0 .. MaxConns]
    /\ local \in [Locals -> {"open", "eof", "reset"}]
    /\ source \in [Locals -> {"off", "run", "done", "dead"}]
    /\ replies \in [Locals -> 0 .. MaxReplies]
    /\ fwd \in [Locals -> {"off", "run", "done", "dead"}]
    /\ queue \in [Locals -> Seq(0 .. MaxChunks)]
    /\ wrote \in [Locals -> Seq(1 .. MaxChunks)]
    /\ ender \in [Streams -> {"off", "look", "hold", "forget", "done"}]
    /\ held \in [Streams -> 0 .. MaxConns]
    /\ out \in [Streams -> Seq(0 .. MaxConns)]
    /\ log \in [Locals -> Records]

Init ==
    /\ tunnel = "dial"
    /\ era = 0
    /\ link = [e \in Eras |-> "up"]
    /\ writer = [e \in Eras |-> "off"]
    /\ channel = [e \in Eras |-> 0]
    /\ at = "idle"
    /\ cur \in Streams
    /\ phase = [s \in Streams |-> "new"]
    /\ home = [s \in Streams |-> 0]
    /\ got = [s \in Streams |-> 0]
    /\ made = [s \in Streams |-> 0]
    /\ entry = [s \in Streams |-> 0]
    /\ local = [c \in Locals |-> "open"]
    /\ source = [c \in Locals |-> "off"]
    /\ replies = [c \in Locals |-> 0]
    /\ fwd = [c \in Locals |-> "off"]
    /\ queue = [c \in Locals |-> <<>>]
    /\ wrote = [c \in Locals |-> <<>>]
    /\ ender = [s \in Streams |-> "off"]
    /\ held = [s \in Streams |-> 0]
    /\ out = [s \in Streams |-> <<>>]
    /\ log = [c \in Locals |-> Record(FALSE, <<>>, 0)]

(***************************************************************************)
(* run_tunnel.                                                             *)
(***************************************************************************)

\* The server accepts: run_wormhole spawns its writer and starts to read.
DialSucceeds ==
    /\ tunnel = "dial" /\ era < MaxEras
    /\ era' = era + 1
    /\ tunnel' = "up"
    /\ writer' = [writer EXCEPT ![era + 1] = "on"]
    /\ UNCHANGED <<link, channel, at, cur, server, conns, ending, out, log>>

\* No connection, or no answer: five seconds' sleep.
DialFails ==
    /\ tunnel = "dial"
    /\ tunnel' = "retry"
    /\ UNCHANGED <<era, wire, at, cur, server, conns, ending, out, log>>

\* The server refuses the hello: run_tunnel returns, the process ends.
DialRefused ==
    /\ tunnel = "dial"
    /\ tunnel' = "exited"
    /\ UNCHANGED <<era, wire, at, cur, server, conns, ending, out, log>>

Slept ==
    /\ tunnel = "retry"
    /\ tunnel' = "dial"
    /\ UNCHANGED <<era, wire, at, cur, server, conns, ending, out, log>>

\* Mutant: the end of the websocket is only logged.
ReaderGoesOn ==
    /\ tunnel = "up" /\ at = "idle" /\ link[era] = "down"
    /\ UNCHANGED vars

\* The reader gets a close message (dial at once), an error or the end of the
\* websocket (sleep first).
ReaderEnds ==
    /\ tunnel = "up" /\ at = "idle" /\ link[era] = "down"
    /\ tunnel' \in {"dial", "retry"}
    /\ UNCHANGED <<era, wire, at, cur, server, conns, ending, out, log>>

\* select sees the restart message of the writer and drops run_wormhole,
\* which can only be where it waits: for a packet or for the local service.
Restart ==
    /\ tunnel = "up" /\ writer[era] = "failed"
    /\ at \in {"idle", "connect"}
    /\ tunnel' = "retry"
    /\ at' = "idle"
    /\ UNCHANGED <<era, wire, cur, server, conns, ending, out, log>>

(***************************************************************************)
(* The websocket and its writer.                                           *)
(***************************************************************************)

Lost(e) ==
    /\ e <= era /\ link[e] = "up"
    /\ \E l \in {"lost", "down"} : link' = [link EXCEPT ![e] = l]
    /\ UNCHANGED <<loop, writer, channel, at, cur, server, conns, ending, out,
                   log>>

TcpTimeout(e) ==
    /\ link[e] = "unacked"
    /\ link' = [link EXCEPT ![e] = "down"]
    /\ UNCHANGED <<loop, writer, channel, at, cur, server, conns, ending, out,
                   log>>

WriterSend(e) ==
    /\ writer[e] = "on" /\ channel[e] > 0 /\ link[e] # "down"
    /\ channel' = [channel EXCEPT ![e] = @ - 1]
    /\ link' = [link EXCEPT ![e] = IF @ = "lost" THEN "unacked" ELSE @]
    /\ UNCHANGED <<loop, writer, at, cur, server, conns, ending, out, log>>

WriterFails(e) ==
    /\ writer[e] = "on" /\ channel[e] > 0 /\ link[e] = "down"
    /\ writer' = [writer EXCEPT ![e] = "failed"]
    /\ channel' = [channel EXCEPT ![e] = 0]
    /\ UNCHANGED <<loop, link, at, cur, server, conns, ending, out, log>>

\* The channel runs dry for good: neither a reader nor a source has a sender.
WriterEnds(e) ==
    /\ writer[e] = "on" /\ channel[e] = 0
    /\ ~(tunnel = "up" /\ era = e)
    /\ \A c \in Locals : home[c[1]] = e => source[c] # "run"
    /\ writer' = [writer EXCEPT ![e] = "ended"]
    /\ UNCHANGED <<loop, link, channel, at, cur, server, conns, ending, out,
                   log>>

\* A packet of s is put into the channel of era e.
Put(e, s, p) ==
    /\ channel' = [channel EXCEPT ![e] = @ + 1]
    /\ out' = [out EXCEPT ![s] = Append(@, p)]

(***************************************************************************)
(* process_control_flow_message.                                           *)
(***************************************************************************)

Reading == tunnel = "up" /\ at = "idle"

\* A ping is answered.
Ping ==
    /\ Reading /\ link[era] = "up" /\ channel[era] < MaxPackets
    /\ channel' = [channel EXCEPT ![era] =
                     IF writer[era] = "on" THEN @ + 1 ELSE @]
    /\ UNCHANGED <<loop, link, writer, at, cur, server, conns, ending, out,
                   log>>

InitStream(s) ==
    /\ Reading /\ phase[s] = "new"
    /\ phase' = [phase EXCEPT ![s] = "told"]
    /\ home' = [home EXCEPT ![s] = era]
    /\ UNCHANGED <<loop, wire, at, cur, got, conns, ending, out, log>>

\* The task of an End packet is spawned.
End(s) ==
    /\ Reading /\ phase[s] = "told" /\ home[s] = era
    /\ phase' = [phase EXCEPT ![s] = "ended"]
    /\ ender' = [ender EXCEPT ![s] = "look"]
    /\ UNCHANGED <<loop, wire, at, cur, home, got, conns, held, out, log>>

Data(s) ==
    /\ Reading /\ phase[s] = "told" /\ home[s] = era
    /\ got[s] < MaxChunks
    /\ got' = [got EXCEPT ![s] = @ + 1]
    /\ cur' = s
    /\ at' = "look"
    /\ UNCHANGED <<loop, wire, phase, home, conns, ending, out, log>>

\* ACTIVE_STREAMS.contains_key.
Look ==
    /\ tunnel = "up" /\ at = "look"
    /\ at' = IF entry[cur] # 0 THEN "get" ELSE "connect"
    /\ UNCHANGED <<loop, wire, cur, server, conns, ending, out, log>>

\* setup_new_stream reaches the local service and spawns process_local_tcp.
Connect ==
    /\ tunnel = "up" /\ at = "connect"
    /\ made[cur] < MaxConns
    /\ made' = [made EXCEPT ![cur] = @ + 1]
    /\ source' = [source EXCEPT ![<<cur, made[cur] + 1>>] = "run"]
    /\ at' = "insert"
    /\ UNCHANGED <<loop, wire, cur, server, entry, local, replies, fwd, queue,
                   wrote, ending, out, log>>

\* setup_new_stream fails and says so, unless the name for TLS is invalid.
ConnectFails ==
    /\ tunnel = "up" /\ at = "connect"
    /\ at' = "get"
    /\ \/ writer[era] = "on" /\ Put(era, cur, Refused)
       \/ UNCHANGED <<channel, out>>
    /\ UNCHANGED <<loop, link, writer, cur, server, conns, ending, log>>

\* Mutant: the new stream is not entered.
InsertNothing ==
    /\ tunnel = "up" /\ at = "insert"
    /\ fwd' = [fwd EXCEPT ![<<cur, made[cur]>>] = "run"]
    /\ at' = "get"
    /\ UNCHANGED <<loop, wire, cur, server, made, entry, local, source,
                   replies, queue, wrote, ending, out, log>>

\* ... then enters it into ACTIVE_STREAMS and spawns forward_to_local_tcp.
Insert ==
    /\ tunnel = "up" /\ at = "insert"
    /\ entry' = [entry EXCEPT ![cur] = made[cur]]
    /\ fwd' = [fwd EXCEPT ![<<cur, made[cur]>>] = "run"]
    /\ at' = "get"
    /\ UNCHANGED <<loop, wire, cur, server, made, local, source, replies,
                   queue, wrote, ending, out, log>>

Found == <<cur, entry[cur]>>

\* Mutant: the chunk overtakes what is queued.
DeliverFirst ==
    /\ tunnel = "up" /\ at = "get"
    /\ entry[cur] # 0 /\ fwd[Found] = "run"
    /\ queue' = [queue EXCEPT ![Found] = <<got[cur]>> \o @]
    /\ at' = "idle"
    /\ UNCHANGED <<loop, wire, cur, server, made, entry, local, source,
                   replies, fwd, wrote, ending, out, log>>

\* The chunk goes into the queue of the stream.
Deliver ==
    /\ tunnel = "up" /\ at = "get"
    /\ entry[cur] # 0 /\ fwd[Found] = "run"
    /\ queue' = [queue EXCEPT ![Found] = Append(@, got[cur])]
    /\ at' = "idle"
    /\ UNCHANGED <<loop, wire, cur, server, made, entry, local, source,
                   replies, fwd, wrote, ending, out, log>>

\* "got data but no stream to send it to".
Refuse ==
    /\ tunnel = "up" /\ at = "get"
    /\ entry[cur] = 0 /\ writer[era] = "on"
    /\ Put(era, cur, Refused)
    /\ at' = "idle"
    /\ UNCHANGED <<loop, link, writer, cur, server, conns, ending, log>>

\* The queue's task or the writer is gone: the send fails, the error is taken
\* for a malformed packet, and run_tunnel returns.
SendFails ==
    /\ tunnel = "up" /\ at = "get"
    /\ \/ entry[cur] # 0 /\ fwd[Found] # "run"
       \/ entry[cur] = 0 /\ writer[era] # "on"
    /\ tunnel' = "exited"
    /\ UNCHANGED <<era, wire, at, cur, server, conns, ending, out, log>>

(***************************************************************************)
(* The local service.                                                      *)
(***************************************************************************)

LocalCloses(c) ==
    /\ source[c] # "off" /\ local[c] = "open"
    /\ local' = [local EXCEPT ![c] = "eof"]
    /\ UNCHANGED <<loop, wire, at, cur, server, made, entry, source, replies,
                   fwd, queue, wrote, ending, out, log>>

LocalResets(c) ==
    /\ source[c] # "off" /\ local[c] # "reset"
    /\ local' = [local EXCEPT ![c] = "reset"]
    /\ UNCHANGED <<loop, wire, at, cur, server, made, entry, source, replies,
                   fwd, queue, wrote, ending, out, log>>

(***************************************************************************)
(* process_local_tcp.                                                      *)
(***************************************************************************)

SourceSends(c) ==
    /\ source[c] = "run" /\ local[c] = "open" /\ replies[c] < MaxReplies
    /\ writer[home[c[1]]] = "on"
    /\ replies' = [replies EXCEPT ![c] = @ + 1]
    /\ Put(home[c[1]], c[1], c[2])
    /\ UNCHANGED <<loop, link, writer, at, cur, server, made, entry, local,
                   source, fwd, queue, wrote, ending, log>>

\* read fails, or the tunnel channel has no receiver any more: the task
\* panics and its entry stays.
SourcePanics(c) ==
    /\ source[c] = "run"
    /\ \/ local[c] = "reset"
       \/ /\ local[c] = "open" /\ replies[c] < MaxReplies
          /\ writer[home[c[1]]] # "on"
    /\ source' = [source EXCEPT ![c] = "dead"]
    /\ UNCHANGED <<loop, wire, at, cur, server, made, entry, local, replies,
                   fwd, queue, wrote, ending, out, log>>

\* The service has closed: the entry of the stream is removed, by its id.
SourceEnds(c) ==
    /\ source[c] = "run" /\ local[c] = "eof"
    /\ source' = [source EXCEPT ![c] = "done"]
    /\ entry' = [entry EXCEPT ![c[1]] = 0]
    /\ UNCHANGED <<loop, wire, at, cur, server, made, local, replies, fwd,
                   queue, wrote, ending, out, log>>

(***************************************************************************)
(* forward_to_local_tcp.                                                   *)
(***************************************************************************)

FwdWrites(c) ==
    /\ fwd[c] = "run" /\ local[c] # "reset"
    /\ queue[c] # <<>> /\ Head(queue[c]) # Close
    /\ queue' = [queue EXCEPT ![c] = Tail(@)]
    /\ wrote' = [wrote EXCEPT ![c] = Append(@, Head(queue[c]))]
    /\ UNCHANGED <<loop, wire, at, cur, server, made, entry, local, source,
                   replies, fwd, ending, out, log>>

FwdPanics(c) ==
    /\ fwd[c] = "run" /\ local[c] = "reset"
    /\ queue[c] # <<>> /\ Head(queue[c]) # Close
    /\ fwd' = [fwd EXCEPT ![c] = "dead"]
    /\ queue' = [queue EXCEPT ![c] = <<>>]
    /\ UNCHANGED <<loop, wire, at, cur, server, made, entry, local, source,
                   replies, wrote, ending, out, log>>

\* Mutant: a drained queue ends the task.
FwdClosesDry(c) ==
    /\ fwd[c] = "run"
    /\ queue[c] # <<>> => Head(queue[c]) = Close
    /\ fwd' = [fwd EXCEPT ![c] = "done"]
    /\ queue' = [queue EXCEPT ![c] = <<>>]
    /\ UNCHANGED <<loop, wire, at, cur, server, made, entry, local, source,
                   replies, wrote, ending, out, log>>

\* Close, or a drained queue whose senders are all gone.
FwdCloses(c) ==
    /\ fwd[c] = "run"
    /\ IF queue[c] = <<>> THEN entry[c[1]] # c[2] /\ held[c[1]] # c[2]
                          ELSE Head(queue[c]) = Close
    /\ fwd' = [fwd EXCEPT ![c] = "done"]
    /\ queue' = [queue EXCEPT ![c] = <<>>]
    /\ UNCHANGED <<loop, wire, at, cur, server, made, entry, local, source,
                   replies, wrote, ending, out, log>>

(***************************************************************************)
(* collect_stream.                                                         *)
(***************************************************************************)

\* Mutant: the answer is taken as far as it has come when the request ends.
CollectEarly(c) ==
    /\ ~log[c].whole
    /\ fwd[c] \in {"done", "dead"}
    /\ log' = [log EXCEPT ![c] = Record(TRUE, wrote[c], replies[c])]
    /\ UNCHANGED <<loop, wire, at, cur, server, conns, ending, out>>

\* Both tasks have dropped their ends: fwd that of the request, source that of
\* the answer.  Whether REQUESTS gets the record is a matter of the chunks: it
\* does if they begin with a whole request head.
Collect(c) ==
    /\ ~log[c].whole
    /\ fwd[c] \in {"done", "dead"} /\ source[c] \in {"done", "dead"}
    /\ log' = [log EXCEPT ![c] = Record(TRUE, wrote[c], replies[c])]
    /\ UNCHANGED <<loop, wire, at, cur, server, conns, ending, out>>

(***************************************************************************)
(* The task of an End packet: look the stream up, sleep, close, forget.    *)
(***************************************************************************)

EndLooks(s) ==
    /\ ender[s] = "look"
    /\ ender' = [ender EXCEPT ![s] = IF entry[s] # 0 THEN "hold" ELSE "done"]
    /\ held' = [held EXCEPT ![s] = entry[s]]
    /\ UNCHANGED <<loop, wire, at, cur, server, conns, out, log>>

\* Mutant: Close overtakes what is queued.
EndClosesFirst(s) ==
    /\ ender[s] = "hold"
    /\ ender' = [ender EXCEPT ![s] = "forget"]
    /\ queue' = IF fwd[<<s, held[s]>>] = "run"
                   THEN [queue EXCEPT ![<<s, held[s]>>] = <<Close>> \o @]
                   ELSE queue
    /\ UNCHANGED <<loop, wire, at, cur, server, made, entry, local, source,
                   replies, fwd, wrote, held, out, log>>

EndCloses(s) ==
    /\ ender[s] = "hold"
    /\ ender' = [ender EXCEPT ![s] = "forget"]
    /\ queue' = IF fwd[<<s, held[s]>>] = "run"
                   THEN [queue EXCEPT ![<<s, held[s]>>] = Append(@, Close)]
                   ELSE queue
    /\ UNCHANGED <<loop, wire, at, cur, server, made, entry, local, source,
                   replies, fwd, wrote, held, out, log>>

\* Mutant: the entry is left behind.
EndKeeps(s) ==
    /\ ender[s] = "forget"
    /\ ender' = [ender EXCEPT ![s] = "done"]
    /\ held' = [held EXCEPT ![s] = 0]
    /\ UNCHANGED <<loop, wire, at, cur, server, conns, out, log>>

EndForgets(s) ==
    /\ ender[s] = "forget"
    /\ ender' = [ender EXCEPT ![s] = "done"]
    /\ entry' = [entry EXCEPT ![s] = 0]
    /\ held' = [held EXCEPT ![s] = 0]
    /\ UNCHANGED <<loop, wire, at, cur, server, made, local, source, replies,
                   fwd, queue, wrote, out, log>>

(***************************************************************************)
(* Specification.                                                          *)
(***************************************************************************)

Loop    == DialSucceeds \/ DialFails \/ DialRefused \/ Slept
Packet  == Look \/ Connect \/ ConnectFails \/ Insert \/ Deliver \/ Refuse
                \/ SendFails
Writer(e) == WriterSend(e) \/ WriterFails(e) \/ WriterEnds(e)
Source(c) == SourceSends(c) \/ SourcePanics(c) \/ SourceEnds(c)
Fwd(c)    == FwdWrites(c) \/ FwdPanics(c) \/ FwdCloses(c)
Ender(s)  == EndLooks(s) \/ EndCloses(s) \/ EndForgets(s)

\* When run_tunnel returns the process ends, and every task with it.
Next ==
    /\ tunnel # "exited"
    /\ \/ Loop \/ ReaderEnds \/ Restart
       \/ \E e \in Eras : Lost(e) \/ TcpTimeout(e) \/ Writer(e)
       \/ Ping \/ Packet
       \/ \E s \in Streams : InitStream(s) \/ Data(s) \/ End(s) \/ Ender(s)
       \/ \E c \in Locals :
             \/ LocalCloses(c) \/ LocalResets(c)
             \/ Source(c) \/ Fwd(c) \/ Collect(c)

Spec == Init /\ [][Next]_vars

\* The runtime polls every task that can go on, connecting to localhost ends
\* one way or the other, and TCP gives up on unacknowledged bytes.  Of the local
\* service it is assumed that it takes what is written to it until it resets
\* the connection: Fwd waits in write_all (local.rs:157) for as long as the
\* service's buffers are full.  Whether and when the service answers or closes,
\* what the server sends and when the network fails is left open.
Fairness ==
    /\ WF_vars(tunnel # "exited" /\ (ReaderEnds \/ Restart \/ Packet))
    /\ \A e \in Eras :
          /\ WF_vars(tunnel # "exited" /\ Writer(e))
          /\ WF_vars(tunnel # "exited" /\ TcpTimeout(e))
    /\ \A c \in Locals :
          /\ WF_vars(tunnel # "exited" /\ Source(c))
          /\ WF_vars(tunnel # "exited" /\ Fwd(c))
          /\ WF_vars(tunnel # "exited" /\ Collect(c))
    /\ \A s \in Streams : WF_vars(tunnel # "exited" /\ Ender(s))

FairSpec == Spec /\ Fairness

(***************************************************************************)
(* Properties.                                                             *)
(***************************************************************************)

\* At most one local connection of a stream is read at a time: the entry of a
\* stream, which keeps a second connection from being opened, is removed only
\* by the task that has finished reading, or once no chunk can come any more.
OneSource ==
    \A s \in Streams : \A j, k \in 1 .. MaxConns :
        source[<<s, j>>] = "run" /\ source[<<s, k>>] = "run" => j = k

\* A local connection is written a contiguous run of the visitor's chunks,
\* and a later connection of the same stream only later chunks.
ChunksInOrder ==
    \A s \in Streams : \A j, k \in 1 .. MaxConns :
        \A m \in 1 .. Len(wrote[<<s, j>>]), n \in 1 .. Len(wrote[<<s, k>>]) :
            /\ j = k => wrote[<<s, j>>][m] - m = wrote[<<s, k>>][n] - n
            /\ j < k => wrote[<<s, j>>][m] < wrote[<<s, k>>][n]

\* Every stream of every era, whatever becomes of its websocket, is a tunnel as
\* far as the client goes: the chunks that the reader has taken are heard, each
\* by one connection at most and in order, and the connections speak in turn.
Pipe(s) ==
    INSTANCE Pipes WITH
        asked <- got[s],
        heard <- [k \in 1 .. MaxConns |-> wrote[<<s, k>>]],
        said  <- out[s],
        seen  <- <<>>

StreamsArePipes ==
    /\ \A s \in Streams : Pipe(s)!Init
    /\ [][\A s \in Streams : Pipe(s)!Next \/ UNCHANGED Pipe(s)!vars]_vars

\* The server is told "refused" for a chunk only while no local connection of
\* its stream is being read: none could be made, or the service has closed it.
RefusedOnlyWithoutSource ==
    [][\A s \in Streams :
          Len(out'[s]) > Len(out[s]) /\ out'[s][Len(out'[s])] = Refused
             => \A k \in 1 .. MaxConns : source[<<s, k>>] # "run"]_vars

\* A tunnel that is up ends the process only over a broken socket: the local
\* one of the stream at hand or the websocket.  No orderly close, by the
\* visitor, the service or the server, ever does.
OnlyBrokenSocketsKill ==
    [][tunnel = "up" /\ tunnel' = "exited" =>
          \/ link[era] = "down"
          \/ \E k \in 1 .. MaxConns :
                entry[cur] = k /\ local[<<cur, k>>] = "reset"]_vars

\* The end of a visitor's stream catches up, also when the tunnel is lost
\* meanwhile: its local connections are closed for writing, the stream is
\* forgotten, and each connection that its service has closed too is recorded.
\* Before the end of the stream this cannot be asked: setup_new_stream may
\* enter a connection that its service has already closed, and the entry then
\* keeps its queue open.
EndReachesLocal ==
    \A s \in Streams :
        []<>(phase[s] = "ended" /\ tunnel # "exited" =>
                /\ entry[s] = 0
                /\ \A c \in {s} \X (1 .. MaxConns) :
                      /\ fwd[c] # "run"
                      /\ source[c] \in {"done", "dead"} => log[c].whole)

\* A lost server is noticed, and the client leaves its websocket, once bytes
\* have been written towards it or the loss is visible.
LossNoticed ==
    \A e \in Eras :
        tunnel = "up" /\ era = e /\ link[e] \in {"unacked", "down"}
            ~> tunnel # "up" \/ era # e

\* The dashboard shows of a local connection all that the service was written
\* and all of its answer that the visitor was sent, once and for good.
RecordsWhole ==
    \A c \in Locals :
        log[c].whole =>
            log[c].request = wrote[c] /\ log[c].response = replies[c]

(***************************************************************************)
(* The inductive invariant behind the safety properties.                   *)
(***************************************************************************)

\* Where the reader stands in a packet of s, and the chunks of s that it is
\* done with.
Busy(s)    == IF cur = s THEN at ELSE "idle"
Handled(s) == got[s] - (IF Busy(s) = "idle" THEN 0 ELSE 1)

\* The reader is in a packet only of a stream that has not ended, and a tunnel
\* that is up has a writer, unless its websocket is down.
LoopInv ==
    /\ at # "idle" => phase[cur] = "told" /\ got[cur] > 0
    /\ tunnel = "up" => era # 0 /\ writer[era] \in {"on", "failed"}
    /\ \A e \in Eras : writer[e] = "failed" => link[e] = "down"

\* ACTIVE_STREAMS holds the last connection or none, none while one is being
\* made, and no End packet is at work before the stream has ended.
Entered(s) ==
    /\ entry[s] \in {0, made[s]}
    /\ Busy(s) \in {"connect", "insert"} => entry[s] = 0
    /\ Busy(s) = "insert" => made[s] # 0
    /\ phase[s] # "ended" => ender[s] = "off"
    /\ ender[s] = "hold" => held[s] # 0

\* The tasks of connection k of s: fwd starts behind the source and once the
\* connection is entered; a source that runs is that of the last connection,
\* which is entered unless the stream has ended; an entry leads to a fwd that
\* runs, or that the service has cut off.
Tasks(s, k) ==
    LET c == <<s, k>> IN
    /\ fwd[c] = "off" <=> k > made[s] \/ (k = made[s] /\ Busy(s) = "insert")
    /\ k > made[s] => source[c] = "off"
    /\ source[c] = "run" =>
          k = made[s] /\ (phase[s] = "ended" \/ entry[s] = k \/ Busy(s) = "insert")
    /\ entry[s] = k /\ phase[s] # "ended" => fwd[c] \in {"run", "dead"}
    /\ fwd[c] = "dead" => local[c] = "reset"

Recorded(s, k) ==
    LET c == <<s, k>> IN
    log[c].whole =>
        /\ fwd[c] \in {"done", "dead"} /\ source[c] \in {"done", "dead"}
        /\ log[c].request = wrote[c] /\ log[c].response = replies[c]

\* Chunks w written and q queued are one run of numbers that follows the b-th.
RunFrom(w, q, b) ==
    /\ \A i \in 1 .. Len(w) : w[i] = b + i
    /\ \A i \in 1 .. Len(q) : q[i] # Close => q[i] = b + Len(w) + i

\* The chunks among them, as a set.
Numbers(w, q) ==
    {w[i] : i \in 1 .. Len(w)} \cup ({q[i] : i \in 1 .. Len(q)} \ {Close})

Closing(q)   == \E i \in 1 .. Len(q) : q[i] = Close
ClosesLast(q) == \A i \in 1 .. Len(q) : q[i] = Close => i = Len(q)

\* The run of an entered connection goes up to the last chunk handled.
UpToDate(s, k, b) ==
    LET c == <<s, k>> IN
    entry[s] = k /\ fwd[c] = "run" /\ phase[s] # "ended" =>
        b + Len(wrote[c]) + Len(queue[c]) = Handled(s)

Chunks(s, k) ==
    LET c == <<s, k>> IN
    /\ fwd[c] # "run" => queue[c] = <<>>
    /\ fwd[c] = "off" => wrote[c] = <<>>
    /\ ClosesLast(queue[c])
    /\ Closing(queue[c]) => ender[s] \in {"forget", "done"}
    /\ \E b \in 0 .. MaxChunks :
          RunFrom(wrote[c], queue[c], b) /\ UpToDate(s, k, b)

\* The chunks that c was given; those of later connections are later.
Given(c) == Numbers(wrote[c], queue[c])

Earlier(s) ==
    /\ \A k \in 1 .. MaxConns : \A x \in Given(<<s, k>>) : x \in 1 .. Handled(s)
    /\ \A j, k \in 1 .. MaxConns : j < k =>
          \A x \in Given(<<s, j>>), y \in Given(<<s, k>>) : x < y

StreamInv(s) ==
    /\ Entered(s)
    /\ \A k \in 1 .. MaxConns : Tasks(s, k) /\ Recorded(s, k) /\ Chunks(s, k)
    /\ Earlier(s)

IInv == TypeOK /\ LoopInv /\ \A s \in Streams : StreamInv(s)
=============================================================================
