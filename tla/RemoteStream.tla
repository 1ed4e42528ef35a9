---------------------------- MODULE RemoteStream ----------------------------
(***************************************************************************)
(* The server's side of a visitor's stream: remote.rs, active_stream.rs    *)
(* and the part of control_server.rs that forwards to it.                  *)
(*                                                                         *)
(* accept_connection splits the visitor's socket between two tasks:        *)
(*   tcp   process_tcp_stream: visitor -> control channel of the client    *)
(*   sink  neutun_stream: the stream's queue -> visitor                    *)
(* and enters the stream into ACTIVE_STREAMS, where the client's reader    *)
(* (process_client_messages) finds the queue of the stream an answer is    *)
(* for.  All streams here belong to one client.  How a client comes and    *)
(* goes is module ControlServer's; of it this module keeps what a stream   *)
(* can see, restricted by what is proved there.                            *)
(***************************************************************************)
EXTENDS Naturals, Sequences

CONSTANTS
    Streams,    \* streams (StreamIds)
    MaxReads,   \* bound on the chunks a visitor sends on one stream
    MaxReplies  \* bound on the answers of the client on one stream

ASSUME RemoteBounds == MaxReads \in Nat /\ MaxReplies \in Nat

VARIABLES
    registered, \* the client is in Connections.clients
    chanOpen,   \* its control channel is open
    reader,     \* its process_client_messages runs
    active,     \* the streams in ACTIVE_STREAMS
    tcp,        \* tcp[s]: where process_tcp_stream stands
    sink,       \* sink[s]: where neutun_stream stands
    queue,      \* queue[s]: StreamMessages waiting for neutun_stream
    queueOpen,  \* queueOpen[s]: the queue was not closed
    visitor,    \* visitor[s]: "open", "eof" (half-closed) or "gone"
    unread,     \* unread[s]: chunks sent by the visitor and not read yet
    sent,       \* sent[s]: kinds of the packets put in the control channel
    replied,    \* replied[s]: number of answers the reader has received
    page,       \* page[s]: what was written to the visitor
    shut        \* shut[s]: the visitor's socket was shut down for writing

client == <<registered, chanOpen, reader>>
socket == <<visitor, unread, page, shut>>
vars   == <<client, active, tcp, sink, queue, queueOpen, socket, sent, replied>>

\* StreamMessage; the n-th answer of the client carries n.
Message == [kind : {"data", "refused", "notfound"}, n : 0 .. MaxReplies]

PacketKind == {"init", "data", "end"}

NotFound == [kind |-> "notfound", n |-> 0]

TypeOK ==
    /\ registered \in BOOLEAN
    /\ chanOpen \in BOOLEAN
    /\ reader \in BOOLEAN
    /\ active \in SUBSET Streams
    /\ tcp \in [Streams -> {"off", "init", "check", "read", "close", "done"}]
    /\ sink \in [Streams -> {"off", "wait", "done"}]
    /\ queue \in [Streams -> Seq(Message)]
    /\ queueOpen \in [Streams -> BOOLEAN]
    /\ visitor \in [Streams -> {"open", "eof", "gone"}]
    /\ unread \in [Streams -> Nat]
    /\ sent \in [Streams -> Seq(PacketKind)]
    /\ replied \in [Streams -> 0 .. MaxReplies]
    /\ page \in [Streams -> Seq(Message)]
    /\ shut \in [Streams -> BOOLEAN]

Init ==
    /\ registered = TRUE
    /\ chanOpen = TRUE
    /\ reader = TRUE
    /\ active = {}
    /\ tcp = [s \in Streams |-> "off"]
    /\ sink = [s \in Streams |-> "off"]
    /\ queue = [s \in Streams |-> <<>>]
    /\ queueOpen = [s \in Streams |-> TRUE]
    /\ visitor = [s \in Streams |-> "open"]
    /\ unread = [s \in Streams |-> 0]
    /\ sent = [s \in Streams |-> <<>>]
    /\ replied = [s \in Streams |-> 0]
    /\ page = [s \in Streams |-> <<>>]
    /\ shut = [s \in Streams |-> FALSE]

(***************************************************************************)
(* The client, as a stream sees it, moves as module ClientLink says and    *)
(* ControlServer is proved to make it move: Connections::remove closes the *)
(* channel and then unregisters; a late pong registers a removed client    *)
(* again, but not after its reader has ended.                              *)
(***************************************************************************)

others == <<active, tcp, sink, queue, queueOpen, socket, sent, replied>>

ChannelClosed ==
    /\ chanOpen
    /\ chanOpen' = FALSE
    /\ UNCHANGED <<registered, reader, others>>

Unregistered ==
    /\ ~chanOpen /\ registered
    /\ registered' = FALSE
    /\ UNCHANGED <<chanOpen, reader, others>>

LatePong ==
    /\ reader /\ ~registered
    /\ registered' = TRUE
    /\ UNCHANGED <<chanOpen, reader, others>>

\* The reader's own remove comes last.
ReaderEnds ==
    /\ reader /\ ~chanOpen
    /\ reader' = FALSE
    /\ registered' = FALSE
    /\ UNCHANGED <<chanOpen, others>>

(***************************************************************************)
(* The visitor.                                                            *)
(***************************************************************************)

VisitorSends(s) ==
    /\ sink[s] # "off" /\ visitor[s] = "open"
    /\ Len(sent[s]) + unread[s] <= MaxReads
    /\ unread' = [unread EXCEPT ![s] = @ + 1]
    /\ UNCHANGED <<client, active, tcp, sink, queue, queueOpen, visitor, page,
                   shut, sent, replied>>

VisitorLeaves(s, how) ==
    /\ sink[s] # "off"
    /\ visitor[s] = "open" \/ (visitor[s] = "eof" /\ how = "gone")
    /\ visitor' = [visitor EXCEPT ![s] = how]
    /\ UNCHANGED <<client, active, tcp, sink, queue, queueOpen, unread, page,
                   shut, sent, replied>>

(***************************************************************************)
(* accept_connection, once it has found the client: the request has been   *)
(* peeked at, so there is something to read.                               *)
(***************************************************************************)

\* Mutant: the tasks are spawned and ACTIVE_STREAMS is not told.
AcceptUnlisted(s) ==
    /\ sink[s] = "off"
    /\ tcp' = [tcp EXCEPT ![s] = "init"]
    /\ sink' = [sink EXCEPT ![s] = "wait"]
    /\ unread' = [unread EXCEPT ![s] = 1]
    /\ UNCHANGED <<client, active, queue, queueOpen, visitor, page, shut, sent,
                   replied>>

Accept(s) ==
    /\ sink[s] = "off"
    /\ active' = active \cup {s}
    /\ tcp' = [tcp EXCEPT ![s] = "init"]
    /\ sink' = [sink EXCEPT ![s] = "wait"]
    /\ unread' = [unread EXCEPT ![s] = 1]
    /\ UNCHANGED <<client, queue, queueOpen, visitor, page, shut, sent, replied>>

(***************************************************************************)
(* process_tcp_stream.                                                     *)
(***************************************************************************)

\* A packet goes into the control channel, or the client is removed.
SendOrRemove(s, p) ==
    IF chanOpen
       THEN sent' = [sent EXCEPT ![s] = Append(@, p)] /\ UNCHANGED registered
       ELSE registered' = FALSE /\ UNCHANGED sent

\* Mutant: the stream goes to work without its Init.
SkipInit(s) ==
    /\ tcp[s] = "init"
    /\ tcp' = [tcp EXCEPT ![s] = "check"]
    /\ UNCHANGED <<client, active, sink, queue, queueOpen, socket, sent, replied>>

\* send_client_stream_init.
SendInit(s) ==
    /\ tcp[s] = "init"
    /\ SendOrRemove(s, "init")
    /\ tcp' = [tcp EXCEPT ![s] = "check"]
    /\ UNCHANGED <<chanOpen, reader, active, sink, queue, queueOpen, socket,
                   replied>>

\* Mutant: a stream whose client is gone is left without a word.
LeaveSilently(s) ==
    /\ tcp[s] = "check"
    /\ tcp' = [tcp EXCEPT ![s] = IF registered THEN "read" ELSE "done"]
    /\ UNCHANGED <<client, active, sink, queue, queueOpen, socket, sent, replied>>

\* The client is looked up before every read; without it the sink is told,
\* and only then, in a step of its own, is the queue closed: answers that the
\* reader still forwards may come between.
CheckClient(s) ==
    /\ tcp[s] = "check"
    /\ IF registered
          THEN /\ tcp' = [tcp EXCEPT ![s] = "read"]
               /\ UNCHANGED queue
          ELSE /\ tcp' = [tcp EXCEPT ![s] = "close"]
               /\ queue' = IF sink[s] = "wait"
                              THEN [queue EXCEPT ![s] = Append(@, NotFound)]
                              ELSE queue
    /\ UNCHANGED <<client, active, sink, queueOpen, socket, sent, replied>>

CloseQueue(s) ==
    /\ tcp[s] = "close"
    /\ queueOpen' = [queueOpen EXCEPT ![s] = FALSE]
    /\ tcp' = [tcp EXCEPT ![s] = "done"]
    /\ UNCHANGED <<client, active, sink, queue, socket, sent, replied>>

ReadData(s) ==
    /\ tcp[s] = "read"
    /\ unread[s] > 0
    /\ unread' = [unread EXCEPT ![s] = @ - 1]
    /\ SendOrRemove(s, "data")
    /\ tcp' = [tcp EXCEPT ![s] = "check"]
    /\ UNCHANGED <<chanOpen, reader, active, sink, queue, queueOpen, visitor,
                   page, shut, replied>>

\* Mutant: a visitor that has closed its side is taken to have left.
ReadEofForgets(s) ==
    /\ tcp[s] = "read"
    /\ unread[s] = 0
    /\ visitor[s] # "open"
    /\ sent' = IF chanOpen THEN [sent EXCEPT ![s] = Append(@, "end")] ELSE sent
    /\ tcp' = [tcp EXCEPT ![s] = "done"]
    /\ active' = active \ {s}
    /\ UNCHANGED <<client, sink, queue, queueOpen, socket, replied>>

\* read returns 0: the client is told, the sink and ACTIVE_STREAMS are not.
ReadEof(s) ==
    /\ tcp[s] = "read"
    /\ unread[s] = 0
    /\ visitor[s] # "open"
    /\ sent' = IF chanOpen THEN [sent EXCEPT ![s] = Append(@, "end")] ELSE sent
    /\ tcp' = [tcp EXCEPT ![s] = "done"]
    /\ UNCHANGED <<client, active, sink, queue, queueOpen, socket, replied>>

\* read fails: nobody is told.
ReadFails(s) ==
    /\ tcp[s] = "read"
    /\ visitor[s] = "gone"
    /\ tcp' = [tcp EXCEPT ![s] = "done"]
    /\ UNCHANGED <<client, active, sink, queue, queueOpen, socket, sent, replied>>

(***************************************************************************)
(* process_client_messages: an answer of the client.  A client answers a   *)
(* stream it was told of, with data, or with a refusal for every failed    *)
(* attempt to reach the local service.                                     *)
(***************************************************************************)

Told(s) == sent[s] # <<>>

\* Mutant: the answer of a stream overtakes what is queued.
ForwardFirst(s, k) ==
    /\ reader
    /\ Told(s)
    /\ replied[s] < MaxReplies
    /\ replied' = [replied EXCEPT ![s] = @ + 1]
    /\ queue' = IF s \in active /\ sink[s] = "wait" /\ queueOpen[s]
                   THEN [queue EXCEPT ![s] =
                           <<[kind |-> k, n |-> replied[s] + 1]>> \o @]
                   ELSE queue
    /\ UNCHANGED <<client, active, tcp, sink, queueOpen, socket, sent>>

\* An answer for a stream without an entry, or whose sink has ended, is
\* dropped.
Forward(s, k) ==
    /\ reader
    /\ Told(s)
    /\ replied[s] < MaxReplies
    /\ replied' = [replied EXCEPT ![s] = @ + 1]
    /\ queue' = IF s \in active /\ sink[s] = "wait" /\ queueOpen[s]
                   THEN [queue EXCEPT ![s] =
                           Append(@, [kind |-> k, n |-> replied[s] + 1])]
                   ELSE queue
    /\ UNCHANGED <<client, active, tcp, sink, queueOpen, socket, sent>>

(***************************************************************************)
(* neutun_stream.                                                          *)
(***************************************************************************)

WriteData(s) ==
    /\ sink[s] = "wait"
    /\ queue[s] # <<>> /\ Head(queue[s]).kind = "data"
    /\ queue' = [queue EXCEPT ![s] = Tail(@)]
    /\ page' = [page EXCEPT ![s] = Append(@, Head(queue[s]))]
    /\ UNCHANGED <<client, active, tcp, sink, queueOpen, visitor, unread, shut,
                   sent, replied>>

\* "stream closed, disconnecting": the task returns, the entry stays.
WriteFails(s) ==
    /\ sink[s] = "wait"
    /\ queue[s] # <<>> /\ Head(queue[s]).kind = "data"
    /\ visitor[s] = "gone"
    /\ queue' = [queue EXCEPT ![s] = <<>>]
    /\ sink' = [sink EXCEPT ![s] = "done"]
    /\ UNCHANGED <<client, active, tcp, queueOpen, socket, sent, replied>>

\* Mutant: the socket is not shut down.
FinishHalf(s) ==
    /\ sink' = [sink EXCEPT ![s] = "done"]
    /\ active' = active \ {s}
    /\ queue' = [queue EXCEPT ![s] = <<>>]
    /\ UNCHANGED shut

\* Shut the socket down, forget the stream, drop the queue.
Finish(s) ==
    /\ sink' = [sink EXCEPT ![s] = "done"]
    /\ shut' = [shut EXCEPT ![s] = TRUE]
    /\ active' = active \ {s}
    /\ queue' = [queue EXCEPT ![s] = <<>>]

\* Mutant: the error page is written and the loop goes on.
ErrorPageOnly(s) ==
    /\ sink[s] = "wait"
    /\ queue[s] # <<>> /\ Head(queue[s]).kind # "data"
    /\ page' = [page EXCEPT ![s] = Append(@, Head(queue[s]))]
    /\ queue' = [queue EXCEPT ![s] = Tail(@)]
    /\ UNCHANGED <<client, active, tcp, sink, queueOpen, visitor, unread, shut,
                   sent, replied>>

\* A refusal or the loss of the client: an error page ends the stream.  These
\* are the only ends of the loop that reach the common exit: the queue is
\* closed only when a NotFound is in it (ClosedQueueSpeaks), and ACTIVE_STREAMS holds
\* a sender, so the queue never just runs dry.
ErrorPage(s) ==
    /\ sink[s] = "wait"
    /\ queue[s] # <<>> /\ Head(queue[s]).kind # "data"
    /\ page' = [page EXCEPT ![s] = Append(@, Head(queue[s]))]
    /\ Finish(s)
    /\ UNCHANGED <<client, tcp, queueOpen, visitor, unread, sent, replied>>

Next ==
    \/ ChannelClosed \/ Unregistered \/ LatePong \/ ReaderEnds
    \/ \E s \in Streams :
          \/ VisitorSends(s)
          \/ \E how \in {"eof", "gone"} : VisitorLeaves(s, how)
          \/ Accept(s)
          \/ SendInit(s) \/ CheckClient(s) \/ CloseQueue(s)
          \/ ReadData(s) \/ ReadEof(s) \/ ReadFails(s)
          \/ \E k \in {"data", "refused"} : Forward(s, k)
          \/ WriteData(s) \/ WriteFails(s) \/ ErrorPage(s)

Spec == Init /\ [][Next]_vars

TcpTask(s)  == SendInit(s) \/ CheckClient(s) \/ CloseQueue(s) \/ ReadData(s)
                           \/ ReadEof(s) \/ ReadFails(s)
SinkTask(s) == WriteData(s) \/ WriteFails(s) \/ ErrorPage(s)

\* The runtime polls every task that can go on, and a client whose channel is
\* closed is removed for good (ControlServer: Reclaimed).  Of the visitor it is
\* assumed that it takes what is written to it as long as it stays: the sink
\* waits in write_all (remote.rs:326 and 347) for as long as the visitor's
\* buffers are full.  When the visitor sends, half-closes or goes, what the
\* client answers and when it goes is left open.
Fairness ==
    /\ WF_vars(ReaderEnds)
    /\ \A s \in Streams : WF_vars(TcpTask(s)) /\ WF_vars(SinkTask(s))

FairSpec == Spec /\ Fairness

(***************************************************************************)
(* Properties.                                                             *)
(***************************************************************************)

\* The client is told of a stream before it gets data of it, and of its end
\* at most once and last; what is sent stops when the channel is closed and
\* never resumes.
ProtocolOrder ==
    \A s \in Streams : \A i \in 1 .. Len(sent[s]) :
        /\ sent[s][i] = "init" <=> i = 1
        /\ sent[s][i] = "end" => i = Len(sent[s]) /\ tcp[s] = "done"

\* What the visitor gets of the client's answers is gapless and in order.
Gapless ==
    \A s \in Streams : \A i \in 1 .. Len(page[s]) :
        page[s][i].n = i \/ page[s][i] = NotFound

\* An error page is the last thing a visitor gets, and the socket is shut
\* behind it: a second refusal, or the loss of the client while a refusal is
\* queued, adds nothing.
ErrorPageEnds ==
    \A s \in Streams : \A i \in 1 .. Len(page[s]) :
        page[s][i].kind # "data" => i = Len(page[s]) /\ shut[s]

\* A queue that process_tcp_stream has closed still holds the message that
\* ends the stream with a page: the visitor is never just hung up on.
ClosedQueueSpeaks ==
    \A s \in Streams :
        ~queueOpen[s] /\ sink[s] = "wait" =>
            \E i \in 1 .. Len(queue[s]) : queue[s][i] = NotFound

\* No answer is dropped while there is somebody to write it: a stream whose
\* sink waits keeps its entry in ACTIVE_STREAMS, whatever the visitor does with
\* its own side, and until the loss of the client is announced every answer the
\* reader has received for it is written or queued.
AnswersKept ==
    \A s \in Streams :
        sink[s] = "wait" =>
            /\ s \in active
            /\ \/ replied[s] = Len(page[s]) + Len(queue[s])
               \/ \E i \in 1 .. Len(queue[s]) : queue[s][i] = NotFound

\* A visitor whose client is gone and who has something more to say is told
\* that there is no tunnel, unless it leaves.
NextRequestAnswered ==
    \A s \in Streams :
        ~reader /\ tcp[s] \in {"init", "check", "read"} /\ unread[s] > 0
            ~> sink[s] = "done" \/ visitor[s] # "open"

\* A refusal, once forwarded, reaches the visitor or finds it gone.
RefusalReachesVisitor ==
    \A s \in Streams :
        (\E i \in 1 .. Len(queue[s]) : queue[s][i].kind # "data")
            ~> sink[s] = "done"

(* A statement of the repository that the code does not keep. *)

\* remote.rs, process_tcp_stream: "client is no longer connected", "client
\* disconnected, closing stream".  A stream whose client is gone is closed.
ClientLossClosesStream ==
    \A s \in Streams : s \in active /\ ~reader ~> s \notin active

(***************************************************************************)
(* The inductive invariant behind the safety properties, for one stream.   *)
(***************************************************************************)

Packets(s) == 1 .. Len(sent[s])
Queued(s)  == 1 .. Len(queue[s])
Pages(s)   == 1 .. Len(page[s])

\* Nothing happens to a stream before it is accepted, and it is entered into
\* ACTIVE_STREAMS before its tasks run.
NotAccepted(s) ==
    /\ sink[s] = "off" => /\ tcp[s] = "off" /\ sent[s] = <<>>
                          /\ queue[s] = <<>> /\ queueOpen[s]
                          /\ page[s] = <<>> /\ replied[s] = 0 /\ ~shut[s]
    /\ sink[s] = "wait" => s \in active /\ ~shut[s]

\* What process_tcp_stream has put into the control channel.
SentSoFar(s) ==
    /\ tcp[s] \in {"off", "init"} => sent[s] = <<>>
    /\ tcp[s] \in {"check", "read"} => sent[s] # <<>> \/ ~chanOpen
    /\ \A i \in Packets(s) :
          /\ sent[s][i] = "init" <=> i = 1
          /\ sent[s][i] = "end" => i = Len(sent[s]) /\ tcp[s] = "done"

\* A NotFound is queued that the sink has not come to yet.
Announced(s) == \E i \in Queued(s) : queue[s][i] = NotFound

\* The queue is closed only by process_tcp_stream, and after a NotFound.
Closing(s) ==
    /\ ~queueOpen[s] => tcp[s] = "done"
    /\ (tcp[s] = "close" \/ ~queueOpen[s]) /\ sink[s] = "wait" => Announced(s)

\* While the sink waits, page and queue together hold the client's answers
\* in order, up to the first NotFound, and only data has been written.
InOrder(s) ==
    /\ sink[s] = "wait" =>
          /\ \A i \in Pages(s) : page[s][i].kind = "data" /\ page[s][i].n = i
          /\ \A i \in Queued(s) :
                \/ queue[s][i] = NotFound
                \/ queue[s][i].n = Len(page[s]) + i
                \/ \E j \in Queued(s) : j < i /\ queue[s][j] = NotFound
          /\ replied[s] = Len(page[s]) + Len(queue[s]) \/ Announced(s)
    /\ \A i \in Pages(s) :
          /\ page[s][i] = NotFound \/ page[s][i].n = i
          /\ page[s][i].kind # "data" => i = Len(page[s]) /\ shut[s]

StreamInv(s) ==
    NotAccepted(s) /\ SentSoFar(s) /\ Closing(s) /\ InOrder(s)

IInv == TypeOK /\ \A s \in Streams : StreamInv(s)
=============================================================================
