---------------------------- MODULE TunnelProofs ----------------------------
(***************************************************************************)
(* Proofs about Tunnel: the invariant IInv, that every packet finds a      *)
(* reader that can use it, that the two sides and the websocket together   *)
(* implement Pipes, and that each side is a behaviour of its own module.   *)
(*                                                                         *)
(* The steps of one side keep that side's invariant by the theorems of     *)
(* RemoteStreamProofs and ClientProofs; what is proved here is what lies   *)
(* between the two.                                                        *)
(***************************************************************************)
EXTENDS Tunnel, TLAPS

RP == INSTANCE RemoteStreamProofs WITH queue <- squeue, MaxReplies <- MaxAnswers
CP == INSTANCE ClientProofs WITH MaxEras <- 1, MaxPackets <- 0
PP == INSTANCE PacketProofs

-----------------------------------------------------------------------------
(* The two sides, and the codec, by the names that their proofs give them.   *)

\* What the assumption says of the bounds of the two sides.
LEMMA Bounds ==
    /\ MaxReads \in Nat /\ MaxConns \in Nat \ {0} /\ MaxReplies \in Nat
    /\ MaxChunks \in Nat /\ MaxAnswers \in Nat
<1>1. MaxReads \in Nat /\ MaxConns \in Nat /\ MaxReplies \in Nat
  BY TunnelBounds
<1>2. MaxConns * MaxReplies \in Nat
  BY <1>1
<1> QED
  BY <1>1, <1>2, TunnelBounds DEF MaxChunks, MaxAnswers

\* The server's side, as RemoteStreamProofs knows it.
LEMMA ServerNames == (R!IInv <=> RP!IInv) /\ (R!Next <=> RP!Next)
                     /\ (R!Init <=> RP!Init) /\ R!vars = RP!vars
<1>1. R!IInv <=> RP!IInv
  BY DEF R!Message, RP!Message, R!PacketKind, RP!PacketKind, R!NotFound,
     RP!NotFound, R!TypeOK, RP!TypeOK, R!Packets, RP!Packets, R!Queued,
     RP!Queued, R!Pages, RP!Pages, R!NotAccepted, RP!NotAccepted, R!SentSoFar,
     RP!SentSoFar, R!Closing, RP!Closing, R!InOrder, RP!InOrder, R!Announced,
     RP!Announced, R!StreamInv, RP!StreamInv, R!IInv, RP!IInv
<1>2. R!Next <=> RP!Next
  BY DEF R!client, RP!client, R!socket, RP!socket, R!vars, RP!vars, R!others,
     RP!others, R!NotFound, RP!NotFound, R!ChannelClosed, RP!ChannelClosed,
     R!Unregistered, RP!Unregistered, R!LatePong, RP!LatePong, R!ReaderEnds,
     RP!ReaderEnds, R!VisitorSends, RP!VisitorSends, R!VisitorLeaves,
     RP!VisitorLeaves, R!Accept, RP!Accept, R!SendOrRemove, RP!SendOrRemove,
     R!SendInit, RP!SendInit, R!CheckClient, RP!CheckClient, R!CloseQueue,
     RP!CloseQueue, R!ReadData,
     RP!ReadData, R!ReadEof, RP!ReadEof, R!ReadFails, RP!ReadFails, R!Told,
     RP!Told, R!Forward, RP!Forward, R!WriteData, RP!WriteData, R!WriteFails,
     RP!WriteFails, R!Finish, RP!Finish, R!ErrorPage, RP!ErrorPage, R!Next,
     RP!Next
<1>3. R!Init <=> RP!Init
  BY DEF R!Init, RP!Init
<1>4. R!vars = RP!vars
  BY DEF R!vars, RP!vars, R!client, RP!client, R!socket, RP!socket
<1> QED
  BY <1>1, <1>2, <1>3, <1>4

\* The client's side, as ClientProofs knows it.
LEMMA ClientNames == (C!IInv <=> CP!IInv) /\ (C!Next <=> CP!Next)
                     /\ (C!Init <=> CP!Init) /\ C!vars = CP!vars
<1>1. C!IInv <=> CP!IInv
  BY DEF C!Eras, CP!Eras, C!Locals, CP!Locals, C!Close, CP!Close, C!Refused,
     CP!Refused, C!Record, CP!Record, C!Records, CP!Records, C!TypeOK,
     CP!TypeOK, C!Busy, CP!Busy, C!Handled, CP!Handled, C!LoopInv, CP!LoopInv,
     C!Entered, CP!Entered, C!Tasks, CP!Tasks, C!Recorded, CP!Recorded,
     C!RunFrom, CP!RunFrom, C!Numbers, CP!Numbers, C!Closing, CP!Closing,
     C!ClosesLast, CP!ClosesLast, C!UpToDate, CP!UpToDate, C!Chunks, CP!Chunks,
     C!Given, CP!Given, C!Earlier, CP!Earlier, C!StreamInv, CP!StreamInv,
     C!IInv, CP!IInv
<1>2. C!Next <=> CP!Next
  BY DEF C!Eras, CP!Eras, C!Locals, CP!Locals, C!loop, CP!loop, C!wire,
     CP!wire, C!server, CP!server, C!conns, CP!conns, C!ending, CP!ending,
     C!vars, CP!vars, C!Close, CP!Close, C!Refused, CP!Refused, C!Record,
     CP!Record, C!DialSucceeds, CP!DialSucceeds, C!DialFails, CP!DialFails,
     C!DialRefused, CP!DialRefused, C!Slept, CP!Slept, C!ReaderEnds,
     CP!ReaderEnds, C!Restart, CP!Restart, C!Lost, CP!Lost, C!TcpTimeout,
     CP!TcpTimeout, C!WriterSend, CP!WriterSend, C!WriterFails, CP!WriterFails,
     C!WriterEnds, CP!WriterEnds, C!Put, CP!Put, C!Reading, CP!Reading, C!Ping,
     CP!Ping, C!InitStream, CP!InitStream, C!End, CP!End, C!Data, CP!Data,
     C!Look, CP!Look, C!Connect, CP!Connect, C!ConnectFails, CP!ConnectFails,
     C!Insert, CP!Insert, C!Found, CP!Found, C!Deliver, CP!Deliver, C!Refuse,
     CP!Refuse, C!SendFails, CP!SendFails, C!LocalCloses, CP!LocalCloses,
     C!LocalResets, CP!LocalResets, C!SourceSends, CP!SourceSends,
     C!SourcePanics, CP!SourcePanics, C!SourceEnds, CP!SourceEnds, C!FwdWrites,
     CP!FwdWrites, C!FwdPanics, CP!FwdPanics, C!FwdCloses, CP!FwdCloses,
     C!Collect, CP!Collect, C!EndLooks, CP!EndLooks, C!EndCloses, CP!EndCloses,
     C!EndForgets, CP!EndForgets, C!Loop, CP!Loop, C!Packet, CP!Packet,
     C!Writer, CP!Writer, C!Source, CP!Source, C!Fwd, CP!Fwd, C!Ender,
     CP!Ender, C!Next, CP!Next
<1>3. C!Init <=> CP!Init
  BY DEF C!Init, CP!Init, C!Eras, CP!Eras, C!Locals, CP!Locals, C!Record,
     CP!Record
<1>4. C!vars = CP!vars
  BY DEF C!vars, CP!vars, C!loop, CP!loop, C!wire, CP!wire, C!server, CP!server,
     C!conns, CP!conns, C!ending, CP!ending
<1> QED
  BY <1>1, <1>2, <1>3, <1>4

\* Each side starts in its invariant, and its steps keep it.
LEMMA SidesStart == (R!Init => R!IInv) /\ (C!Init => C!IInv)
<1>1. RP!Init => RP!IInv
  BY Bounds, RP!InitIInv DEF RP!InitIInv
<1>2. CP!Init => CP!IInv
  BY Bounds, CP!InitIInv DEF CP!InitIInv
<1> QED
  BY <1>1, <1>2, ServerNames, ClientNames

\* A step of the server, or none, keeps its invariant.
LEMMA ServerStep == R!IInv /\ [R!Next]_R!vars => R!IInv'
<1>1. RP!IInv /\ [RP!Next]_RP!vars => RP!IInv'
  BY Bounds, RP!IInvStep DEF RP!IInvStep
<1>2. R!IInv' <=> RP!IInv'
  BY ServerNames, PTL
<1>3. R!vars' = RP!vars'
  BY DEF R!vars, RP!vars, R!client, RP!client, R!socket, RP!socket
<1> QED
  BY <1>1, <1>2, <1>3, ServerNames

\* A step of the client, or none, keeps its invariant.
LEMMA ClientStep == C!IInv /\ [C!Next]_C!vars => C!IInv'
<1>1. CP!IInv /\ [CP!Next]_CP!vars => CP!IInv'
  BY Bounds, CP!StepIInv DEF CP!StepIInv
<1>2. C!IInv' <=> CP!IInv'
  BY ClientNames, PTL
<1>3. C!vars' = CP!vars'
  BY DEF C!vars, CP!vars, C!loop, CP!loop, C!wire, CP!wire, C!server, CP!server,
     C!conns, CP!conns, C!ending, CP!ending
<1> QED
  BY <1>1, <1>2, <1>3, ClientNames

\* A packet is read as it was written.
LEMMA AsWritten ==
    /\ \A k \in {"init", "refused", "end"} :
          P!deserialize(P!serialize(P!Packet(k, Id, <<>>)))
              = P!Packet(k, Id, <<>>)
    /\ \A n \in Nat :
          P!deserialize(P!serialize(P!Packet("data", Id, <<n>>)))
              = P!Packet("data", Id, <<n>>)
<1>1. Id \in PP!StreamId /\ PP!Byte \subseteq Nat
  BY DEF Id, PP!StreamId, PP!Byte
<1>2. <<>> \in Seq(Nat) /\ \A n \in Nat : <<n>> \in Seq(Nat)
  OBVIOUS
<1>3. \A d \in Seq(Nat) :
         /\ \A k \in {"init", "refused", "end"} :
               PP!deserialize(PP!serialize(PP!Packet(k, Id, d)))
                   = PP!Packet(k, Id, <<>>)
         /\ PP!deserialize(PP!serialize(PP!Packet("data", Id, d)))
               = PP!Packet("data", Id, d)
  BY <1>1, PP!RoundTrip DEF PP!RoundTrip
<1>4. /\ \A k, i, d : P!Packet(k, i, d) = PP!Packet(k, i, d)
      /\ \A p : P!serialize(p) = PP!serialize(p)
  BY DEF P!Packet, PP!Packet, P!serialize, PP!serialize, P!Code, PP!Code
<1>5. \A b : P!deserialize(b) = PP!deserialize(b)
  BY DEF P!deserialize, PP!deserialize, P!Packet, PP!Packet, P!Invalid, PP!Invalid,
     P!EMPTY_STREAM, PP!EMPTY_STREAM, P!TOKEN_STREAM, PP!TOKEN_STREAM, P!Ping,
     PP!Ping, P!PingWith, PP!PingWith, P!Kinds, PP!Kinds, P!Code, PP!Code
<1> QED
  BY <1>2, <1>3, <1>4, <1>5, Zenon

Acts ==
    \/ R!Accept(Stream) \/ R!VisitorSends(Stream)
    \/ \E how \in {"eof", "gone"} : R!VisitorLeaves(Stream, how)
    \/ R!TcpTask(Stream) \/ R!SinkTask(Stream)
    \/ R!ChannelClosed \/ R!Unregistered \/ R!ReaderEnds

Works ==
    /\ tunnel # "exited"
    /\ \/ C!DialSucceeds \/ C!Packet \/ C!Ender(Stream)
       \/ \E c \in Locals :
             C!LocalCloses(c) \/ C!LocalResets(c) \/ C!Source(c) \/ C!Fwd(c)

\* A step is one of the server, one of the client, or one of the websocket.
LEMMA NextCases ==
  ASSUME Next
  PROVE  \/ Acts /\ UNCHANGED <<client, down, up>>
         \/ Works /\ UNCHANGED <<server, down, up>>
         \/ Relay \/ ClientReads \/ ClientWrites \/ ServerReads \/ Stopped
BY DEF Next, Acts, Works, Server, Client, Visitor, Notices

\* A side that does not move.
LEMMA SameNames ==
    /\ UNCHANGED server <=> UNCHANGED R!vars
    /\ UNCHANGED client <=> UNCHANGED C!vars
BY DEF server, R!vars, R!client, R!socket, client, C!vars, C!loop, C!wire,
   C!server, C!conns, C!ending

\* What the server does here it does in RemoteStream.
LEMMA ActsAreSteps == Acts => R!Next
<1>1. Stream \in Streams
  BY DEF Streams
<1> QED
  BY <1>1, Zenon DEF Acts, R!Next, R!TcpTask, R!SinkTask

\* What the client does here it does in Client.
LEMMA WorksAreSteps == Works => C!Next
<1>1. Stream \in Streams /\ Locals = C!Locals
  BY DEF Streams, Locals, C!Locals
<1> QED
  BY <1>1, Zenon DEF Works, C!Next, C!Loop

\* What the parts of the invariant say of the shape of the state.
LEMMA Shape ==
  ASSUME R!IInv, C!IInv
  PROVE  /\ Stream \in Streams /\ cur = Stream
         /\ sent \in [Streams -> Seq({"init", "data", "end"})]
         /\ sent[Stream] \in Seq({"init", "data", "end"})
         /\ Len(sent[Stream]) \in Nat
         /\ squeue \in [Streams -> Seq(R!Message)]
         /\ squeue[Stream] \in Seq(R!Message)
         /\ page \in [Streams -> Seq(R!Message)]
         /\ page[Stream] \in Seq(R!Message)
         /\ replied[Stream] \in Nat
         /\ out \in [Streams -> Seq(0 .. MaxConns)]
         /\ out[Stream] \in Seq(0 .. MaxConns)
         /\ Len(out[Stream]) \in Nat
         /\ channel \in [{1} -> Nat] /\ channel[1] \in Nat
         /\ era \in {0, 1}
         /\ phase \in [Streams -> {"new", "told", "ended"}]
         /\ phase[Stream] \in {"new", "told", "ended"}
         /\ got \in [Streams -> Nat] /\ got[Stream] \in Nat /\ Read \in Nat
         /\ made \in [Streams -> 0 .. MaxConns]
         /\ made[Stream] \in 0 .. MaxConns
<1>1. Stream \in Streams /\ 0 .. 1 = {0, 1} /\ 1 .. 1 = {1}
  BY DEF Streams
<1>2. /\ sent \in [Streams -> Seq({"init", "data", "end"})]
      /\ squeue \in [Streams -> Seq(R!Message)]
      /\ page \in [Streams -> Seq(R!Message)]
      /\ replied \in [Streams -> 0 .. MaxAnswers]
  BY DEF R!IInv, R!TypeOK, R!PacketKind
<1>3. /\ out \in [Streams -> Seq(0 .. MaxConns)]
      /\ channel \in [{1} -> Nat]
      /\ era \in {0, 1}
      /\ phase \in [Streams -> {"new", "told", "ended"}]
      /\ got \in [Streams -> 0 .. MaxChunks]
      /\ made \in [Streams -> 0 .. MaxConns]
      /\ cur \in Streams
  BY <1>1 DEF C!IInv, C!TypeOK, C!Eras
<1>4. cur = Stream
  BY <1>3 DEF Streams
<1>5. /\ Len(sent[Stream]) \in Nat /\ Len(out[Stream]) \in Nat
      /\ replied[Stream] \in Nat /\ got[Stream] \in Nat /\ channel[1] \in Nat
  <2>1. sent[Stream] \in Seq({"init", "data", "end"})
        /\ out[Stream] \in Seq(0 .. MaxConns)
    BY <1>1, <1>2, <1>3
  <2>2. replied[Stream] \in 0 .. MaxAnswers /\ got[Stream] \in 0 .. MaxChunks
        /\ channel[1] \in Nat
    BY <1>1, <1>2, <1>3
  <2> QED
    BY <2>1, <2>2, Bounds
<1>6. got \in [Streams -> Nat]
  BY <1>3, Bounds
<1>7. Read \in Nat
  BY <1>1, <1>3, <1>5 DEF Read
<1> QED
  BY <1>1, <1>2, <1>3, <1>4, <1>5, <1>6, <1>7
-----------------------------------------------------------------------------
(* What the steps of the server do to what the client and the visitor see.   *)

\* A packet goes down the control channel.
Sends ==
    /\ \E p \in {"init", "data", "end"} :
          /\ sent' = [sent EXCEPT ![Stream] = Append(@, p)]
          /\ IF p = "init" THEN tcp[Stream] = "init" ELSE tcp[Stream] = "read"
    /\ chanOpen
    /\ UNCHANGED <<squeue, page, replied>>

\* The sink writes the next message of its queue.
Shows ==
    /\ sink[Stream] = "wait" /\ squeue[Stream] # <<>>
    /\ page' = [page EXCEPT ![Stream] = Append(@, Head(squeue[Stream]))]
    /\ \/ squeue' = [squeue EXCEPT ![Stream] = Tail(@)]
       \/ squeue' = [squeue EXCEPT ![Stream] = <<>>]
    /\ UNCHANGED <<sent, replied>>

\* The loss of the client is announced, or the queue is dropped.
Queues ==
    /\ \/ squeue' = [squeue EXCEPT ![Stream] = Append(@, R!NotFound)]
       \/ squeue' = [squeue EXCEPT ![Stream] = <<>>]
    /\ UNCHANGED <<sent, page, replied>>

\* A step of the server is one of these, or leaves all of this alone.
LEMMA ActCases ==
  ASSUME Acts
  PROVE  \/ Sends \/ Shows \/ Queues
         \/ UNCHANGED <<sent, squeue, page, replied>>
<1>1. CASE R!SendInit(Stream)
  BY <1>1 DEF R!SendInit, R!SendOrRemove, R!socket, Sends
<1>2. CASE R!CheckClient(Stream)
  BY <1>2 DEF R!CheckClient, R!socket, Queues
<1>12. CASE R!CloseQueue(Stream)
  BY <1>12 DEF R!CloseQueue, R!socket
<1>3. CASE R!ReadData(Stream)
  BY <1>3 DEF R!ReadData, R!SendOrRemove, Sends
<1>4. CASE R!ReadEof(Stream)
  BY <1>4 DEF R!ReadEof, R!socket, Sends
<1>5. CASE R!WriteData(Stream)
  BY <1>5 DEF R!WriteData, Shows
<1>6. CASE R!WriteFails(Stream)
  BY <1>6 DEF R!WriteFails, R!socket, Queues
<1>7. CASE R!ErrorPage(Stream)
  BY <1>7 DEF R!ErrorPage, R!Finish, Shows
<1>8. CASE R!ReadFails(Stream)
  BY <1>8 DEF R!ReadFails, R!socket
<1>9. CASE R!Accept(Stream) \/ R!VisitorSends(Stream)
  BY <1>9 DEF R!Accept, R!VisitorSends
<1>10. CASE \E how \in {"eof", "gone"} : R!VisitorLeaves(Stream, how)
  BY <1>10 DEF R!VisitorLeaves
<1>11. CASE R!ChannelClosed \/ R!Unregistered \/ R!ReaderEnds
  BY <1>11 DEF R!ChannelClosed, R!Unregistered, R!ReaderEnds, R!others, R!socket
<1> QED
  BY <1>1, <1>2, <1>3, <1>4, <1>5, <1>6, <1>7, <1>8, <1>9, <1>10, <1>11,
     <1>12
  DEF Acts, R!TcpTask, R!SinkTask

\* What has been sent stays.
LEMMA SentStays ==
  ASSUME R!IInv, C!IInv, Acts
  PROVE  /\ Len(sent[Stream]) <= Len(sent'[Stream])
         /\ \A i \in 1 .. Len(sent[Stream]) : sent'[Stream][i] = sent[Stream][i]
         /\ replied' = replied
<1>1. CASE Sends
  <2>1. PICK p \in {"init", "data", "end"} :
           sent' = [sent EXCEPT ![Stream] = Append(@, p)]
    BY <1>1 DEF Sends
  <2>2. sent'[Stream] = Append(sent[Stream], p)
    BY <2>1, Shape
  <2> QED
    BY <1>1, <2>2, Shape DEF Sends
<1> QED
  BY <1>1, ActCases, Shape DEF Shows, Queues

\* A server that goes on says nothing new about what the client has answered.
LEMMA AnswersKept ==
  ASSUME R!IInv, C!IInv, Answers, Acts, UNCHANGED <<out, replied>>
  PROVE  Answers'
<1> DEFINE Told(q) == \A i \in 1 .. Len(q) : Honest(q[i])
<1>1. Told(squeue[Stream]) /\ Told(page[Stream])
  BY DEF Answers
<1>2. \A m : Honest(m)' <=> Honest(m)
  BY DEF Honest
<1>3. Honest(R!NotFound)
  BY DEF Honest
<1>4. R!NotFound \in R!Message
  BY Bounds DEF R!NotFound, R!Message
<1>5. ASSUME NEW q \in Seq(R!Message), NEW m, Told(q), Honest(m)
      PROVE  Told(Append(q, m))
  BY <1>5
<1>6. Told(squeue'[Stream]) /\ Told(page'[Stream])
  <2>1. CASE Shows
    <3>1. /\ squeue[Stream] # <<>> /\ squeue[Stream] \in Seq(R!Message)
          /\ page[Stream] \in Seq(R!Message)
      BY <2>1, Shape DEF Shows
    <3>2. /\ Head(squeue[Stream]) = squeue[Stream][1]
          /\ 1 \in 1 .. Len(squeue[Stream])
      BY <3>1
    <3>3. Honest(Head(squeue[Stream]))
      BY <1>1, <3>2
    <3>4. page'[Stream] = Append(page[Stream], Head(squeue[Stream]))
      BY <2>1, Shape DEF Shows
    <3>5. Told(page'[Stream])
      BY <1>1, <1>5, <3>1, <3>3, <3>4
    <3>6. CASE squeue' = [squeue EXCEPT ![Stream] = Tail(@)]
      <4>1. squeue'[Stream] = Tail(squeue[Stream])
        BY <3>6, Shape
      <4>2. \A i \in 1 .. Len(Tail(squeue[Stream])) :
               /\ Tail(squeue[Stream])[i] = squeue[Stream][i + 1]
               /\ i + 1 \in 1 .. Len(squeue[Stream])
        BY <3>1
      <4> QED
        BY <1>1, <3>5, <4>1, <4>2
    <3>7. CASE squeue' = [squeue EXCEPT ![Stream] = <<>>]
      BY <3>5, <3>7, Shape
    <3> QED
      BY <2>1, <3>6, <3>7 DEF Shows
  <2>2. CASE Queues
    <3>1. CASE squeue' = [squeue EXCEPT ![Stream] = Append(@, R!NotFound)]
      <4>1. squeue'[Stream] = Append(squeue[Stream], R!NotFound)
        BY <3>1, Shape
      <4>2. Told(squeue'[Stream])
        BY <1>1, <1>3, <1>5, <4>1, Shape
      <4> QED
        BY <1>1, <2>2, <4>2 DEF Queues
    <3>2. CASE squeue' = [squeue EXCEPT ![Stream] = <<>>]
      BY <1>1, <2>2, <3>2, Shape DEF Queues
    <3> QED
      BY <2>2, <3>1, <3>2 DEF Queues
  <2>3. CASE Sends
    BY <1>1, <2>3 DEF Sends
  <2>4. CASE UNCHANGED <<sent, squeue, page, replied>>
    BY <1>1, <2>4
  <2> QED
    BY <2>1, <2>2, <2>3, <2>4, ActCases
<1> QED
  BY <1>2, <1>6 DEF Answers

\* A step of the server keeps the invariant.
LEMMA ActsKeep ==
  ASSUME IInv, Acts, UNCHANGED <<client, down, up>>
  PROVE  IInv'
<1>1. R!IInv'
  BY ActsAreSteps, ServerStep DEF IInv
<1>2. C!IInv'
  BY ClientStep, SameNames DEF IInv
<1>3. UNCHANGED <<phase, got, channel, out, made, home, replied>>
  BY SentStays DEF IInv, client
<1>4. Read' = Read
  BY <1>3 DEF Read
<1>5. Downward'
  <2>1. Read \in 0 .. Len(sent[Stream]) /\ (phase[Stream] # "new" => Read > 0)
    BY Shape DEF IInv, Downward, Read
  <2>2. Read > 0 => sent'[Stream][Read] = sent[Stream][Read]
    BY <2>1, SentStays DEF IInv
  <2>3. Len(sent[Stream]) <= Len(sent'[Stream]) /\ Len(sent'[Stream]) \in Nat
        /\ Len(sent[Stream]) \in Nat
    <3>1. sent' \in [Streams -> Seq({"init", "data", "end"})]
      BY <1>1 DEF R!IInv, R!TypeOK, R!PacketKind
    <3>2. Len(sent'[Stream]) \in Nat
      BY <3>1, Shape DEF IInv
    <3> QED
      BY <3>2, Shape, SentStays DEF IInv
  <2> QED
    BY <1>3, <1>4, <2>1, <2>2, <2>3 DEF IInv, Downward
<1>6. Upward'
  BY <1>3 DEF IInv, Upward
<1>7. Answers'
  BY <1>3, AnswersKept DEF IInv
<1> QED
  BY <1>1, <1>2, <1>5, <1>6, <1>7 DEF IInv

-----------------------------------------------------------------------------
(* What the steps of the client do to what the server sees.                  *)

\* An answer of connection k, or a refusal, is put into the channel.
Answering(k) ==
    /\ k # C!Refused => k = made[Stream]
    /\ phase[Stream] # "new"
    /\ channel' = [channel EXCEPT ![1] = @ + 1]
    /\ out' = [out EXCEPT ![Stream] = Append(@, k)]
    /\ UNCHANGED <<made, wrote>>

\* A local connection is made, for a stream the client was told of.
Makes ==
    /\ phase[Stream] # "new"
    /\ made' = [made EXCEPT ![Stream] = @ + 1]
    /\ UNCHANGED <<channel, out, wrote>>

\* A step of the client makes a connection, answers, or writes a chunk.
LEMMA WorkCases ==
  ASSUME IInv, Works
  PROVE  /\ UNCHANGED <<phase, got, home>>
         /\ \/ Makes
            \/ \E k \in 0 .. MaxConns : Answering(k)
            \/ \E c \in Locals : C!FwdWrites(c)
            \/ UNCHANGED <<channel, out, made, wrote>>
<1>1. CASE C!Connect \/ C!ConnectFails \/ C!Refuse
  <2>1. phase[Stream] # "new" /\ cur = Stream
    BY <1>1, Shape
    DEF IInv, C!IInv, C!LoopInv, C!Connect, C!ConnectFails, C!Refuse
  <2>2. CASE C!Connect
    BY <2>1, <2>2 DEF C!Connect, C!wire, C!server, Makes
  <2>3. CASE C!ConnectFails \/ C!Refuse
    <3>1. tunnel = "up"
      BY <2>3 DEF C!ConnectFails, C!Refuse
    <3>2. era = 1
      BY <3>1, Shape DEF IInv, C!IInv, C!LoopInv
    <3>3. C!Refused \in 0 .. MaxConns
      BY Bounds DEF C!Refused
    <3>4. UNCHANGED <<phase, got, home, made, wrote>>
      BY <2>3 DEF C!ConnectFails, C!Refuse, C!server, C!conns
    <3>5. Answering(C!Refused) \/ UNCHANGED <<channel, out>>
      BY <2>1, <2>3, <3>2, <3>4
      DEF C!ConnectFails, C!Refuse, C!Put, Answering
    <3> QED
      BY <3>3, <3>4, <3>5
  <2> QED
    BY <1>1, <2>2, <2>3
<1>2. ASSUME NEW c \in Locals, C!SourceSends(c)
      PROVE  /\ UNCHANGED <<phase, got, home>>
             /\ \E k \in 0 .. MaxConns : Answering(k)
  <2>1. PICK k \in 1 .. MaxConns : c = <<Stream, k>>
    BY DEF Locals, Streams
  <2>2. source[<<Stream, k>>] = "run" /\ C!Tasks(Stream, k)
    BY <1>2, <2>1, Shape DEF C!SourceSends, IInv, C!IInv, C!StreamInv
  <2>3. k = made[Stream]
    BY <2>2 DEF C!Tasks
  <2>4. phase[Stream] # "new" /\ home[Stream] = 1
    BY <2>1, <2>3 DEF IInv, Upward
  <2>5. c[1] = Stream /\ c[2] = k /\ k \in 0 .. MaxConns
    BY <2>1
  <2>6. Answering(k) /\ UNCHANGED <<phase, got, home>>
    BY <1>2, <2>3, <2>4, <2>5 DEF C!SourceSends, C!Put, C!server, Answering
  <2> QED
    BY <2>5, <2>6
<1>3. ASSUME NEW c \in Locals, C!FwdWrites(c)
      PROVE  UNCHANGED <<phase, got, home>>
  BY <1>3 DEF C!FwdWrites, C!server
<1>4. ASSUME NEW c \in Locals,
             \/ C!LocalCloses(c) \/ C!LocalResets(c) \/ C!SourcePanics(c)
             \/ C!SourceEnds(c) \/ C!FwdPanics(c) \/ C!FwdCloses(c)
      PROVE  UNCHANGED <<phase, got, home, channel, out, made, wrote>>
  BY <1>4 DEF C!LocalCloses, C!LocalResets, C!SourcePanics, C!SourceEnds,
     C!FwdPanics, C!FwdCloses, C!server, C!wire
<1>5. CASE \/ C!DialSucceeds \/ C!Look \/ C!Insert \/ C!Deliver \/ C!SendFails
           \/ C!Ender(Stream)
  BY <1>5 DEF C!DialSucceeds, C!Look, C!Insert, C!Deliver, C!SendFails, C!Ender,
     C!EndLooks, C!EndCloses, C!EndForgets, C!server, C!wire, C!conns
<1> QED
  BY <1>1, <1>2, <1>3, <1>4, <1>5 DEF Works, C!Packet, C!Source, C!Fwd

\* What the client has answered stays, and so does what is said about it.
LEMMA OutStays ==
  ASSUME R!IInv, C!IInv, NEW k \in 0 .. MaxConns, Answering(k)
  PROVE  /\ out'[Stream] = Append(out[Stream], k)
         /\ Len(out'[Stream]) = Len(out[Stream]) + 1
         /\ \A i \in 1 .. Len(out[Stream]) : out'[Stream][i] = out[Stream][i]
         /\ out'[Stream][Len(out[Stream]) + 1] = k
<1>1. out'[Stream] = Append(out[Stream], k)
  BY Shape DEF Answering
<1> QED
  BY <1>1, Shape

\* What is said of the answers stays true while nothing new is said.
LEMMA HonestStays ==
  ASSUME Answers, UNCHANGED <<squeue, page>>, replied'[Stream] \in Nat,
         replied[Stream] \in Nat, replied[Stream] <= replied'[Stream],
         \A i \in 1 .. replied[Stream] : out'[Stream][i] = out[Stream][i]
  PROVE  Answers'
<1>1. \A m : Honest(m) => Honest(m)'
  BY DEF Honest
<1> QED
  BY <1>1 DEF Answers

\* A step of the client keeps the invariant.
LEMMA WorksKeep ==
  ASSUME IInv, Works, UNCHANGED <<server, down, up>>
  PROVE  IInv'
<1>1. R!IInv'
  BY ServerStep, SameNames DEF IInv
<1>2. C!IInv'
  BY WorksAreSteps, ClientStep DEF IInv
<1>3. UNCHANGED <<phase, got, home, sent, replied, squeue, page>>
  BY WorkCases DEF server
<1>4. Read' = Read
  BY <1>3 DEF Read
<1>5. Downward'
  BY <1>3, <1>4 DEF IInv, Downward
<1>6. Upward' /\ Answers'
  <2>1. ASSUME NEW k \in 0 .. MaxConns, Answering(k)
        PROVE  Upward' /\ Answers'
    <3>1. /\ channel'[1] = channel[1] + 1 /\ made' = made
          /\ phase[Stream] # "new" /\ (k # 0 => k = made[Stream])
      BY <2>1, Shape DEF IInv, Answering, C!Refused
    <3>2. /\ Len(out'[Stream]) = Len(out[Stream]) + 1
          /\ \A i \in 1 .. Len(out[Stream]) : out'[Stream][i] = out[Stream][i]
          /\ out'[Stream][Len(out[Stream]) + 1] = k
      BY <2>1, OutStays DEF IInv
    <3>3. /\ Len(out[Stream]) \in Nat /\ channel[1] \in Nat
          /\ made[Stream] \in 0 .. MaxConns /\ replied[Stream] \in Nat
      BY Shape DEF IInv
    <3>4. Upward /\ replied[Stream] <= Len(out[Stream])
      <4>1. Upward
        BY DEF IInv
      <4> QED
        BY <3>3, <4>1 DEF Upward
    <3>5. \A i \in 1 .. Len(out'[Stream]) : out'[Stream][i] <= made[Stream]
      <4>1. \A i \in 1 .. Len(out[Stream]) : out[Stream][i] <= made[Stream]
        BY <3>4 DEF Upward
      <4>2. k <= made[Stream]
        BY <3>1, <3>3, Bounds
      <4>3. \A i \in 1 .. Len(out[Stream]) + 1 :
               i \in 1 .. Len(out[Stream]) \/ i = Len(out[Stream]) + 1
        BY <3>3
      <4> QED
        BY <3>2, <4>1, <4>2, <4>3, Zenon
    <3>6. Upward'
      <4>1. /\ up \in Nat /\ replied[Stream] <= up
            /\ up + channel[1] = Len(out[Stream]) /\ home[Stream] = 1
        BY <3>1, <3>4 DEF Upward
      <4>2. up + channel'[1] = Len(out'[Stream])
        <5>1. Len(out'[Stream]) = Len(out[Stream]) + 1
          BY <3>2, Zenon
        <5>2. channel'[1] = channel[1] + 1
          BY <3>1
        <5> QED
          BY <3>3, <4>1, <5>1, <5>2
      <4> QED
        BY <1>3, <3>1, <3>5, <4>1, <4>2 DEF Upward
    <3>7. \A i \in 1 .. replied[Stream] : out'[Stream][i] = out[Stream][i]
      <4>1. \A i \in 1 .. replied[Stream] : i \in 1 .. Len(out[Stream])
        BY <3>3, <3>4
      <4> QED
        BY <3>2, <4>1, Zenon
    <3>8. Answers'
      BY <1>3, <3>3, <3>7, HonestStays DEF IInv
    <3> QED
      BY <3>6, <3>8
  <2>2. CASE Makes
    <3>1. made'[Stream] = made[Stream] + 1
      BY <2>2, Shape DEF Makes, IInv
    <3>2. out[Stream] \in Seq(0 .. MaxConns) /\ made[Stream] \in Nat
      BY Shape DEF IInv
    <3>3. \A i \in 1 .. Len(out[Stream]) :
             out[Stream][i] <= made[Stream] => out[Stream][i] <= made[Stream] + 1
      BY <3>2, Bounds
    <3>4. UNCHANGED <<channel, out, up>> /\ phase[Stream] # "new" /\ Upward
      BY <2>2 DEF Makes, IInv
    <3>5. Upward'
      BY <1>3, <3>1, <3>3, <3>4 DEF Upward
    <3>6. Answers'
      BY <1>3, <3>4, HonestStays, Shape DEF IInv
    <3> QED
      BY <3>5, <3>6
  <2>3. CASE UNCHANGED <<channel, out, made>>
    <3>1. Upward'
      BY <1>3, <2>3 DEF IInv, Upward
    <3>2. Answers'
      BY <1>3, <2>3, HonestStays, Shape DEF IInv
    <3> QED
      BY <3>1, <3>2
  <2>4. ASSUME NEW c \in Locals, C!FwdWrites(c)
        PROVE  UNCHANGED <<channel, out, made>>
    BY <2>4 DEF C!FwdWrites, C!wire
  <2> QED
    BY <2>1, <2>2, <2>3, <2>4, WorkCases
<1> QED
  BY <1>1, <1>2, <1>5, <1>6 DEF IInv

-----------------------------------------------------------------------------
(* The websocket's steps.                                                    *)

\* The packets as they arrive.
LEMMA Arrivals ==
  ASSUME R!IInv, C!IInv, NEW i \in 1 .. Len(sent[Stream])
  PROVE  /\ Arriving(i).kind = sent[Stream][i]
         /\ sent[Stream][i] \in {"init", "data", "end"}
         /\ sent[Stream][i] = "data" => Arriving(i).data = <<i - 1>>
<1>1. sent[Stream][i] \in {"init", "data", "end"} /\ i - 1 \in Nat
  BY Shape
<1>2. CASE sent[Stream][i] = "data"
  <2>1. Arriving(i) = P!Packet("data", Id, <<i - 1>>)
    BY <1>1, <1>2, AsWritten DEF Arriving
  <2> QED
    BY <1>2, <2>1 DEF P!Packet
<1>3. CASE sent[Stream][i] \in {"init", "end"}
  <2>1. Arriving(i) = P!Packet(sent[Stream][i], Id, <<>>)
    BY <1>3, AsWritten, Zenon DEF Arriving
  <2> QED
    BY <1>3, <2>1 DEF P!Packet
<1> QED
  BY <1>1, <1>2, <1>3

\* The answers as they arrive.
LEMMA Returns ==
  ASSUME R!IInv, C!IInv, NEW i \in 1 .. Len(out[Stream])
  PROVE  Returning(i).kind = IF out[Stream][i] = C!Refused THEN "refused"
                                                           ELSE "data"
<1>1. out[Stream][i] \in Nat
  <2>1. out[Stream] \in Seq(0 .. MaxConns)
    BY Shape
  <2> QED
    BY <2>1, Bounds
<1>2. CASE out[Stream][i] = C!Refused
  <2>1. Returning(i) = P!Packet("refused", Id, <<>>)
    BY <1>2, AsWritten DEF Returning
  <2> QED
    BY <1>2, <2>1 DEF P!Packet
<1>3. CASE out[Stream][i] # C!Refused
  <2>1. Returning(i) = P!Packet("data", Id, <<out[Stream][i]>>)
    BY <1>1, <1>3, AsWritten DEF Returning
  <2> QED
    BY <1>3, <2>1 DEF P!Packet
<1> QED
  BY <1>2, <1>3

\* So do the steps of the websocket: a packet is written to the client,
LEMMA RelayKeeps == IInv /\ Relay => IInv'
<1> SUFFICES ASSUME IInv, Relay PROVE IInv'
  OBVIOUS
<1>1. R!IInv' /\ C!IInv'
  BY ServerStep, ClientStep, SameNames DEF IInv, Relay
<1>2. UNCHANGED <<phase, got, home, made, out, channel, sent, replied, squeue,
                  page, up>>
  BY DEF Relay, server, client
<1>3. Read' = Read
  BY <1>2 DEF Read
<1>4. Downward'
  BY <1>2, <1>3, Shape DEF IInv, Downward, Relay
<1>5. Upward' /\ Answers'
  BY <1>2, HonestStays, Shape DEF IInv, Upward
<1> QED
  BY <1>1, <1>4, <1>5 DEF IInv

\* it reads one,
LEMMA ReadsKeep ==
  ASSUME IInv, ClientReads
  PROVE  IInv'
<1>1. PICK p : p = Arriving(Read + 1)
  OBVIOUS
<1>2. \/ p.kind = "init" /\ C!InitStream(Stream)
      \/ p.kind = "data" /\ C!Data(Stream)
      \/ p.kind = "end" /\ C!End(Stream)
  BY <1>1 DEF ClientReads
<1>3. /\ Read + 1 \in 1 .. Len(sent[Stream]) /\ Read + 1 <= down
      /\ sent[Stream][Read + 1] = p.kind
  <2>1. Read \in Nat /\ Len(sent[Stream]) \in Nat /\ down \in Nat
        /\ Read < down /\ down <= Len(sent[Stream])
    BY Shape DEF IInv, Downward, ClientReads
  <2>2. Read + 1 \in 1 .. Len(sent[Stream]) /\ Read + 1 <= down
    BY <2>1
  <2> QED
    BY <1>1, <2>2, Arrivals DEF IInv
<1>4. R!IInv'
  BY ServerStep, SameNames DEF IInv, ClientReads
<1>5. C!IInv'
  <2>1. C!Next
    <3>1. tunnel # "exited" /\ Stream \in Streams
      BY DEF ClientReads, Streams
    <3> QED
      BY <1>2, <3>1 DEF C!Next
  <2> QED
    BY <2>1, ClientStep DEF IInv
<1>6. UNCHANGED <<made, out, channel, sent, replied, squeue, page, down, up>>
  BY <1>2 DEF C!InitStream, C!Data, C!End, C!wire, C!conns, ClientReads, server
<1>7. /\ Read' = Read + 1 /\ phase[Stream] # "ended" /\ phase'[Stream] # "new"
      /\ IF p.kind = "end" THEN phase'[Stream] = "ended"
                           ELSE phase'[Stream] = "told"
      /\ home'[Stream] = 1
  <2>1. CASE p.kind = "init" /\ C!InitStream(Stream)
    <3>a. /\ Stream \in Streams /\ home \in [Streams -> 0 .. 1]
          /\ phase \in [Streams -> {"new", "told", "ended"}]
      BY Shape DEF IInv, C!IInv, C!TypeOK
    <3>1. /\ phase[Stream] = "new" /\ phase'[Stream] = "told" /\ got' = got
          /\ home'[Stream] = era /\ tunnel = "up" /\ got[Stream] = 0
      BY <2>1, <3>a DEF C!InitStream, C!Reading, IInv, Downward
    <3>2. era = 1
      BY <3>1, Shape DEF IInv, C!IInv, C!LoopInv
    <3> QED
      BY <2>1, <3>1, <3>2 DEF Read
  <2>2. CASE p.kind = "data" /\ C!Data(Stream)
    <3>1. /\ phase[Stream] = "told" /\ phase' = phase /\ home' = home
          /\ got'[Stream] = got[Stream] + 1 /\ got[Stream] \in Nat
      BY <2>2, Shape DEF C!Data, IInv
    <3>2. home[Stream] = 1
      BY <3>1 DEF IInv, Upward
    <3> QED
      BY <2>2, <3>1, <3>2 DEF Read
  <2>3. CASE p.kind = "end" /\ C!End(Stream)
    <3>1. /\ phase[Stream] = "told" /\ phase'[Stream] = "ended" /\ home' = home
          /\ got' = got /\ got[Stream] \in Nat
      BY <2>3, Shape DEF C!End, IInv
    <3>2. home[Stream] = 1
      BY <3>1 DEF IInv, Upward
    <3> QED
      BY <2>3, <3>1, <3>2 DEF Read
  <2> QED
    BY <1>2, <2>1, <2>2, <2>3
<1>8. Downward'
  BY <1>3, <1>6, <1>7 DEF IInv, Downward
<1>9. Upward' /\ Answers'
  <2>1. Upward'
    BY <1>6, <1>7 DEF IInv, Upward
  <2> QED
    BY <1>6, <2>1, HonestStays, Shape DEF IInv
<1> QED
  BY <1>4, <1>5, <1>8, <1>9 DEF IInv

\* it writes one,
LEMMA WritesKeep ==
  ASSUME IInv, ClientWrites
  PROVE  IInv'
<1>1. R!IInv'
  BY ServerStep, SameNames DEF IInv, ClientWrites
<1>2. C!IInv'
  <2>1. 1 \in C!Eras
    BY DEF C!Eras
  <2>2. C!Next
    BY <2>1 DEF ClientWrites, C!Next, C!Writer
  <2> QED
    BY <2>2, ClientStep DEF IInv
<1>3. UNCHANGED <<phase, got, home, made, out, sent, replied, squeue, page, down>>
  BY DEF ClientWrites, C!WriterSend, C!server, C!conns, server
<1>4. /\ up' = up + 1 /\ channel'[1] = channel[1] - 1 /\ channel[1] > 0
      /\ channel[1] \in Nat /\ up \in Nat /\ replied[Stream] \in Nat
  BY Shape DEF ClientWrites, C!WriterSend, IInv, Upward
<1>5. Read' = Read
  BY <1>3 DEF Read
<1>6. Downward'
  BY <1>3, <1>5 DEF IInv, Downward
<1>7. Upward'
  BY <1>3, <1>4 DEF IInv, Upward
<1>8. Answers'
  BY <1>3, <1>4, HonestStays DEF IInv
<1> QED
  BY <1>1, <1>2, <1>6, <1>7, <1>8 DEF IInv

\* and the server reads one.
LEMMA RepliesKeep ==
  ASSUME IInv, ServerReads
  PROVE  IInv'
<1>n. PICK n : n = replied[Stream] + 1
  OBVIOUS
<1>k. PICK k : k = Returning(n).kind
  OBVIOUS
<1>1. /\ n \in 1 .. Len(out[Stream]) /\ replied[Stream] \in Nat /\ n <= up
      /\ up \in Nat
  <2>1. /\ replied[Stream] \in Nat /\ Len(out[Stream]) \in Nat
        /\ channel[1] \in Nat
    BY Shape DEF IInv
  <2>2. Upward /\ replied[Stream] < up
    BY DEF IInv, ServerReads
  <2> QED
    BY <1>n, <2>1, <2>2 DEF Upward
<1>2. k = IF out[Stream][n] = C!Refused THEN "refused" ELSE "data"
  BY <1>1, <1>k, Returns DEF IInv
<1>3. R!IInv'
  <2>1. k \in {"data", "refused"} /\ R!Forward(Stream, k) /\ Stream \in Streams
    BY <1>2, <1>n, <1>k DEF ServerReads, Streams
  <2>2. R!Next
    BY <2>1 DEF R!Next
  <2> QED
    BY <2>2, ServerStep DEF IInv
<1>4. C!IInv'
  BY ClientStep, SameNames DEF IInv, ServerReads
<1>5. /\ UNCHANGED <<phase, got, home, made, out, channel, sent, page, down, up>>
      /\ replied'[Stream] = n
  <2>1. R!Forward(Stream, k)
    BY <1>n, <1>k DEF ServerReads
  <2>2. replied \in [Streams -> 0 .. MaxAnswers] /\ Stream \in Streams
    BY DEF IInv, R!IInv, R!TypeOK, Streams
  <2> QED
    BY <1>n, <2>1, <2>2 DEF R!Forward, R!socket, ServerReads, client
<1>6. Read' = Read
  BY <1>5 DEF Read
<1>7. Downward'
  BY <1>5, <1>6 DEF IInv, Downward
<1>8. Upward'
  BY <1>1, <1>5 DEF IInv, Upward
<1>9. Answers'
  <2>1. \A m : Honest(m) => Honest(m)'
    BY <1>1, <1>5, <1>n DEF Honest
  <2>m. PICK m : m = [kind |-> k, n |-> n]
    OBVIOUS
  <2>2. Honest(m)'
    BY <1>1, <1>2, <1>5, <2>m DEF Honest
  <2>3. squeue' = squeue \/ squeue' = [squeue EXCEPT ![Stream] = Append(@, m)]
    BY <1>n, <1>k, <2>m DEF ServerReads, R!Forward
  <2>4. /\ squeue[Stream] \in Seq(R!Message)
        /\ squeue \in [Streams -> Seq(R!Message)]
        /\ Stream \in Streams
    BY Shape DEF IInv
  <2>5. \A i \in 1 .. Len(squeue'[Stream]) :
           squeue'[Stream][i] = m \/
              /\ i \in 1 .. Len(squeue[Stream])
              /\ squeue'[Stream][i] = squeue[Stream][i]
    <3>1. CASE squeue' = [squeue EXCEPT ![Stream] = Append(@, m)]
      <4>1. squeue'[Stream] = Append(squeue[Stream], m)
        BY <2>4, <3>1
      <4> QED
        BY <2>4, <4>1
    <3> QED
      BY <2>3, <3>1
  <2>6. (\A i \in 1 .. Len(squeue[Stream]) : Honest(squeue[Stream][i]))'
    BY <2>1, <2>2, <2>5 DEF IInv, Answers, Honest
  <2> QED
    BY <1>5, <2>1, <2>6 DEF IInv, Answers, Honest
<1> QED
  BY <1>3, <1>4, <1>7, <1>8, <1>9 DEF IInv

\* The end of the client's process ends its steps and changes nothing else.
LEMMA StopKeeps ==
  ASSUME IInv, Stopped
  PROVE  IInv'
<1>1. /\ UNCHANGED <<era, link, writer, channel, at, cur, phase, home, got, made,
                     entry, local, source, replies, fwd, queue, wrote, ender,
                     held, out, log, down, up>>
      /\ UNCHANGED server /\ tunnel' = "exited"
  BY DEF Stopped
<1>2. R!IInv'
  BY <1>1, ServerStep, SameNames DEF IInv
<1>3. C!IInv'
  <2>1. C!TypeOK' /\ C!LoopInv'
    <3>1. C!TypeOK'
      BY <1>1 DEF IInv, C!IInv, C!TypeOK
    <3> QED
      BY <1>1, <3>1 DEF IInv, C!IInv, C!LoopInv
  <2>2. ASSUME NEW s \in Streams
        PROVE  C!StreamInv(s)'
    <3>1. C!StreamInv(s)
      BY DEF IInv, C!IInv
    <3>2. C!Busy(s)' = C!Busy(s) /\ C!Handled(s)' = C!Handled(s)
      BY <1>1 DEF C!Busy, C!Handled
    <3>3. C!Entered(s)'
      BY <1>1, <3>1, <3>2 DEF C!StreamInv, C!Entered
    <3>4. ASSUME NEW k \in 1 .. MaxConns
          PROVE  C!Tasks(s, k)' /\ C!Recorded(s, k)' /\ C!Chunks(s, k)'
      <4>1. C!Tasks(s, k) /\ C!Recorded(s, k) /\ C!Chunks(s, k)
        BY <3>1 DEF C!StreamInv
      <4>2. C!Tasks(s, k)' /\ C!Recorded(s, k)'
        BY <1>1, <3>2, <4>1 DEF C!Tasks, C!Recorded
      <4>3. C!Chunks(s, k)'
        BY <1>1, <3>2, <4>1 DEF C!Chunks, C!UpToDate
      <4> QED
        BY <4>2, <4>3
    <3>5. C!Earlier(s)'
      BY <1>1, <3>1, <3>2 DEF C!StreamInv, C!Earlier, C!Given
    <3> QED
      BY <3>3, <3>4, <3>5 DEF C!StreamInv
  <2> QED
    BY <2>1, <2>2 DEF C!IInv
<1>4. Read' = Read /\ UNCHANGED <<sent, replied, squeue, page>>
  BY <1>1 DEF Read, server
<1>5. Downward' /\ Upward'
  BY <1>1, <1>4 DEF IInv, Downward, Upward
<1>6. Answers'
  BY <1>1, <1>4, HonestStays, Shape DEF IInv
<1> QED
  BY <1>2, <1>3, <1>5, <1>6 DEF IInv

-----------------------------------------------------------------------------
(* The invariant.                                                            *)

\* The invariant holds at the start,
LEMMA InitIInv == Init => IInv
<1> SUFFICES ASSUME Init PROVE IInv
  OBVIOUS
<1>1. R!IInv /\ C!IInv
  BY SidesStart DEF Init
<1>2. /\ Stream \in Streams /\ sent[Stream] = <<>> /\ squeue[Stream] = <<>>
      /\ page[Stream] = <<>> /\ replied[Stream] = 0 /\ phase[Stream] = "new"
      /\ got[Stream] = 0 /\ made[Stream] = 0 /\ out[Stream] = <<>>
      /\ channel[1] = 0 /\ down = 0 /\ up = 0
  BY DEF Init, R!Init, C!Init, Streams, C!Eras
<1>3. Read = 0
  BY <1>2 DEF Read
<1>4. Downward
  BY <1>2, <1>3 DEF Downward
<1>5. Upward
  BY <1>2 DEF Upward
<1>6. Answers
  BY <1>2 DEF Answers
<1> QED
  BY <1>1, <1>4, <1>5, <1>6 DEF IInv

\* and every step keeps it.
LEMMA StepIInv == IInv /\ [Next]_vars => IInv'
<1>1. ASSUME IInv, Next
      PROVE  IInv'
  BY <1>1, NextCases, ActsKeep, WorksKeep, RelayKeeps, ReadsKeep, WritesKeep,
     RepliesKeep, StopKeeps
<1>2. ASSUME IInv, UNCHANGED vars
      PROVE  IInv'
  <2>1. R!IInv' /\ C!IInv'
    BY <1>2, ServerStep, ClientStep, SameNames DEF IInv, vars
  <2>2. UNCHANGED <<phase, got, home, made, out, channel, sent, replied, squeue,
                    page, down, up>>
    BY <1>2 DEF vars, server, client
  <2>3. Read' = Read
    BY <2>2 DEF Read
  <2>4. Downward' /\ Upward'
    BY <1>2, <2>2, <2>3 DEF IInv, Downward, Upward
  <2>5. Answers'
    BY <1>2, <2>2, HonestStays, Shape DEF IInv
  <2> QED
    BY <2>1, <2>4, <2>5 DEF IInv
<1> QED
  BY <1>1, <1>2

\* Both sides keep their invariants while each is fed by the other, and the
\* packets between them fit to both.
THEOREM InductiveInvariant == Spec => []IInv
BY InitIInv, StepIInv, PTL DEF Spec

\* A packet that has arrived is one that its reader can use: process_control_-
\* flow_message gets no data for a stream it was not told of or that has ended,
\* and no chunk out of turn; process_client_messages no answer for a stream it
\* has told nobody of.
THEOREM EveryPacketUnderstood == Spec => []PacketsUnderstood
<1>1. ASSUME IInv
      PROVE  PacketsUnderstood
  <2>1. ASSUME Read < down
        PROVE  LET p == Arriving(Read + 1) IN
               /\ p.kind = "init" <=> phase[Stream] = "new"
               /\ p.kind \in {"data", "end"} <=> phase[Stream] = "told"
               /\ p.kind = "data" => p.data = <<got[Stream] + 1>>
    <3>1. /\ Read \in Nat /\ got[Stream] \in Nat
          /\ Read + 1 \in 1 .. Len(sent[Stream]) /\ Len(sent[Stream]) \in Nat
      BY <1>1, <2>1, Shape DEF IInv, Downward
    <3>2. /\ Arriving(Read + 1).kind = sent[Stream][Read + 1]
          /\ sent[Stream][Read + 1] \in {"init", "data", "end"}
          /\ sent[Stream][Read + 1] = "data" => Arriving(Read + 1).data = <<Read>>
      BY <1>1, <3>1, Arrivals DEF IInv
    <3>3. \A i \in 1 .. Len(sent[Stream]) :
             /\ sent[Stream][i] = "init" <=> i = 1
             /\ sent[Stream][i] = "end" => i = Len(sent[Stream])
      BY <1>1, Shape DEF IInv, R!IInv, R!StreamInv, R!SentSoFar, R!Packets
    <3>4. CASE phase[Stream] = "new"
      <4>1. Read = 0
        BY <1>1, <3>4, Shape DEF IInv, Downward, Read
      <4> QED
        BY <3>1, <3>2, <3>3, <3>4, <4>1
    <3>5. CASE phase[Stream] = "told"
      <4>1. Read = got[Stream] + 1
        BY <3>1, <3>5 DEF Read
      <4>2. sent[Stream][Read + 1] # "init"
        BY <3>1, <3>3, <4>1
      <4> QED
        BY <3>2, <3>5, <4>1, <4>2
    <3>6. CASE phase[Stream] = "ended"
      <4>1. Read \in 1 .. Len(sent[Stream]) /\ sent[Stream][Read] = "end"
        BY <1>1, <3>1, <3>6 DEF IInv, Downward, Read
      <4>2. Read = Len(sent[Stream])
        BY <3>3, <4>1
      <4> QED
        BY <3>1, <4>2
    <3> QED
      BY <1>1, <3>4, <3>5, <3>6, Shape DEF IInv
  <2>2. ASSUME replied[Stream] < up
        PROVE  sent[Stream] # <<>>
    <3>1. out[Stream] # <<>>
      BY <1>1, <2>2, Shape DEF IInv, Upward
    <3>2. phase[Stream] # "new"
      BY <1>1, <3>1 DEF IInv, Upward
    <3>3. Read > 0 /\ Read <= Len(sent[Stream])
      BY <1>1, <3>2, Shape DEF IInv, Downward, Read
    <3>4. Read \in Nat
      BY <1>1, Shape DEF IInv
    <3> QED
      BY <3>3, <3>4
  <2> QED
    BY <2>1, <2>2 DEF PacketsUnderstood
<1> QED
  BY <1>1, InductiveInvariant, PTL

-----------------------------------------------------------------------------
(* What Pipes sees of the state.                                             *)

\* The client has taken no more chunks than the server has sent.
LEMMA TakenAreAsked ==
  ASSUME IInv
  PROVE  Asked \in Nat /\ got[Stream] <= Asked
<1> DEFINE n == Len(sent[Stream])
<1>1. /\ n \in Nat /\ Read \in Nat /\ got[Stream] \in Nat /\ Read <= n
      /\ phase[Stream] \in {"new", "told", "ended"}
      /\ sent[Stream] \in Seq({"init", "data", "end"})
  BY Shape DEF IInv, Downward
<1>2. \A i \in 1 .. n :
         /\ sent[Stream][i] = "init" <=> i = 1
         /\ sent[Stream][i] = "end" => i = n
  BY Shape DEF IInv, R!IInv, R!StreamInv, R!SentSoFar, R!Packets
<1>3. CASE sent[Stream] = <<>>
  <2>1. phase[Stream] = "new"
    BY <1>1, <1>3 DEF Read
  <2> QED
    BY <1>3, <2>1 DEF IInv, Downward, Asked
<1>4. CASE sent[Stream] # <<>> /\ sent[Stream][n] = "end"
  <2>1. n > 1
    BY <1>1, <1>2, <1>4
  <2>2. Asked = n - 2
    BY <1>1, <1>4, <2>1 DEF Asked
  <2>3. got[Stream] <= n - 2
    <3>1. CASE phase[Stream] = "new"
      BY <2>1, <3>1 DEF IInv, Downward
    <3>2. CASE phase[Stream] = "told"
      BY <1>1, <1>4, <2>1, <3>2 DEF IInv, Downward, Read
    <3>3. CASE phase[Stream] = "ended"
      BY <1>1, <2>1, <3>3 DEF Read
    <3> QED
      BY <1>1, <3>1, <3>2, <3>3
  <2> QED
    BY <1>1, <2>1, <2>2, <2>3
<1>5. CASE sent[Stream] # <<>> /\ sent[Stream][n] # "end"
  <2>1. n > 0 /\ Asked = n - 1
    BY <1>1, <1>5 DEF Asked
  <2>2. got[Stream] <= n - 1
    <3>1. CASE phase[Stream] = "new"
      BY <2>1, <3>1 DEF IInv, Downward
    <3>2. CASE phase[Stream] # "new"
      BY <1>1, <2>1, <3>2 DEF Read
    <3> QED
      BY <3>1, <3>2
  <2> QED
    BY <1>1, <2>1, <2>2
<1> QED
  BY <1>3, <1>4, <1>5

\* A packet of the server is a new chunk of the request, or none.
LEMMA SendsAsk ==
  ASSUME IInv, Sends
  PROVE  Asked' \in {Asked, Asked + 1}
<1>q. PICK q : q = sent[Stream]
  OBVIOUS
<1>1. PICK p \in {"init", "data", "end"} :
         /\ sent' = [sent EXCEPT ![Stream] = Append(@, p)]
         /\ IF p = "init" THEN tcp[Stream] = "init" ELSE tcp[Stream] = "read"
  BY DEF Sends
<1>2. q \in Seq({"init", "data", "end"}) /\ sent'[Stream] = Append(q, p)
  BY <1>1, <1>q, Shape DEF IInv
<1>3. R!SentSoFar(Stream) /\ chanOpen
  BY Shape DEF IInv, R!IInv, R!StreamInv, Sends
<1>4. /\ Append(q, p) # <<>> /\ Len(Append(q, p)) = Len(q) + 1
      /\ Append(q, p)[Len(q) + 1] = p /\ Len(q) \in Nat
  BY <1>2
<1>5. Asked' = Len(q) + 1 - 1 - (IF p = "end" THEN 1 ELSE 0)
  <2>1. PICK r : r = sent'[Stream]
    OBVIOUS
  <2>2. r # <<>> /\ Len(r) = Len(q) + 1 /\ r[Len(r)] = p
    BY <1>2, <1>4, <2>1
  <2>3. Asked' = Len(r) - 1 - (IF r[Len(r)] = "end" THEN 1 ELSE 0)
    BY <2>1, <2>2, Zenon DEF Asked
  <2> QED
    BY <2>2, <2>3
<1>6. CASE p = "init"
  <2>1. q = <<>>
    BY <1>1, <1>3, <1>6, <1>q DEF R!SentSoFar
  <2>2. Len(q) = 0 /\ Asked = 0
    BY <1>q, <2>1 DEF Asked
  <2> QED
    BY <1>5, <1>6, <2>2
<1>7. CASE p # "init"
  <2>1. q # <<>> /\ q[Len(q)] # "end"
    BY <1>1, <1>2, <1>3, <1>4, <1>7, <1>q DEF R!SentSoFar, R!Packets
  <2>2. Asked = Len(q) - 1
    BY <1>4, <1>q, <2>1 DEF Asked
  <2>3. CASE p = "end"
    BY <1>4, <1>5, <2>2, <2>3
  <2>4. CASE p = "data"
    BY <1>4, <1>5, <2>2, <2>4
  <2> QED
    BY <1>7, <2>3, <2>4
<1> QED
  BY <1>6, <1>7

\* One thing that the visitor was written, in terms of what the client has said.
View(m) ==
    [page |-> m.kind # "data",
     from |-> IF m.kind = "notfound" THEN 0 ELSE out[Stream][m.n]]

Views == [page : BOOLEAN, from : Nat]

\* Sequences of the same elements are the same.
LEMMA SeqEqual ==
  ASSUME NEW D, NEW s \in Seq(D), NEW t \in Seq(D), Len(s) = Len(t),
         \A i \in 1 .. Len(s) : s[i] = t[i]
  PROVE  s = t
OBVIOUS

\* A message that is honest looks like something in particular,
LEMMA HonestViews ==
  ASSUME IInv, NEW m, Honest(m)
  PROVE  View(m) \in Views
<1>1. CASE m = R!NotFound
  BY <1>1 DEF View, Views, R!NotFound
<1>2. CASE m # R!NotFound
  <2>1. m.n \in 1 .. Len(out[Stream])
    BY <1>2, Shape DEF Honest, IInv, Upward
  <2>2. out[Stream] \in Seq(0 .. MaxConns)
    BY Shape DEF IInv
  <2>3. out[Stream][m.n] \in Nat
    BY <2>1, <2>2, Bounds
  <2> QED
    BY <2>3 DEF View, Views
<1> QED
  BY <1>1, <1>2

\* and what the visitor has seen is what its messages look like.
LEMMA SeenViews ==
  ASSUME IInv
  PROVE  /\ Seen \in Seq(Views) /\ Len(Seen) = Len(page[Stream])
         /\ Len(Seen) \in Nat
         /\ \A i \in 1 .. Len(Seen) : Seen[i] = View(page[Stream][i])
<1>1. page[Stream] \in Seq(R!Message) /\ Len(page[Stream]) \in Nat
  BY Shape DEF IInv
<1>2. Seen = [i \in 1 .. Len(page[Stream]) |-> View(page[Stream][i])]
  BY DEF Seen, View
<1>3. \A i \in 1 .. Len(page[Stream]) : View(page[Stream][i]) \in Views
  BY HonestViews DEF IInv, Answers
<1>4. \A n \in Nat : \A f : (\A i \in 1 .. n : f[i] \in Views) =>
         /\ [i \in 1 .. n |-> f[i]] \in Seq(Views)
         /\ Len([i \in 1 .. n |-> f[i]]) = n
  OBVIOUS
<1>5. PICK n \in Nat : n = Len(page[Stream])
  BY <1>1
<1>6. PICK f : f = Seen
  OBVIOUS
<1>7. /\ f = [i \in 1 .. n |-> f[i]]
      /\ \A i \in 1 .. n : f[i] = View(page[Stream][i]) /\ f[i] \in Views
  BY <1>2, <1>3, <1>5, <1>6
<1>8. f \in Seq(Views) /\ Len(f) = n
  BY <1>4, <1>7
<1> QED
  BY <1>5, <1>6, <1>7, <1>8

\* What was seen stays as it was when nothing is written to the visitor.
LEMMA SeenKept ==
  ASSUME IInv, page' = page,
         \A i \in 1 .. replied[Stream] : out'[Stream][i] = out[Stream][i]
  PROVE  Seen' = Seen
<1>1. ASSUME NEW m, Honest(m)
      PROVE  View(m)' = View(m)
  BY <1>1 DEF View, Honest, R!NotFound
<1>2. \A i \in 1 .. Len(page[Stream]) : Honest(page[Stream][i])
  BY DEF IInv, Answers
<1> QED
  BY <1>1, <1>2 DEF Seen, View

\* What the visitor is written is one thing more that it has seen.
LEMMA ShowsView ==
  ASSUME IInv, Shows, out' = out
  PROVE  LET m == Head(squeue[Stream]) IN
         /\ Seen' = Append(Seen, View(m))
         /\ Honest(m)
         /\ m = R!NotFound \/ m.n = Len(Seen) + 1
<1>1. PICK m : m = Head(squeue[Stream])
  OBVIOUS
<1>2. /\ squeue[Stream] \in Seq(R!Message) /\ squeue[Stream] # <<>>
      /\ page[Stream] \in Seq(R!Message) /\ Len(page[Stream]) \in Nat
      /\ sink[Stream] = "wait"
      /\ page' = [page EXCEPT ![Stream] = Append(@, Head(squeue[Stream]))]
  BY Shape DEF IInv, Shows
<1>3. m = squeue[Stream][1] /\ 1 \in 1 .. Len(squeue[Stream]) /\ m \in R!Message
  BY <1>1, <1>2
<1>4. Honest(m)
  BY <1>3 DEF IInv, Answers
<1>5. m = R!NotFound \/ m.n = Len(page[Stream]) + 1
  <2>1. \A i \in 1 .. Len(squeue[Stream]) :
           \/ squeue[Stream][i] = R!NotFound
           \/ squeue[Stream][i].n = Len(page[Stream]) + i
           \/ \E j \in 1 .. Len(squeue[Stream]) :
                 j < i /\ squeue[Stream][j] = R!NotFound
    BY <1>2, Shape DEF IInv, R!IInv, R!StreamInv, R!InOrder, R!Queued
  <2>2. \A j \in 1 .. Len(squeue[Stream]) : ~(j < 1)
    OBVIOUS
  <2> QED
    BY <1>3, <2>1, <2>2
<1>6. page'[Stream] = Append(page[Stream], m)
  BY <1>1, <1>2, Shape DEF IInv
<1>7. PICK n \in Nat : n = Len(page[Stream])
  BY <1>2
<1>8. PICK p : p = page'[Stream]
  OBVIOUS
<1>9. /\ Len(p) = n + 1 /\ p[n + 1] = m
      /\ \A i \in 1 .. n : p[i] = page[Stream][i]
  BY <1>2, <1>3, <1>6, <1>7, <1>8
<1>10. Seen' = [i \in 1 .. n + 1 |-> View(p[i])]
  BY <1>8, <1>9 DEF Seen, View
<1>11. PICK f : f = Seen
  OBVIOUS
<1>12. /\ f \in Seq(Views) /\ Len(f) = n
       /\ \A i \in 1 .. n : f[i] = View(p[i])
  BY <1>7, <1>9, <1>11, SeenViews
<1>13. View(m) \in Views
  BY <1>4, HonestViews
<1>14. Append(f, View(m)) = [i \in 1 .. n + 1 |-> View(p[i])]
  <2>1. PICK v : v = View(m)
    OBVIOUS
  <2>2. PICK g : g = [i \in 1 .. n + 1 |-> View(p[i])]
    OBVIOUS
  <2>3. DOMAIN g = 1 .. n + 1 /\ g = [i \in 1 .. n + 1 |-> g[i]]
        /\ g[n + 1] = v /\ \A i \in 1 .. n : g[i] = f[i]
    BY <1>9, <1>12, <2>1, <2>2
  <2>4. \A i \in 1 .. n + 1 : g[i] \in Views
    <3>1. \A i \in 1 .. n : f[i] \in Views
      BY <1>12
    <3>2. \A i \in 1 .. n + 1 : i \in 1 .. n \/ i = n + 1
      OBVIOUS
    <3> QED
      BY <1>13, <2>1, <2>3, <3>1, <3>2, Zenon
  <2>5. g \in Seq(Views) /\ Len(g) = n + 1
    BY <2>3, <2>4
  <2>6. Append(f, v) \in Seq(Views) /\ Len(Append(f, v)) = n + 1
        /\ Append(f, v)[n + 1] = v
        /\ \A i \in 1 .. n : Append(f, v)[i] = f[i]
    BY <1>12, <1>13, <2>1
  <2>7. PICK h : h = Append(f, v)
    OBVIOUS
  <2>8. h \in Seq(Views) /\ Len(h) = n + 1 /\ \A i \in 1 .. n + 1 : h[i] = g[i]
    <3>1. /\ h \in Seq(Views) /\ Len(h) = n + 1 /\ h[n + 1] = v
          /\ \A i \in 1 .. n : h[i] = f[i]
      BY <2>6, <2>7, Zenon
    <3>2. \A i \in 1 .. n + 1 : i \in 1 .. n \/ i = n + 1
      OBVIOUS
    <3> QED
      BY <2>3, <3>1, <3>2, Zenon
  <2>9. h = g
    BY <2>5, <2>8, SeqEqual, Zenon
  <2> QED
    BY <2>1, <2>2, <2>7, <2>9
<1>15. Len(Seen) = n
  BY <1>7, SeenViews
<1> QED
  BY <1>1, <1>4, <1>5, <1>7, <1>10, <1>11, <1>14, <1>15

-----------------------------------------------------------------------------
(* The steps, as steps of Pipes.                                             *)

Hears == [k \in 1 .. MaxConns |-> wrote[<<Stream, k>>]]

\* Nothing that Pipes sees has changed.
LEMMA PipesStutter ==
  ASSUME IInv, UNCHANGED <<sent, page, wrote, out>>
  PROVE  UNCHANGED Abstract!vars
<1>1. Asked' = Asked
  BY DEF Asked
<1>2. Seen' = Seen
  BY SeenKept
<1> QED
  BY <1>1, <1>2 DEF Abstract!vars

\* A step of the server asks, shows an answer or a page, or goes unseen.
LEMMA ActsRefine ==
  ASSUME IInv, Acts, UNCHANGED client
  PROVE  [Abstract!Next]_Abstract!vars
<1>1. wrote' = wrote /\ out' = out
  BY DEF client
<1>2. CASE UNCHANGED <<sent, page>>
  BY <1>1, <1>2, PipesStutter
<1>3. CASE Sends
  <2>1. Seen' = Seen
    BY <1>1, <1>3, SeenKept DEF Sends
  <2>2. CASE Asked' = Asked + 1
    BY <1>1, <2>1, <2>2 DEF Abstract!Next, Abstract!Ask
  <2>3. CASE Asked' = Asked
    BY <1>1, <2>1, <2>3 DEF Abstract!vars
  <2> QED
    BY <1>3, <2>2, <2>3, SendsAsk
<1>4. CASE Shows
  <2>1. PICK m : m = Head(squeue[Stream])
    OBVIOUS
  <2>2. /\ Seen' = Append(Seen, View(m)) /\ Honest(m)
        /\ m = R!NotFound \/ m.n = Len(Seen) + 1
    BY <1>1, <1>4, <2>1, ShowsView
  <2>3. Asked' = Asked
    BY <1>4 DEF Shows, Asked
  <2>4. ~Abstract!Over
    <3>1. R!InOrder(Stream) /\ sink[Stream] = "wait"
      BY <1>4, Shape DEF Shows, IInv, R!IInv, R!StreamInv
    <3>2. \A i \in 1 .. Len(page[Stream]) : page[Stream][i].kind = "data"
      BY <3>1 DEF R!InOrder, R!Pages
    <3>3. \A x : x.kind = "data" => View(x).page = FALSE
      BY DEF View
    <3>4. \A i \in 1 .. Len(Seen) : Seen[i].page = FALSE
      BY <3>2, <3>3, SeenViews
    <3> QED
      BY <3>4 DEF Abstract!Over
  <2>5. CASE m = R!NotFound
    <3>1. View(m) = [page |-> TRUE, from |-> 0]
      BY <2>5 DEF View, R!NotFound
    <3>2. Abstract!GiveUp
      BY <1>1, <2>2, <2>3, <2>4, <3>1 DEF Abstract!GiveUp, Abstract!Refused
    <3> QED
      BY <3>2 DEF Abstract!Next
  <2>6. CASE m # R!NotFound
    <3>1. /\ m.kind # "notfound" /\ m.n \in 1 .. replied[Stream]
          /\ m.kind = "refused" <=> out[Stream][m.n] = 0
          /\ m.n = Len(Seen) + 1
      BY <2>2, <2>6 DEF Honest, C!Refused
    <3>2. m.kind \in {"data", "refused"}
      <4>1. m \in R!Message
        BY <1>4, <2>1, Shape DEF Shows, IInv
      <4> QED
        BY <3>1, <4>1 DEF R!Message
    <3>3. Len(Seen) < Len(out[Stream])
      BY <3>1, SeenViews, Shape DEF IInv, Upward
    <3>4. View(m) = [page |-> out[Stream][Len(Seen) + 1] = 0,
                     from |-> out[Stream][Len(Seen) + 1]]
      BY <3>1, <3>2 DEF View
    <3>5. Abstract!See
      BY <1>1, <2>2, <2>3, <2>4, <3>3, <3>4 DEF Abstract!See, Abstract!Refused
    <3> QED
      BY <3>5 DEF Abstract!Next
  <2> QED
    BY <2>5, <2>6
<1> QED
  BY <1>2, <1>3, <1>4, ActCases DEF Queues

\* A chunk that a local connection is written is one that the visitor has sent,
\* and the next in turn.
LEMMA WriteHears ==
  ASSUME IInv, UNCHANGED server, NEW c \in Locals, C!FwdWrites(c)
  PROVE  Abstract!Next
<1>1. PICK k \in 1 .. MaxConns : c = <<Stream, k>>
  BY DEF Locals, Streams
<1>2. /\ fwd[c] = "run" /\ queue[c] # <<>> /\ Head(queue[c]) # 0
      /\ wrote' = [wrote EXCEPT ![c] = Append(@, Head(queue[c]))]
      /\ out' = out
  BY DEF C!FwdWrites, C!Close
<1>3. /\ queue[c] \in Seq(0 .. MaxChunks) /\ wrote[c] \in Seq(1 .. MaxChunks)
      /\ wrote \in [C!Locals -> Seq(1 .. MaxChunks)] /\ c \in C!Locals
  BY DEF IInv, C!IInv, C!TypeOK, Locals, C!Locals
<1>4. PICK n : n = Head(queue[c])
  OBVIOUS
<1>5. n = queue[c][1] /\ 1 \in 1 .. Len(queue[c]) /\ n \in 1 .. MaxChunks
  BY <1>2, <1>3, <1>4, Bounds
<1>6. C!Chunks(Stream, k) /\ C!Earlier(Stream)
  BY Shape DEF IInv, C!IInv, C!StreamInv
<1>7. n \in C!Given(c)
  BY <1>2, <1>4, <1>5 DEF C!Given, C!Numbers, C!Close
<1>8. n \in 1 .. Asked
  <2>1. n \in 1 .. C!Handled(Stream)
    BY <1>1, <1>6, <1>7 DEF C!Earlier
  <2>2. C!Handled(Stream) \in Nat /\ C!Handled(Stream) <= got[Stream]
    BY Shape DEF IInv, C!IInv, C!LoopInv, C!Handled, C!Busy
  <2> QED
    BY <2>1, <2>2, TakenAreAsked, Shape DEF IInv
<1>9. wrote[c] # <<>> => n = wrote[c][Len(wrote[c])] + 1
  <2>1. PICK b \in 0 .. MaxChunks : C!RunFrom(wrote[c], queue[c], b)
    BY <1>1, <1>6 DEF C!Chunks
  <2>2. n = b + Len(wrote[c]) + 1
    BY <1>2, <1>4, <1>5, <2>1 DEF C!RunFrom, C!Close
  <2>3. wrote[c] # <<>> => wrote[c][Len(wrote[c])] = b + Len(wrote[c])
    BY <1>3, <2>1 DEF C!RunFrom
  <2> QED
    BY <1>3, <2>1, <2>2, <2>3, Bounds
<1>10. \A j \in 1 .. MaxConns : \A m \in Abstract!Heard(j) :
          (j < k => m < n) /\ (k < j => n < m)
  <2>1. ASSUME NEW j \in 1 .. MaxConns, NEW m \in Abstract!Heard(j)
        PROVE  m \in C!Given(<<Stream, j>>)
    BY <2>1 DEF Abstract!Heard, C!Given, C!Numbers
  <2> QED
    BY <1>1, <1>6, <1>7, <2>1 DEF C!Earlier
<1>11. Abstract!Hear(k, n)
  <2>1. Asked' = Asked
    BY DEF server, Asked
  <2>2. Seen' = Seen
    BY <1>2, SeenKept DEF server
  <2>3. Hears' = [Hears EXCEPT ![k] = Append(@, n)]
    <3>1. \A j \in 1 .. MaxConns :
             wrote'[<<Stream, j>>] = IF j = k THEN Append(wrote[<<Stream, j>>], n)
                                              ELSE wrote[<<Stream, j>>]
      BY <1>1, <1>2, <1>3, <1>4, Shape DEF IInv, C!Locals
    <3> QED
      BY <3>1 DEF Hears
  <2> QED
    BY <1>1, <1>2, <1>8, <1>9, <1>10, <2>1, <2>2, <2>3
    DEF Abstract!Hear, Abstract!Locals, Hears
<1> QED
  BY <1>8, <1>11 DEF Abstract!Next, Abstract!Locals

\* A step of the client says something, hears a chunk, or goes unseen.
LEMMA WorksRefine ==
  ASSUME IInv, Works, UNCHANGED server
  PROVE  [Abstract!Next]_Abstract!vars
<1>1. UNCHANGED <<sent, page, replied>>
  BY DEF server
<1>2. ASSUME NEW k \in 0 .. MaxConns, Answering(k)
      PROVE  Abstract!Next
  <2>1. out'[Stream] = Append(out[Stream], k)
    BY <1>2, OutStays DEF IInv
  <2>2. Seen' = Seen
    <3>1. \A i \in 1 .. replied[Stream] : out'[Stream][i] = out[Stream][i]
      <4>1. \A i \in 1 .. Len(out[Stream]) : out'[Stream][i] = out[Stream][i]
        BY <1>2, OutStays DEF IInv
      <4>2. /\ Len(out[Stream]) \in Nat /\ replied[Stream] \in Nat
            /\ channel[1] \in Nat
        BY Shape DEF IInv
      <4>3. replied[Stream] <= Len(out[Stream])
        BY <4>2 DEF IInv, Upward
      <4> QED
        BY <4>1, <4>2, <4>3
    <3> QED
      BY <1>1, <3>1, SeenKept
  <2>3. Asked' = Asked /\ wrote' = wrote
    BY <1>1, <1>2 DEF Asked, Answering
  <2>4. k # 0 => \A i \in 1 .. Len(out[Stream]) : out[Stream][i] <= k
    BY <1>2 DEF Answering, IInv, Upward, C!Refused
  <2>5. Abstract!Say(k)
    BY <2>1, <2>2, <2>3, <2>4 DEF Abstract!Say, Abstract!Refused
  <2>6. k \in Abstract!Locals \cup {Abstract!Refused}
    BY Bounds DEF Abstract!Locals, Abstract!Refused
  <2> QED
    BY <2>5, <2>6 DEF Abstract!Next
<1>3. CASE Makes \/ UNCHANGED <<channel, out, made, wrote>>
  BY <1>1, <1>3, PipesStutter DEF Makes
<1> QED
  BY <1>2, <1>3, WorkCases, WriteHears

\* Every step is one of Pipes or goes unseen.
LEMMA StepRefines == IInv /\ [Next]_vars => [Abstract!Next]_Abstract!vars
<1>1. ASSUME IInv, Relay \/ ClientReads \/ ClientWrites \/ ServerReads \/ Stopped
      PROVE  UNCHANGED <<sent, page, wrote, out>>
  <2>1. CASE Relay \/ Stopped
    BY <2>1 DEF Relay, Stopped, server, client
  <2>2. CASE ClientReads
    BY <2>2 DEF ClientReads, server, C!InitStream, C!Data, C!End, C!conns
  <2>3. CASE ClientWrites
    BY <2>3 DEF ClientWrites, server, C!WriterSend, C!conns
  <2>4. CASE ServerReads
    BY <2>4 DEF ServerReads, client, R!Forward, R!socket
  <2> QED
    BY <1>1, <2>1, <2>2, <2>3, <2>4
<1>2. ASSUME IInv, UNCHANGED vars
      PROVE  UNCHANGED <<sent, page, wrote, out>>
  BY <1>2 DEF vars, server, client
<1>3. ASSUME IInv, Next
      PROVE  [Abstract!Next]_Abstract!vars
  BY <1>1, <1>3, NextCases, ActsRefine, WorksRefine, PipesStutter
<1> QED
  BY <1>2, <1>3, PipesStutter

\* The server's side of a stream, the websocket and the client's side together
\* are a tunnel: process_tcp_stream, process_control_flow_message, forward_to_-
\* local_tcp, process_local_tcp, process_client_messages and neutun_stream hand
\* on the request and its answers as Pipes promises, whatever the interleaving.
THEOREM TunnelIsPipes == Spec => ImplementsPipes
<1>1. Init => Abstract!Init
  <2> SUFFICES ASSUME Init PROVE Abstract!Init
    OBVIOUS
  <2>1. /\ sent[Stream] = <<>> /\ page[Stream] = <<>> /\ out[Stream] = <<>>
        /\ \A k \in 1 .. MaxConns : wrote[<<Stream, k>>] = <<>>
    BY DEF Init, R!Init, C!Init, Streams, C!Locals
  <2>2. Asked = 0
    BY <2>1 DEF Asked
  <2>3. Seen = <<>>
    <3>1. Seen \in Seq(Views) /\ Len(Seen) = Len(page[Stream])
      BY InitIInv, SeenViews
    <3>2. \A f \in Seq(Views) : Len(f) = 0 => f = <<>>
      OBVIOUS
    <3> QED
      BY <2>1, <3>1, <3>2
  <2> QED
    BY <2>1, <2>2, <2>3 DEF Abstract!Init, Abstract!Locals
<1> QED
  BY <1>1, StepRefines, InductiveInvariant, PTL
  DEF Spec, ImplementsPipes, Abstract!Spec

-----------------------------------------------------------------------------
(* Each side of the composition is a behaviour of its own module, and so has *)
(* what is proved there.                                                     *)

\* A step of the composition is one of RemoteStream, or it does not see it; an
\* answer that arrives is one of those RemoteStream allows its client.
LEMMA StepServer == IInv /\ [Next]_vars => [R!Next]_(R!vars)
<1> SUFFICES ASSUME IInv, [Next]_vars
             PROVE  R!Next \/ UNCHANGED R!vars
  OBVIOUS
<1>1. CASE UNCHANGED server
  BY <1>1, SameNames
<1>2. CASE Acts
  BY <1>2, ActsAreSteps
<1>3. CASE ServerReads
  <2>n. PICK n : n = replied[Stream] + 1
    OBVIOUS
  <2>1. n \in 1 .. Len(out[Stream])
    <3>1. /\ replied[Stream] \in Nat /\ Len(out[Stream]) \in Nat
          /\ channel[1] \in Nat
      BY Shape DEF IInv
    <3>2. Upward /\ replied[Stream] < up
      BY <1>3 DEF IInv, ServerReads
    <3> QED
      BY <2>n, <3>1, <3>2 DEF Upward
  <2>2. Returning(n).kind \in {"data", "refused"}
    BY <2>1, Returns DEF IInv
  <2>3. R!Forward(Stream, Returning(n).kind) /\ Stream \in Streams
    BY <1>3, <2>n DEF ServerReads, Streams
  <2> QED
    BY <2>2, <2>3 DEF R!Next
<1>4. CASE Next
  BY <1>1, <1>2, <1>3, <1>4, NextCases
     DEF Relay, ClientReads, ClientWrites, Stopped
<1>5. CASE UNCHANGED vars
  BY <1>1, <1>5 DEF vars
<1> QED
  BY <1>4, <1>5

\* The server's side of the composition is a behaviour of RemoteStream: that
\* module lets the client answer what and when it likes, and so covers what the
\* real client's side, its writer and the websocket do.
THEOREM ServerSide == Spec => R!Spec
BY InductiveInvariant, StepServer, PTL DEF Spec, Init, R!Spec

\* RemoteStream, as RemoteStreamProofs knows it.
LEMMA ServerSpecs == R!Spec => RP!Spec
<1>1. [R!Next]_(R!vars) => [RP!Next]_(RP!vars)
  <2>1. R!vars' = RP!vars'
    BY DEF R!vars, RP!vars, R!client, RP!client, R!socket, RP!socket
  <2> QED
    BY <2>1, ServerNames
<1>2. R!Init => RP!Init
  BY ServerNames
<1> QED
  BY <1>1, <1>2, PTL DEF R!Spec, RP!Spec

\* So the promises of process_tcp_stream and neutun_stream hold with the client's
\* side in place of a client that may answer anything.
THEOREM ServerPromises ==
    Spec => [](R!ProtocolOrder /\ R!Gapless /\ R!ErrorPageEnds
                 /\ R!ClosedQueueSpeaks /\ R!AnswersKept)
<1>1. Spec => RP!Spec
  BY ServerSide, ServerSpecs
<1>2. RP!Spec => [](RP!ProtocolOrder /\ RP!Gapless /\ RP!ErrorPageEnds
                 /\ RP!ClosedQueueSpeaks /\ RP!AnswersKept)
  <2>1. RP!Spec => []RP!ProtocolOrder
    BY Bounds, RP!ProtocolOrderHolds DEF RP!ProtocolOrderHolds
  <2>2. RP!Spec => []RP!Gapless
    BY Bounds, RP!GaplessHolds DEF RP!GaplessHolds
  <2>3. RP!Spec => []RP!ErrorPageEnds
    BY Bounds, RP!ErrorPageIsLast DEF RP!ErrorPageIsLast
  <2>4. RP!Spec => []RP!ClosedQueueSpeaks
    BY Bounds, RP!ClosedQueueHasNotFound DEF RP!ClosedQueueHasNotFound
  <2>5. RP!Spec => []RP!AnswersKept
    BY Bounds, RP!NoAnswerDropped DEF RP!NoAnswerDropped
  <2> QED
    BY <2>1, <2>2, <2>3, <2>4, <2>5, PTL
<1>3. /\ RP!ProtocolOrder => R!ProtocolOrder
      /\ RP!Gapless => R!Gapless
      /\ RP!ErrorPageEnds => R!ErrorPageEnds
      /\ RP!ClosedQueueSpeaks => R!ClosedQueueSpeaks
      /\ RP!AnswersKept => R!AnswersKept
  BY DEF RP!ProtocolOrder, R!ProtocolOrder, RP!Gapless, R!Gapless,
     RP!ErrorPageEnds, R!ErrorPageEnds, RP!ClosedQueueSpeaks,
     R!ClosedQueueSpeaks, RP!AnswersKept, R!AnswersKept,
     RP!NotFound, R!NotFound
<1> QED
  BY <1>1, <1>2, <1>3, PTL

\* And the server's side sees its client come and go as ClientLink says.
THEOREM LinkEverywhere == Spec => RP!Link!Spec
<1>1. RP!Spec => RP!Link!Spec
  BY Bounds, RP!KeepsLink DEF RP!KeepsLink
<1> QED
  BY <1>1, ServerSide, ServerSpecs, PTL

\* A step of the composition is one of Client, the end of its process from
\* outside, or one that it does not see; what it reads are packets that Client
\* expects.
LEMMA StepClient == IInv /\ [Next]_vars => [C!Next \/ Stopped]_(C!vars)
<1> SUFFICES ASSUME IInv, [Next]_vars
             PROVE  C!Next \/ Stopped \/ UNCHANGED C!vars
  OBVIOUS
<1>1. CASE UNCHANGED client
  BY <1>1, SameNames
<1>2. CASE Works
  BY <1>2, WorksAreSteps
<1>3. CASE ClientReads
  <2>1. tunnel # "exited" /\ Stream \in Streams
    BY <1>3 DEF ClientReads, Streams
  <2>2. C!InitStream(Stream) \/ C!Data(Stream) \/ C!End(Stream)
    BY <1>3 DEF ClientReads
  <2> QED
    BY <2>1, <2>2, Zenon DEF C!Next
<1>4. CASE ClientWrites
  <2>1. tunnel # "exited" /\ 1 \in C!Eras /\ C!Writer(1)
    BY <1>4 DEF ClientWrites, C!Eras, C!Writer
  <2> QED
    BY <2>1, Zenon DEF C!Next
<1>5. CASE Next
  BY <1>1, <1>2, <1>3, <1>4, <1>5, NextCases DEF Relay, ServerReads
<1>6. CASE UNCHANGED vars
  BY <1>1, <1>6 DEF vars
<1> QED
  BY <1>5, <1>6

\* The client's side of the composition is a behaviour of Client, until its
\* process is stopped: the server sends what Client assumes of it, in that
\* order.
THEOREM ClientSide == Spec => C!Init /\ [][C!Next \/ Stopped]_(C!vars)
BY InductiveInvariant, StepClient, PTL DEF Spec, Init

\* So the promises of run_wormhole and its tasks hold with the server's side in
\* place of a server that may send anything in order.
THEOREM ClientPromises ==
    Spec => []/\ C!OneSource
              /\ C!ChunksInOrder
              /\ C!RecordsWhole
<1>1. CP!IInv => CP!OneSource /\ CP!ChunksInOrder /\ CP!RecordsWhole
  BY Bounds, CP!LastSource, CP!ChunksFollow, CP!RecordedTruly
     DEF CP!LastSource, CP!ChunksFollow, CP!RecordedTruly
<1>2. /\ CP!OneSource => C!OneSource
      /\ CP!ChunksInOrder => C!ChunksInOrder
      /\ CP!RecordsWhole => C!RecordsWhole
  BY DEF CP!OneSource, C!OneSource, CP!ChunksInOrder, C!ChunksInOrder,
     CP!RecordsWhole, C!RecordsWhole, CP!Locals, C!Locals
<1>3. IInv => C!OneSource /\ C!ChunksInOrder /\ C!RecordsWhole
  BY <1>1, <1>2, ClientNames DEF IInv
<1> QED
  BY <1>3, InductiveInvariant, PTL

=============================================================================
