-------------------------- MODULE RemoteStreamProofs --------------------------
(* Proofs about RemoteStream, for any streams and bounds.                   *)
EXTENDS RemoteStream, SequenceTheorems, TLAPS

\* The invariant holds before any visitor is accepted.
THEOREM InitIInv == Init => IInv
BY RemoteBounds
DEF Init, IInv, TypeOK, StreamInv, NotAccepted, SentSoFar, Closing, InOrder,
    Announced, Packets, Queued, Pages

-----------------------------------------------------------------------------
(* Type correctness.                                                         *)

\* A packet that is sent or not leaves a well-formed channel and registry.
LEMMA SendType ==
    ASSUME TypeOK, NEW s \in Streams, NEW p \in PacketKind, SendOrRemove(s, p)
    PROVE  /\ sent' \in [Streams -> Seq(PacketKind)]
           /\ registered' \in BOOLEAN
<1>1. sent[s] \in Seq(PacketKind)
  BY DEF TypeOK
<1>2. Append(sent[s], p) \in Seq(PacketKind)
  BY <1>1, AppendProperties
<1> QED
  BY <1>2 DEF SendOrRemove, TypeOK

\* A message may be put at the end of any queue and taken from its front.
LEMMA MessageType ==
    ASSUME TypeOK, NEW s \in Streams
    PROVE  /\ NotFound \in Message
           /\ \A m \in Message : /\ Append(queue[s], m) \in Seq(Message)
                                 /\ Append(page[s], m) \in Seq(Message)
           /\ queue[s] # <<>> => /\ Head(queue[s]) \in Message
                                 /\ Tail(queue[s]) \in Seq(Message)
<1>1. queue[s] \in Seq(Message) /\ page[s] \in Seq(Message)
  BY DEF TypeOK
<1>2. NotFound \in Message
  BY RemoteBounds DEF NotFound, Message
<1> QED
  BY <1>1, <1>2, AppendProperties, HeadTailProperties

\* Every step keeps every variable in its range.
THEOREM TypeStep == TypeOK /\ [Next]_vars => TypeOK'
<1> SUFFICES ASSUME TypeOK, [Next]_vars PROVE TypeOK'
  OBVIOUS
<1> USE RemoteBounds DEF client, others, socket
<1>1. CASE ChannelClosed \/ Unregistered \/ LatePong \/ ReaderEnds
  BY <1>1 DEF ChannelClosed, Unregistered, LatePong, ReaderEnds, TypeOK
<1>2. ASSUME NEW s \in Streams, VisitorSends(s)
      PROVE  TypeOK'
  BY <1>2 DEF VisitorSends, TypeOK
<1>3. ASSUME NEW s \in Streams, NEW how \in {"eof", "gone"}, VisitorLeaves(s, how)
      PROVE  TypeOK'
  BY <1>3 DEF VisitorLeaves, TypeOK
<1>4. ASSUME NEW s \in Streams, Accept(s)
      PROVE  TypeOK'
  BY <1>4 DEF Accept, TypeOK
<1>5. ASSUME NEW s \in Streams, SendInit(s)
      PROVE  TypeOK'
  <2>1. sent' \in [Streams -> Seq(PacketKind)] /\ registered' \in BOOLEAN
    BY <1>5, SendType DEF SendInit, PacketKind
  <2> QED
    BY <1>5, <2>1 DEF SendInit, TypeOK
<1>6. ASSUME NEW s \in Streams, CheckClient(s)
      PROVE  TypeOK'
  <2>1. Append(queue[s], NotFound) \in Seq(Message)
    BY MessageType
  <2>2. queue' = queue \/ queue' = [queue EXCEPT ![s] = Append(@, NotFound)]
    BY <1>6 DEF CheckClient
  <2>4. queue' \in [Streams -> Seq(Message)]
    BY <2>1, <2>2 DEF TypeOK
  <2>3. tcp' \in [Streams -> {"off", "init", "check", "read", "close", "done"}]
    BY <1>6 DEF CheckClient, TypeOK
  <2> QED
    BY <1>6, <2>3, <2>4 DEF CheckClient, TypeOK
<1>7. ASSUME NEW s \in Streams, ReadData(s)
      PROVE  TypeOK'
  <2>1. sent' \in [Streams -> Seq(PacketKind)] /\ registered' \in BOOLEAN
    BY <1>7, SendType DEF ReadData, PacketKind
  <2>2. unread' \in [Streams -> Nat]
    BY <1>7 DEF ReadData, TypeOK
  <2> QED
    BY <1>7, <2>1, <2>2 DEF ReadData, TypeOK
<1>8. ASSUME NEW s \in Streams, ReadEof(s)
      PROVE  TypeOK'
  <2>1. Append(sent[s], "end") \in Seq(PacketKind)
    BY AppendProperties DEF TypeOK, PacketKind
  <2> QED
    BY <1>8, <2>1 DEF ReadEof, TypeOK
<1>9. ASSUME NEW s \in Streams, ReadFails(s)
      PROVE  TypeOK'
  BY <1>9 DEF ReadFails, TypeOK
<1>10. ASSUME NEW s \in Streams, NEW k \in {"data", "refused"}, Forward(s, k)
       PROVE  TypeOK'
  <2>1. replied[s] + 1 \in 0 .. MaxReplies
    BY <1>10 DEF Forward, TypeOK
  <2>2. [kind |-> k, n |-> replied[s] + 1] \in Message
    BY <2>1 DEF Message
  <2>3. Append(queue[s], [kind |-> k, n |-> replied[s] + 1]) \in Seq(Message)
    BY <2>2, MessageType
  <2> QED
    BY <1>10, <2>1, <2>3 DEF Forward, TypeOK
<1>11. ASSUME NEW s \in Streams, WriteData(s)
       PROVE  TypeOK'
  BY <1>11, MessageType DEF WriteData, TypeOK
<1>12. ASSUME NEW s \in Streams, WriteFails(s)
       PROVE  TypeOK'
  BY <1>12 DEF WriteFails, TypeOK
<1>13. ASSUME NEW s \in Streams, ErrorPage(s)
       PROVE  TypeOK'
  BY <1>13, MessageType DEF ErrorPage, Finish, TypeOK
<1>14. ASSUME NEW s \in Streams, CloseQueue(s)
       PROVE  TypeOK'
  BY <1>14 DEF CloseQueue, TypeOK
<1>15. CASE UNCHANGED vars
  BY <1>15 DEF vars, TypeOK
<1> QED
  BY <1>1, <1>2, <1>3, <1>4, <1>5, <1>6, <1>7, <1>8, <1>9, <1>10, <1>11, <1>12,
     <1>13, <1>14, <1>15 DEF Next

-----------------------------------------------------------------------------
(* What a step does not disturb: each part of the invariant of a stream      *)
(* speaks of that stream's variables only.                                   *)

LEMMA AcceptedKept ==
    ASSUME NEW r \in Streams, NotAccepted(r),
           sink'[r] = sink[r], tcp'[r] = tcp[r], sent'[r] = sent[r],
           queue'[r] = queue[r], queueOpen'[r] = queueOpen[r],
           page'[r] = page[r], replied'[r] = replied[r], shut'[r] = shut[r],
           r \in active => r \in active'
    PROVE  NotAccepted(r)'
BY DEF NotAccepted

\* What the client is told of a stream stays in order when nothing is sent.
LEMMA SentKept ==
    ASSUME NEW r \in Streams, SentSoFar(r),
           tcp'[r] = tcp[r], sent'[r] = sent[r], chanOpen' => chanOpen
    PROVE  SentSoFar(r)'
BY DEF SentSoFar, Packets

\* What is known of a closing queue stays when the queue is left alone.
LEMMA ClosingKept ==
    ASSUME NEW r \in Streams, Closing(r),
           tcp[r] = "done" => tcp'[r] = "done",
           tcp'[r] = "close" => tcp[r] = "close", sink'[r] = sink[r],
           queue'[r] = queue[r], queueOpen'[r] = queueOpen[r]
    PROVE  Closing(r)'
BY DEF Closing, Announced, Queued

\* So does the order of what it holds.
LEMMA OrderKept ==
    ASSUME NEW r \in Streams, InOrder(r),
           sink'[r] = sink[r], queue'[r] = queue[r], page'[r] = page[r],
           replied'[r] = replied[r], shut'[r] = shut[r]
    PROVE  InOrder(r)'
<1>1. /\ Pages(r)' = Pages(r) /\ Queued(r)' = Queued(r)
      /\ Announced(r)' <=> Announced(r)
  BY DEF Pages, Queued, Announced
<1>2. ASSUME sink[r] = "wait", NEW i \in Queued(r)
      PROVE  \/ queue'[r][i] = NotFound
             \/ queue'[r][i].n = Len(page'[r]) + i
             \/ \E j \in Queued(r) : j < i /\ queue'[r][j] = NotFound
  <2>1. \/ queue[r][i] = NotFound
        \/ queue[r][i].n = Len(page[r]) + i
        \/ \E j \in Queued(r) : j < i /\ queue[r][j] = NotFound
    BY <1>2, Zenon DEF InOrder
  <2> QED
    BY <2>1
<1>3. ASSUME sink[r] = "wait"
      PROVE  /\ \A i \in Pages(r) : page'[r][i].kind = "data" /\ page'[r][i].n = i
             /\ replied'[r] = Len(page'[r]) + Len(queue'[r]) \/ Announced(r)
  BY <1>3, Zenon DEF InOrder
<1>4. \A i \in Pages(r) :
         /\ page'[r][i] = NotFound \/ page'[r][i].n = i
         /\ page'[r][i].kind # "data" => i = Len(page'[r]) /\ shut'[r]
  BY Zenon DEF InOrder
<1>5. sink[r] = "wait" => \A i \in Queued(r) :
         \/ queue'[r][i] = NotFound
         \/ queue'[r][i].n = Len(page'[r]) + i
         \/ \E j \in Queued(r) : j < i /\ queue'[r][j] = NotFound
  BY <1>2, Zenon
<1>6. sink'[r] = "wait" =>
         \A i \in Pages(r)' : page'[r][i].kind = "data" /\ page'[r][i].n = i
  BY <1>1, <1>3
<1>7. sink'[r] = "wait" =>
         \A i \in Queued(r)' :
            \/ queue'[r][i] = NotFound
            \/ queue'[r][i].n = Len(page'[r]) + i
            \/ \E j \in Queued(r)' : j < i /\ queue'[r][j] = NotFound
  BY <1>1, <1>5
<1>8. sink'[r] = "wait" =>
         replied'[r] = Len(page'[r]) + Len(queue'[r]) \/ Announced(r)'
  BY <1>1, <1>3
<1>9. \A i \in Pages(r)' :
         /\ page'[r][i] = NotFound \/ page'[r][i].n = i
         /\ page'[r][i].kind # "data" => i = Len(page'[r]) /\ shut'[r]
  BY <1>1, <1>4
<1> QED
  BY <1>6, <1>7, <1>8, <1>9 DEF InOrder

\* A step that leaves a stream's variables alone keeps its invariant, whatever
\* becomes of the client: an open channel is never opened again.
LEMMA StreamKept ==
    ASSUME NEW r \in Streams, StreamInv(r),
           sink'[r] = sink[r], tcp'[r] = tcp[r], sent'[r] = sent[r],
           queue'[r] = queue[r], queueOpen'[r] = queueOpen[r],
           page'[r] = page[r], replied'[r] = replied[r], shut'[r] = shut[r],
           r \in active => r \in active', chanOpen' => chanOpen
    PROVE  StreamInv(r)'
BY AcceptedKept, SentKept, ClosingKept, OrderKept DEF StreamInv

-----------------------------------------------------------------------------
(* The steps of process_tcp_stream, for the stream they belong to.           *)

\* A packet that goes to the client, behind what was sent before.
LEMMA AppendSent ==
    ASSUME TypeOK, NEW s \in Streams, NEW p \in PacketKind,
           sent' = [sent EXCEPT ![s] = Append(@, p)]
    PROVE  /\ Len(sent[s]) \in Nat
           /\ Len(sent'[s]) = Len(sent[s]) + 1
           /\ \A i \in Packets(s) : sent'[s][i] = sent[s][i]
           /\ sent'[s][Len(sent[s]) + 1] = p
           /\ sent'[s] # <<>>
<1>1. sent[s] \in Seq(PacketKind) /\ sent'[s] = Append(sent[s], p)
  BY DEF TypeOK
<1> QED
  BY <1>1, AppendProperties, LenProperties DEF Packets

\* Init is the first packet, and data comes behind it.
LEMMA SendKeeps ==
    ASSUME TypeOK, NEW s \in Streams, NEW p \in {"init", "data"}, SentSoFar(s),
           SendOrRemove(s, p), chanOpen' = chanOpen,
           tcp[s] = IF p = "init" THEN "init" ELSE "read",
           tcp'[s] = "check"
    PROVE  SentSoFar(s)'
<1>1. CASE ~chanOpen
  BY <1>1 DEF SendOrRemove, SentSoFar, Packets
<1>2. CASE chanOpen
  <2>1. sent' = [sent EXCEPT ![s] = Append(@, p)]
    BY <1>2 DEF SendOrRemove
  <2>2. /\ Len(sent[s]) \in Nat
        /\ Len(sent'[s]) = Len(sent[s]) + 1
        /\ \A i \in Packets(s) : sent'[s][i] = sent[s][i]
        /\ sent'[s][Len(sent[s]) + 1] = p
        /\ sent'[s] # <<>>
    BY <2>1, AppendSent DEF PacketKind
  <2>3. p = "init" <=> Len(sent[s]) = 0
    <3>1. sent[s] \in Seq(PacketKind)
      BY DEF TypeOK
    <3> QED
      BY <1>2, <3>1, EmptySeq DEF SentSoFar
  <2>4. \A i \in Packets(s)' : i \in Packets(s) \/ i = Len(sent[s]) + 1
    BY <2>2 DEF Packets
  <2> QED
    BY <2>2, <2>3, <2>4 DEF SentSoFar, Packets
<1> QED
  BY <1>1, <1>2

\* The end of a stream comes last.
LEMMA EndKeeps ==
    ASSUME TypeOK, NEW s \in Streams, SentSoFar(s), tcp[s] = "read",
           sent' = IF chanOpen THEN [sent EXCEPT ![s] = Append(@, "end")]
                               ELSE sent,
           tcp'[s] = "done"
    PROVE  SentSoFar(s)'
<1>1. CASE ~chanOpen
  BY <1>1 DEF SentSoFar, Packets
<1>2. CASE chanOpen
  <2>1. /\ Len(sent[s]) \in Nat
        /\ Len(sent'[s]) = Len(sent[s]) + 1
        /\ \A i \in Packets(s) : sent'[s][i] = sent[s][i]
        /\ sent'[s][Len(sent[s]) + 1] = "end"
    BY <1>2, AppendSent DEF PacketKind
  <2>2. Len(sent[s]) # 0
    <3>1. sent[s] \in Seq(PacketKind) /\ sent[s] # <<>>
      BY <1>2 DEF TypeOK, SentSoFar
    <3> QED
      BY <3>1, EmptySeq
  <2>3. \A i \in Packets(s)' : i \in Packets(s) \/ i = Len(sent[s]) + 1
    BY <2>1 DEF Packets
  <2>4. \A i \in Packets(s) : sent[s][i] # "end"
    BY DEF SentSoFar
  <2> QED
    BY <2>1, <2>2, <2>3, <2>4 DEF SentSoFar, Packets
<1> QED
  BY <1>1, <1>2

-----------------------------------------------------------------------------
(* The queue of a stream.                                                    *)

\* A message m put at the end of a queue.
LEMMA AppendQueue ==
    ASSUME TypeOK, NEW s \in Streams, NEW m \in Message,
           queue'[s] = Append(queue[s], m)
    PROVE  /\ Len(queue[s]) \in Nat /\ Len(page[s]) \in Nat
           /\ Len(queue'[s]) = Len(queue[s]) + 1
           /\ \A i \in Queued(s) : queue'[s][i] = queue[s][i]
           /\ queue'[s][Len(queue[s]) + 1] = m
           /\ queue'[s] # <<>>
           /\ \A i \in Queued(s)' : i \in Queued(s) \/ i = Len(queue[s]) + 1
<1>1. queue[s] \in Seq(Message) /\ page[s] \in Seq(Message)
  BY DEF TypeOK
<1> QED
  BY <1>1, AppendProperties, LenProperties DEF Queued

\* The head of a queue written to the visitor.
LEMMA WritePage ==
    ASSUME TypeOK, NEW s \in Streams, queue[s] # <<>>,
           page'[s] = Append(page[s], Head(queue[s]))
    PROVE  /\ Len(page[s]) \in Nat /\ Len(queue[s]) \in Nat \ {0}
           /\ Len(page'[s]) = Len(page[s]) + 1
           /\ \A i \in Pages(s) : page'[s][i] = page[s][i]
           /\ page'[s][Len(page[s]) + 1] = queue[s][1]
           /\ page'[s] # <<>>
           /\ \A i \in Pages(s)' : i \in Pages(s) \/ i = Len(page[s]) + 1
<1>1. queue[s] \in Seq(Message) /\ page[s] \in Seq(Message)
  BY DEF TypeOK
<1>2. Head(queue[s]) = queue[s][1] /\ Head(queue[s]) \in Message
  BY <1>1, HeadTailProperties
<1> QED
  BY <1>1, <1>2, AppendProperties, LenProperties, EmptySeq DEF Pages

-----------------------------------------------------------------------------
(* The inductive step.                                                       *)

THEOREM IInvStep == IInv /\ [Next]_vars => IInv'
<1> SUFFICES ASSUME IInv, [Next]_vars, NEW r \in Streams
             PROVE  StreamInv(r)'
  BY TypeStep DEF IInv
<1>a. TypeOK /\ TypeOK' /\ StreamInv(r)
  BY TypeStep DEF IInv
<1>t. /\ tcp \in [Streams -> {"off", "init", "check", "read", "close", "done"}]
      /\ sink \in [Streams -> {"off", "wait", "done"}]
      /\ queue \in [Streams -> Seq(Message)]
      /\ queueOpen \in [Streams -> BOOLEAN]
      /\ sent \in [Streams -> Seq(PacketKind)]
      /\ replied \in [Streams -> 0 .. MaxReplies]
      /\ page \in [Streams -> Seq(Message)]
      /\ shut \in [Streams -> BOOLEAN]
  BY <1>a DEF TypeOK
<1>b. NotAccepted(r) /\ SentSoFar(r) /\ Closing(r) /\ InOrder(r)
  BY <1>a DEF StreamInv
<1> USE <1>t DEF client, others, socket
<1>1. CASE ChannelClosed \/ Unregistered \/ LatePong \/ ReaderEnds
  BY <1>1, <1>a, StreamKept
  DEF ChannelClosed, Unregistered, LatePong, ReaderEnds
<1>2. ASSUME NEW s \in Streams, VisitorSends(s)
      PROVE  StreamInv(r)'
  BY <1>2, <1>a, StreamKept DEF VisitorSends
<1>3. ASSUME NEW s \in Streams, NEW how \in {"eof", "gone"}, VisitorLeaves(s, how)
      PROVE  StreamInv(r)'
  BY <1>3, <1>a, StreamKept DEF VisitorLeaves
<1>4. ASSUME NEW s \in Streams, Accept(s)
      PROVE  StreamInv(r)'
  <2>1. CASE r # s
    BY <1>4, <1>a, <2>1, StreamKept DEF Accept
  <2>2. CASE r = s
    <3> USE <1>4, <1>b, <2>2 DEF Accept
    <3>1. NotAccepted(s)'
      BY DEF NotAccepted
    <3>2. SentSoFar(s)'
      BY DEF SentSoFar, NotAccepted, Packets
    <3>3. Closing(s)' /\ InOrder(s)'
      BY DEF Closing, InOrder, Announced, NotAccepted, Pages, Queued
    <3> QED
      BY <3>1, <3>2, <3>3 DEF StreamInv
  <2> QED
    BY <2>1, <2>2
<1>5. ASSUME NEW s \in Streams, SendInit(s)
      PROVE  StreamInv(r)'
  <2>0. \A q \in Streams \ {s} : sent'[q] = sent[q] /\ tcp'[q] = tcp[q]
    BY <1>5 DEF SendInit, SendOrRemove
  <2>1. CASE r # s
    BY <1>5, <1>a, <2>0, <2>1, StreamKept DEF SendInit
  <2>2. CASE r = s
    <3> USE <1>5, <1>b, <2>2 DEF SendInit
    <3>1. SentSoFar(s)'
      BY <1>a, SendKeeps
    <3>2. NotAccepted(s)'
      BY DEF NotAccepted
    <3>3. Closing(s)' /\ InOrder(s)'
      BY ClosingKept, OrderKept
    <3> QED
      BY <3>1, <3>2, <3>3 DEF StreamInv
  <2> QED
    BY <2>1, <2>2
<1>6. ASSUME NEW s \in Streams, CheckClient(s)
      PROVE  StreamInv(r)'
  <2>1. CASE r # s
    BY <1>6, <1>a, <2>1, StreamKept DEF CheckClient
  <2>2. CASE r = s /\ registered
    <3> USE <1>6, <1>b, <2>2 DEF CheckClient
    <3>1. NotAccepted(s)' /\ SentSoFar(s)'
      BY DEF NotAccepted, SentSoFar, Packets
    <3>2. Closing(s)' /\ InOrder(s)'
      BY OrderKept DEF Closing
    <3> QED
      BY <3>1, <3>2 DEF StreamInv
  <2>3. CASE r = s /\ ~registered /\ sink[s] # "wait"
    <3> USE <1>6, <1>b, <2>3 DEF CheckClient
    <3>1. NotAccepted(s)' /\ SentSoFar(s)'
      BY DEF NotAccepted, SentSoFar, Packets
    <3>2. Closing(s)' /\ InOrder(s)'
      BY DEF Closing, InOrder, Pages, Queued
    <3> QED
      BY <3>1, <3>2 DEF StreamInv
  <2>4. CASE r = s /\ ~registered /\ sink[s] = "wait"
    <3> USE <1>6, <1>b, <2>4 DEF CheckClient
    <3>1. NotAccepted(s)' /\ SentSoFar(s)'
      BY DEF NotAccepted, SentSoFar, Packets
    <3>2. queue'[s] = Append(queue[s], NotFound) /\ NotFound \in Message
      BY <1>a, MessageType
    <3>3. /\ Len(queue[s]) \in Nat
          /\ Len(queue'[s]) = Len(queue[s]) + 1
          /\ \A i \in Queued(s) : queue'[s][i] = queue[s][i]
          /\ queue'[s][Len(queue[s]) + 1] = NotFound
          /\ \A i \in Queued(s)' : i \in Queued(s) \/ i = Len(queue[s]) + 1
      BY <1>a, <3>2, AppendQueue, ZenonT(60)
    <3>4. Queued(s) \subseteq Queued(s)' /\ Len(queue[s]) + 1 \in Queued(s)'
      BY <3>3 DEF Queued
    <3>5. Announced(s)'
      BY <3>3, <3>4 DEF Announced
    <3>6. Closing(s)'
      BY <3>5 DEF Closing
    <3>7. \A i \in Queued(s)' :
             \/ queue'[s][i] = NotFound
             \/ queue'[s][i].n = Len(page[s]) + i
             \/ \E j \in Queued(s)' : j < i /\ queue'[s][j] = NotFound
      <4>1. \A i \in Queued(s) :
               \/ queue[s][i] = NotFound
               \/ queue[s][i].n = Len(page[s]) + i
               \/ \E j \in Queued(s) : j < i /\ queue[s][j] = NotFound
        BY DEF InOrder
      <4> QED
        BY <3>3, <3>4, <4>1, ZenonT(60)
    <3>8. InOrder(s)'
      BY <3>5, <3>7 DEF InOrder, Pages
    <3> QED
      BY <3>1, <3>6, <3>8 DEF StreamInv
  <2> QED
    BY <2>1, <2>2, <2>3, <2>4
<1>7. ASSUME NEW s \in Streams, ReadData(s)
      PROVE  StreamInv(r)'
  <2>0. \A q \in Streams \ {s} : sent'[q] = sent[q] /\ tcp'[q] = tcp[q]
    BY <1>7 DEF ReadData, SendOrRemove
  <2>1. CASE r # s
    BY <1>7, <1>a, <2>0, <2>1, StreamKept DEF ReadData
  <2>2. CASE r = s
    <3> USE <1>7, <1>b, <2>2 DEF ReadData
    <3>1. SentSoFar(s)'
      BY <1>a, SendKeeps
    <3>2. NotAccepted(s)'
      BY DEF NotAccepted
    <3>3. Closing(s)' /\ InOrder(s)'
      BY ClosingKept, OrderKept
    <3> QED
      BY <3>1, <3>2, <3>3 DEF StreamInv
  <2> QED
    BY <2>1, <2>2
<1>8. ASSUME NEW s \in Streams, ReadEof(s)
      PROVE  StreamInv(r)'
  <2>1. CASE r # s
    BY <1>8, <1>a, <2>1, StreamKept DEF ReadEof
  <2>2. CASE r = s
    <3> USE <1>8, <1>b, <2>2 DEF ReadEof
    <3>1. SentSoFar(s)'
      BY <1>a, EndKeeps
    <3>2. NotAccepted(s)'
      BY DEF NotAccepted
    <3>3. Closing(s)' /\ InOrder(s)'
      BY ClosingKept, OrderKept
    <3> QED
      BY <3>1, <3>2, <3>3 DEF StreamInv
  <2> QED
    BY <2>1, <2>2
<1>9. ASSUME NEW s \in Streams, ReadFails(s)
      PROVE  StreamInv(r)'
  <2>1. CASE r # s
    BY <1>9, <1>a, <2>1, StreamKept DEF ReadFails
  <2>2. CASE r = s
    <3> USE <1>9, <1>b, <2>2 DEF ReadFails
    <3>1. NotAccepted(s)' /\ SentSoFar(s)'
      BY DEF NotAccepted, SentSoFar, Packets
    <3>2. Closing(s)' /\ InOrder(s)'
      BY ClosingKept, OrderKept
    <3> QED
      BY <3>1, <3>2 DEF StreamInv
  <2> QED
    BY <2>1, <2>2
<1>10. ASSUME NEW s \in Streams, NEW k \in {"data", "refused"}, Forward(s, k)
       PROVE  StreamInv(r)'
  <2>1. CASE r # s
    BY <1>10, <1>a, <2>1, StreamKept DEF Forward
  <2>2. CASE r = s /\ ~(s \in active /\ sink[s] = "wait" /\ queueOpen[s])
    <3> USE <1>10, <1>b, <2>2 DEF Forward
    <3>1. NotAccepted(s)' /\ SentSoFar(s)' /\ Closing(s)'
      BY SentKept, ClosingKept DEF NotAccepted, Told
    <3>2. sink[s] = "wait" => Announced(s)
      BY DEF Closing, NotAccepted
    <3>3. /\ Pages(s)' = Pages(s) /\ Queued(s)' = Queued(s)
          /\ Announced(s)' = Announced(s)
      BY DEF Pages, Queued, Announced
    <3>4. InOrder(s)'
      BY <3>2, <3>3 DEF InOrder
    <3> QED
      BY <3>1, <3>4 DEF StreamInv
  <2>3. CASE r = s /\ s \in active /\ sink[s] = "wait" /\ queueOpen[s]
    <3> USE <1>10, <1>b, <2>3 DEF Forward
    <3> DEFINE m == [kind |-> k, n |-> replied[s] + 1]
    <3>1. queue'[s] = Append(queue[s], m) /\ m \in Message
      <4>1. replied[s] + 1 \in 0 .. MaxReplies
        BY RemoteBounds
      <4> QED
        BY <4>1 DEF Message
    <3>0. m.n = replied[s] + 1
      OBVIOUS
    <3> HIDE DEF m
    <3>2. /\ Len(queue[s]) \in Nat /\ Len(page[s]) \in Nat
          /\ Len(queue'[s]) = Len(queue[s]) + 1
          /\ \A i \in Queued(s) : queue'[s][i] = queue[s][i]
          /\ queue'[s][Len(queue[s]) + 1] = m
          /\ queue'[s] # <<>>
          /\ \A i \in Queued(s)' : i \in Queued(s) \/ i = Len(queue[s]) + 1
      BY <1>a, <3>1, AppendQueue
    <3>3. NotAccepted(s)' /\ SentSoFar(s)'
      BY SentKept DEF NotAccepted
    <3>4. \/ /\ m.n = Len(page[s]) + (Len(queue[s]) + 1)
             /\ replied'[s] = Len(page[s]) + (Len(queue[s]) + 1)
          \/ Announced(s)
      <4>1. replied[s] = Len(page[s]) + Len(queue[s]) \/ Announced(s)
        BY DEF InOrder
      <4>2. replied'[s] = replied[s] + 1
        OBVIOUS
      <4> QED
        BY <3>0, <3>2, <4>1, <4>2
    <3>5. Queued(s) \subseteq Queued(s)'
      BY <3>2 DEF Queued
    <3>6. Announced(s) =>
             Announced(s)' /\ \E j \in Queued(s)' : /\ j < Len(queue[s]) + 1
                                                   /\ queue'[s][j] = NotFound
      BY <3>2, <3>5 DEF Announced, Queued
    <3>7. \A i \in Queued(s)' :
             \/ queue'[s][i] = NotFound
             \/ queue'[s][i].n = Len(page[s]) + i
             \/ \E j \in Queued(s)' : j < i /\ queue'[s][j] = NotFound
      <4>1. \A i \in Queued(s) :
               \/ queue[s][i] = NotFound
               \/ queue[s][i].n = Len(page[s]) + i
               \/ \E j \in Queued(s) : j < i /\ queue[s][j] = NotFound
        BY DEF InOrder
      <4> QED
        BY <3>2, <3>4, <3>5, <3>6, <4>1, ZenonT(60)
    <3>8. replied'[s] = Len(page[s]) + Len(queue'[s]) \/ Announced(s)'
      BY <3>2, <3>4, <3>6
    <3>9. InOrder(s)'
      BY <3>7, <3>8 DEF InOrder, Pages
    <3>10. Closing(s)'
      BY <3>6 DEF Closing
    <3> QED
      BY <3>3, <3>9, <3>10 DEF StreamInv
  <2> QED
    BY <2>1, <2>2, <2>3
<1>11. ASSUME NEW s \in Streams, WriteData(s)
       PROVE  StreamInv(r)'
  <2>1. CASE r # s
    BY <1>11, <1>a, <2>1, StreamKept DEF WriteData
  <2>2. CASE r = s
    <3> USE <1>11, <1>b, <2>2 DEF WriteData
    <3>1. NotAccepted(s)' /\ SentSoFar(s)'
      BY SentKept DEF NotAccepted
    <3>2. /\ Len(page[s]) \in Nat /\ Len(queue[s]) \in Nat \ {0}
          /\ Len(page'[s]) = Len(page[s]) + 1
          /\ \A i \in Pages(s) : page'[s][i] = page[s][i]
          /\ page'[s][Len(page[s]) + 1] = queue[s][1]
          /\ \A i \in Pages(s)' : i \in Pages(s) \/ i = Len(page[s]) + 1
      BY <1>a, WritePage
    <3>3. /\ Len(queue'[s]) = Len(queue[s]) - 1
          /\ \A i \in Queued(s)' : queue'[s][i] = queue[s][i + 1]
      BY HeadTailProperties DEF Queued
    <3>4. queue[s][1].kind = "data"
      OBVIOUS
    <3>5. 1 \in Queued(s) /\ queue[s][1] # NotFound
      BY <3>2, <3>4 DEF Queued, NotFound
    <3>6. queue[s][1].n = Len(page[s]) + 1
      BY <3>2, <3>5 DEF InOrder, Queued
    <3>7. \A i \in Queued(s) : queue[s][i] = NotFound =>
             \E j \in Queued(s)' : i = j + 1 /\ queue'[s][j] = NotFound
      <4> SUFFICES ASSUME NEW i \in Queued(s), queue[s][i] = NotFound
                   PROVE  \E j \in Queued(s)' : i = j + 1 /\ queue'[s][j] = NotFound
        OBVIOUS
      <4>1. i - 1 \in Queued(s)' /\ i = (i - 1) + 1
        BY <3>2, <3>3, <3>5 DEF Queued
      <4>2. queue'[s][i - 1] = NotFound
        BY <3>3, <4>1
      <4> QED
        BY <4>1, <4>2
    <3>8. Announced(s) => Announced(s)'
      BY <3>7 DEF Announced
    <3>9. Closing(s)'
      BY <3>8 DEF Closing
    <3>10. \A i \in Queued(s)' :
              \/ queue'[s][i] = NotFound
              \/ queue'[s][i].n = Len(page'[s]) + i
              \/ \E j \in Queued(s)' : j < i /\ queue'[s][j] = NotFound
      <4>0. \A q \in Queued(s) :
               \/ queue[s][q] = NotFound
               \/ queue[s][q].n = Len(page[s]) + q
               \/ \E j \in Queued(s) : j < q /\ queue[s][j] = NotFound
        BY DEF InOrder
      <4> SUFFICES ASSUME NEW i \in Queued(s)', queue'[s][i] # NotFound
                   PROVE  \/ queue'[s][i].n = Len(page'[s]) + i
                          \/ \E j \in Queued(s)' : j < i /\ queue'[s][j] = NotFound
        OBVIOUS
      <4>1. i + 1 \in Queued(s) /\ Len(page'[s]) + i = Len(page[s]) + (i + 1)
        BY <3>2, <3>3 DEF Queued
      <4>2. \/ queue[s][i + 1].n = Len(page[s]) + (i + 1)
            \/ \E j \in Queued(s) : j < i + 1 /\ queue[s][j] = NotFound
        <5>1. queue[s][i + 1] # NotFound
          BY <3>3
        <5> QED
          BY <4>0, <4>1, <5>1, Zenon
      <4>3. ASSUME NEW j \in Queued(s), j < i + 1, queue[s][j] = NotFound
            PROVE  \E k \in Queued(s)' : k < i /\ queue'[s][k] = NotFound
        <5>1. PICK k \in Queued(s)' : j = k + 1 /\ queue'[s][k] = NotFound
          BY <3>7, <4>3, Zenon
        <5>2. k \in Nat /\ i \in Nat
          BY <3>2, <3>3 DEF Queued
        <5>3. k < i
          BY <4>3, <5>1, <5>2
        <5> QED
          BY <5>1, <5>3
      <4> QED
        BY <3>3, <4>1, <4>2, <4>3
    <3>11. replied[s] = Len(page'[s]) + Len(queue'[s]) \/ Announced(s)'
      <4>1. replied[s] = Len(page[s]) + Len(queue[s]) \/ Announced(s)
        BY DEF InOrder
      <4> QED
        BY <3>2, <3>3, <3>8, <4>1
    <3>12. \A i \in Pages(s)' : page'[s][i].kind = "data" /\ page'[s][i].n = i
      <4>1. \A i \in Pages(s) : page[s][i].kind = "data" /\ page[s][i].n = i
        BY DEF InOrder
      <4> QED
        BY <3>2, <3>4, <3>6, <4>1, ZenonT(60)
    <3>13. InOrder(s)'
      BY <3>10, <3>11, <3>12 DEF InOrder
    <3> QED
      BY <3>1, <3>9, <3>13 DEF StreamInv
  <2> QED
    BY <2>1, <2>2
<1>12. ASSUME NEW s \in Streams, WriteFails(s)
       PROVE  StreamInv(r)'
  <2>1. CASE r # s
    BY <1>12, <1>a, <2>1, StreamKept DEF WriteFails
  <2>2. CASE r = s
    <3> USE <1>12, <1>b, <2>2 DEF WriteFails
    <3>1. NotAccepted(s)' /\ SentSoFar(s)' /\ Closing(s)'
      BY SentKept DEF NotAccepted, Closing
    <3>2. InOrder(s)'
      BY DEF InOrder, Pages
    <3> QED
      BY <3>1, <3>2 DEF StreamInv
  <2> QED
    BY <2>1, <2>2
<1>13. ASSUME NEW s \in Streams, ErrorPage(s)
       PROVE  StreamInv(r)'
  <2>1. CASE r # s
    BY <1>13, <1>a, <2>1, StreamKept DEF ErrorPage, Finish
  <2>2. CASE r = s
    <3> USE <1>13, <1>b, <2>2 DEF ErrorPage, Finish
    <3>1. NotAccepted(s)' /\ SentSoFar(s)' /\ Closing(s)'
      BY SentKept DEF NotAccepted, Closing
    <3>2. /\ Len(page[s]) \in Nat /\ Len(queue[s]) \in Nat \ {0}
          /\ Len(page'[s]) = Len(page[s]) + 1
          /\ \A i \in Pages(s) : page'[s][i] = page[s][i]
          /\ page'[s][Len(page[s]) + 1] = queue[s][1]
          /\ page'[s] # <<>>
          /\ \A i \in Pages(s)' : i \in Pages(s) \/ i = Len(page[s]) + 1
      BY <1>a, WritePage
    <3>3. queue[s][1].kind # "data" /\ 1 \in Queued(s)
      BY <3>2 DEF Queued
    <3>4. queue[s][1] = NotFound \/ queue[s][1].n = Len(page[s]) + 1
      BY <3>2, <3>3 DEF InOrder, Queued
    <3>5. \A i \in Pages(s)' :
             /\ page'[s][i] = NotFound \/ page'[s][i].n = i
             /\ page'[s][i].kind # "data" => i = Len(page'[s])
      <4>1. \A i \in Pages(s) : page[s][i].kind = "data" /\ page[s][i].n = i
        BY DEF InOrder
      <4> QED
        BY <3>2, <3>3, <3>4, <4>1, ZenonT(60)
    <3>6. InOrder(s)'
      BY <3>5, ZenonT(60) DEF InOrder
    <3> QED
      BY <3>1, <3>6 DEF StreamInv
  <2> QED
    BY <2>1, <2>2
<1>14. ASSUME NEW s \in Streams, CloseQueue(s)
       PROVE  StreamInv(r)'
  <2>1. CASE r # s
    BY <1>14, <1>a, <2>1, StreamKept DEF CloseQueue
  <2>2. CASE r = s
    <3> USE <1>14, <1>b, <2>2 DEF CloseQueue
    <3>1. NotAccepted(s)' /\ SentSoFar(s)'
      BY DEF NotAccepted, SentSoFar, Packets
    <3>2. Closing(s)'
      BY DEF Closing, Announced, Queued
    <3>3. InOrder(s)'
      BY OrderKept
    <3> QED
      BY <3>1, <3>2, <3>3 DEF StreamInv
  <2> QED
    BY <2>1, <2>2
<1>15. CASE UNCHANGED vars
  BY <1>15, <1>a, StreamKept DEF vars
<1> QED
  BY <1>1, <1>2, <1>3, <1>4, <1>5, <1>6, <1>7, <1>8, <1>9, <1>10, <1>11, <1>12,
     <1>13, <1>14, <1>15 DEF Next

\* The invariant holds in every reachable state.
THEOREM InductiveInvariant == Spec => []IInv
BY InitIInv, IInvStep, PTL DEF Spec

-----------------------------------------------------------------------------
(* What follows from it.                                                     *)

\* Type correctness of the streams.
THEOREM TypeCorrect == Spec => []TypeOK
BY InductiveInvariant, PTL DEF IInv

\* The client hears of a stream before its data, and of its end last.
THEOREM ProtocolOrderHolds == Spec => []ProtocolOrder
<1>1. IInv => ProtocolOrder
  BY DEF IInv, ProtocolOrder, StreamInv, SentSoFar, Packets
<1> QED
  BY <1>1, InductiveInvariant, PTL

\* The visitor gets the client's answers gapless and in order.
THEOREM GaplessHolds == Spec => []Gapless
<1>1. IInv => Gapless
  BY DEF IInv, Gapless, StreamInv, InOrder, Pages
<1> QED
  BY <1>1, InductiveInvariant, PTL

\* Nothing follows an error page.
THEOREM ErrorPageIsLast == Spec => []ErrorPageEnds
<1>1. IInv => ErrorPageEnds
  BY DEF IInv, ErrorPageEnds, StreamInv, InOrder, Pages
<1> QED
  BY <1>1, InductiveInvariant, PTL

\* A queue that was closed still holds the message for the visitor.
THEOREM ClosedQueueHasNotFound == Spec => []ClosedQueueSpeaks
<1>1. IInv => ClosedQueueSpeaks
  BY DEF IInv, ClosedQueueSpeaks, StreamInv, Closing, Announced, Queued
<1> QED
  BY <1>1, InductiveInvariant, PTL

\* A stream keeps its entry, and every answer to it is written or queued,
\* as long as its sink waits and the loss of the client is not announced.
THEOREM NoAnswerDropped == Spec => []AnswersKept
<1>1. IInv => AnswersKept
  BY DEF IInv, AnswersKept, StreamInv, NotAccepted, InOrder, Announced, Queued
<1> QED
  BY <1>1, InductiveInvariant, PTL

-----------------------------------------------------------------------------
(* The client of the streams, as module ClientLink has it.                  *)

Link == INSTANCE ClientLink

\* The streams may see any client that ClientLink allows: this module assumes
\* nothing of it that is not there.
THEOREM LinkIsAllowed ==
    TypeOK' /\ Link!Next /\ UNCHANGED others => Next
BY DEF TypeOK, Link!Next, Link!Close, Link!Unregister, Link!Register, Link!End,
   Next, ChannelClosed, Unregistered, LatePong, ReaderEnds

\* What a step of a stream does to its client: it removes a client whose
\* channel it has found closed, and nothing else.
LEMMA SendLink ==
    ASSUME NEW s, NEW p, SendOrRemove(s, p), TypeOK, UNCHANGED <<chanOpen, reader>>
    PROVE  Link!Next \/ UNCHANGED Link!vars
BY DEF SendOrRemove, TypeOK, Link!Next, Link!Unregister, Link!vars

\* Every step of this module is one of the link, or nothing to it.
LEMMA StepLinks == TypeOK /\ [Next]_vars => [Link!Next]_(Link!vars)
<1> SUFFICES ASSUME TypeOK, [Next]_vars
             PROVE  Link!Next \/ UNCHANGED Link!vars
  OBVIOUS
<1>1. CASE ChannelClosed \/ Unregistered \/ LatePong \/ ReaderEnds
  BY <1>1 DEF ChannelClosed, Unregistered, LatePong, ReaderEnds, TypeOK,
     Link!Next, Link!Close, Link!Unregister, Link!Register, Link!End
<1>2. ASSUME NEW s \in Streams, SendInit(s) \/ ReadData(s)
      PROVE  Link!Next \/ UNCHANGED Link!vars
  BY <1>2, SendLink DEF SendInit, ReadData
<1>3. CASE UNCHANGED client
  BY <1>3 DEF client, Link!vars
<1>4. ASSUME NEW s \in Streams, CheckClient(s) \/ CloseQueue(s)
                \/ ReadEof(s) \/ ReadFails(s)
                \/ WriteData(s) \/ WriteFails(s) \/ ErrorPage(s) \/ Accept(s)
                \/ VisitorSends(s)
                \/ (\E how \in {"eof", "gone"} : VisitorLeaves(s, how))
                \/ (\E k \in {"data", "refused"} : Forward(s, k))
      PROVE  UNCHANGED client
  BY <1>4 DEF CheckClient, CloseQueue, ReadEof, ReadFails, WriteData,
     WriteFails, ErrorPage,
     Accept, VisitorSends, VisitorLeaves, Forward
<1>5. CASE UNCHANGED vars
  BY <1>3, <1>5 DEF vars
<1> QED
  BY <1>1, <1>2, <1>3, <1>4, <1>5 DEF Next

\* The streams on their part make no other client of it than the control
\* server does: they unregister it behind a closed channel only.
THEOREM KeepsLink == Spec => Link!Spec
<1>1. Init => Link!Init
  BY DEF Init, Link!Init
<1> QED
  BY <1>1, StepLinks, TypeCorrect, PTL DEF Spec, Link!Spec
=============================================================================
