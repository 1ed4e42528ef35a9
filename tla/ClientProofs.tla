----------------------------- MODULE ClientProofs -----------------------------
(* Proofs about Client, for any streams, eras, connections and bounds.       *)
EXTENDS Client, TLAPS

-----------------------------------------------------------------------------
(* The steps a Next consists of, each at its stream, connection or era.      *)

\* Steps that have no stream but the reader's.
Reads ==
    ReaderEnds \/ Restart \/ Look \/ Connect \/ ConnectFails \/ Insert
    \/ Deliver \/ Refuse \/ SendFails

\* Steps of the loop and of the websockets.
Wires(e) ==
    Loop \/ Ping \/ Lost(e) \/ TcpTimeout(e)
    \/ WriterSend(e) \/ WriterFails(e) \/ WriterEnds(e)

Streamwise(s) ==
    InitStream(s) \/ Data(s) \/ End(s) \/ EndLooks(s) \/ EndCloses(s)
    \/ EndForgets(s)

Connwise(c) ==
    LocalCloses(c) \/ LocalResets(c) \/ SourceSends(c) \/ SourcePanics(c)
    \/ SourceEnds(c) \/ FwdWrites(c) \/ FwdPanics(c) \/ FwdCloses(c)
    \/ Collect(c)

\* The steps of the client by the task that takes them.
LEMMA NextCases ==
  ASSUME Next
  PROVE  \/ Reads
         \/ \E e \in Eras : Wires(e)
         \/ \E s \in Streams : Streamwise(s)
         \/ \E c \in Locals : Connwise(c)
BY ClientBounds DEF Next, Reads, Wires, Streamwise, Connwise, Packet, Writer,
   Source, Fwd, Ender, Eras

\* A local connection is a stream and a number.
LEMMA LocalFacts ==
    /\ \A s \in Streams : \A k \in 1 .. MaxConns : <<s, k>> \in Locals
    /\ \A c \in Locals :
          /\ c[1] \in Streams /\ c[2] \in 1 .. MaxConns /\ c[2] # 0
          /\ c[2] \in 0 .. MaxConns
          /\ c = <<c[1], c[2]>>
BY ClientBounds DEF Locals

-----------------------------------------------------------------------------
(* Type correctness.                                                        *)

\* At the start there are no streams and no local connections.
THEOREM InitIInv == Init => IInv
<1> SUFFICES ASSUME Init PROVE IInv
  OBVIOUS
<1> USE ClientBounds DEF Init
<1>1. TypeOK
  BY DEF TypeOK, Record, Records, Eras
<1>2. LoopInv
  BY DEF LoopInv
<1>3. ASSUME NEW s \in Streams
      PROVE  StreamInv(s)
  <2>1. Entered(s)
    BY DEF Entered, Busy
  <2>2. ASSUME NEW k \in 1 .. MaxConns
        PROVE  Tasks(s, k) /\ Recorded(s, k) /\ Chunks(s, k)
    <3>1. <<s, k>> \in Locals
      BY LocalFacts
    <3>2. Tasks(s, k) /\ Recorded(s, k)
      BY <3>1 DEF Tasks, Recorded, Record
    <3>3. RunFrom(wrote[<<s, k>>], queue[<<s, k>>], 0) /\ UpToDate(s, k, 0)
      BY <3>1 DEF RunFrom, UpToDate
    <3>4. ClosesLast(queue[<<s, k>>]) /\ ~ Closing(queue[<<s, k>>])
      BY <3>1 DEF ClosesLast, Closing
    <3> QED
      BY <3>1, <3>2, <3>3, <3>4 DEF Chunks
  <2>3. Earlier(s)
    <3>1. ASSUME NEW k \in 1 .. MaxConns
          PROVE  Given(<<s, k>>) = {}
      <4>1. wrote[<<s, k>>] = <<>> /\ queue[<<s, k>>] = <<>>
        BY LocalFacts
      <4> QED
        BY <4>1 DEF Given, Numbers
    <3> QED
      BY <3>1 DEF Earlier
  <2> QED
    BY <2>1, <2>2, <2>3 DEF StreamInv
<1> QED
  BY <1>1, <1>2, <1>3 DEF IInv

\* What is left of a queue whose first element is taken.
LEMMA HeadTail ==
  ASSUME NEW S, NEW q \in Seq(S), q # <<>>
  PROVE  /\ Head(q) \in S /\ Tail(q) \in Seq(S)
         /\ Len(q) \in Nat \ {0} /\ Head(q) = q[1]
         /\ Len(Tail(q)) = Len(q) - 1
         /\ \A i \in 1 .. Len(Tail(q)) : Tail(q)[i] = q[i + 1]
  OBVIOUS

\* What a queue is with one element more.
LEMMA Appended ==
  ASSUME NEW S, NEW q \in Seq(S), NEW x \in S
  PROVE  /\ Append(q, x) \in Seq(S) /\ Append(q, x) # <<>>
         /\ Len(q) \in Nat /\ Len(Append(q, x)) = Len(q) + 1
         /\ \A i \in 1 .. Len(q) : Append(q, x)[i] = q[i]
         /\ Append(q, x)[Len(q) + 1] = x
  OBVIOUS

\* A run of chunks: none, one more at the end, its close, one written, all
\* that is queued dropped.
LEMMA NoRun ==
  ASSUME NEW b \in Nat
  PROVE  /\ RunFrom(<<>>, <<>>, b) /\ Numbers(<<>>, <<>>) = {}
         /\ ClosesLast(<<>>) /\ ~ Closing(<<>>) /\ Len(<<>>) = 0
  BY DEF RunFrom, Numbers, ClosesLast, Closing

\* A chunk is queued behind the last one.
LEMMA RunGrows ==
  ASSUME NEW w \in Seq(Nat), NEW q \in Seq(Nat), NEW b \in Nat, NEW x \in Nat,
         RunFrom(w, q, b), ~ Closing(q), x # Close, x = b + Len(w) + Len(q) + 1
  PROVE  /\ RunFrom(w, Append(q, x), b)
         /\ ~ Closing(Append(q, x)) /\ ClosesLast(Append(q, x))
         /\ Numbers(w, Append(q, x)) \subseteq Numbers(w, q) \cup {x}
         /\ Len(w) \in Nat /\ Len(q) \in Nat /\ Len(Append(q, x)) = Len(q) + 1
<1>1. /\ Len(q) \in Nat /\ Len(w) \in Nat /\ Len(Append(q, x)) = Len(q) + 1
      /\ \A i \in 1 .. Len(q) : Append(q, x)[i] = q[i]
      /\ Append(q, x)[Len(q) + 1] = x
  BY Appended
<1> DEFINE a == Append(q, x)
<1> HIDE DEF a
<1>2. /\ Len(a) = Len(q) + 1
      /\ \A i \in 1 .. Len(a) : (i \in 1 .. Len(q) /\ a[i] = q[i]) \/ (i = Len(q) + 1 /\ a[i] = x)
  BY <1>1 DEF a
<1>3. RunFrom(w, a, b)
  <2>1. ASSUME NEW i \in 1 .. Len(a), a[i] # Close
        PROVE  a[i] = b + Len(w) + i
    <3>1. CASE i \in 1 .. Len(q) /\ a[i] = q[i]
      BY <2>1, <3>1 DEF RunFrom
    <3>2. CASE i = Len(q) + 1 /\ a[i] = x
      BY <1>1, <3>2
    <3> QED
      BY <1>2, <3>1, <3>2
  <2> QED
    BY <2>1 DEF RunFrom
<1>4. ~ Closing(a)
  BY <1>2 DEF Closing
<1>5. ClosesLast(a)
  BY <1>4 DEF Closing, ClosesLast
<1>6. Numbers(w, a) \subseteq Numbers(w, q) \cup {x}
  BY <1>2 DEF Numbers
<1> QED
  BY <1>1, <1>3, <1>4, <1>5, <1>6 DEF a

\* The close is queued behind the last chunk.
LEMMA RunCloses ==
  ASSUME NEW w \in Seq(Nat), NEW q \in Seq(Nat), NEW b \in Nat,
         RunFrom(w, q, b), ~ Closing(q)
  PROVE  /\ RunFrom(w, Append(q, Close), b) /\ ClosesLast(Append(q, Close))
         /\ Numbers(w, Append(q, Close)) \subseteq Numbers(w, q)
<1> DEFINE a == Append(q, Close)
<1>1. /\ Len(q) \in Nat /\ Len(w) \in Nat /\ Len(a) = Len(q) + 1
      /\ \A i \in 1 .. Len(q) : a[i] = q[i]
      /\ a[Len(q) + 1] = Close
  BY Appended DEF Close
<1> HIDE DEF a
<1>2. ASSUME NEW i \in 1 .. Len(a)
      PROVE  (i \in 1 .. Len(q) /\ a[i] = q[i]) \/ (i = Len(a) /\ a[i] = Close)
  <2>1. i \in 1 .. Len(q) \/ i = Len(q) + 1
    BY <1>1
  <2> QED
    BY <1>1, <2>1
<1>3. RunFrom(w, a, b)
  BY <1>1, <1>2 DEF RunFrom
<1>4. ClosesLast(a)
  BY <1>2 DEF Closing, ClosesLast
<1>5. Numbers(w, a) \subseteq Numbers(w, q)
  BY <1>2 DEF Numbers
<1> QED
  BY <1>3, <1>4, <1>5 DEF a

\* The first in the queue is written.
LEMMA RunMoves ==
  ASSUME NEW w \in Seq(Nat), NEW q \in Seq(Nat), NEW b \in Nat,
         RunFrom(w, q, b), ClosesLast(q), q # <<>>, Head(q) # Close
  PROVE  /\ RunFrom(Append(w, Head(q)), Tail(q), b)
         /\ ClosesLast(Tail(q)) /\ (Closing(Tail(q)) => Closing(q))
         /\ Numbers(Append(w, Head(q)), Tail(q)) \subseteq Numbers(w, q)
         /\ Len(Append(w, Head(q))) + Len(Tail(q)) = Len(w) + Len(q)
         /\ Len(w) \in Nat /\ Len(q) \in Nat
         /\ Len(Append(w, Head(q))) \in Nat /\ Len(Tail(q)) \in Nat
<1> DEFINE h == Head(q)
           t == Tail(q)
           a == Append(w, h)
<1>1. /\ h \in Nat /\ t \in Seq(Nat) /\ h = q[1] /\ Len(q) \in Nat \ {0}
      /\ Len(t) = Len(q) - 1 /\ \A i \in 1 .. Len(t) : t[i] = q[i + 1]
  BY HeadTail
<1> HIDE DEF h, t
<1>2. /\ Len(w) \in Nat /\ Len(a) = Len(w) + 1
      /\ \A i \in 1 .. Len(w) : a[i] = w[i]
      /\ a[Len(w) + 1] = h
  BY <1>1, Appended
<1> HIDE DEF a
<1>3. \A i \in 1 .. Len(a) : (i \in 1 .. Len(w) /\ a[i] = w[i]) \/ (i = Len(w) + 1 /\ a[i] = h)
  BY <1>2
<1>4. \A i \in 1 .. Len(t) : i + 1 \in 1 .. Len(q) /\ t[i] = q[i + 1]
  BY <1>1
<1>5. 1 \in 1 .. Len(q) /\ q[1] = b + Len(w) + 1 /\ q[1] # Close
  BY <1>1 DEF RunFrom, h
<1>6. RunFrom(a, t, b)
  <2>1. ASSUME NEW i \in 1 .. Len(a)
        PROVE  a[i] = b + i
    <3>1. CASE i \in 1 .. Len(w) /\ a[i] = w[i]
      BY <3>1 DEF RunFrom
    <3>2. CASE i = Len(w) + 1 /\ a[i] = h
      <4>1. h = b + Len(w) + 1
        BY <1>1, <1>5
      <4> QED
        BY <1>2, <3>2, <4>1
    <3> QED
      BY <1>3, <3>1, <3>2
  <2>2. ASSUME NEW i \in 1 .. Len(t), t[i] # Close
        PROVE  t[i] = b + Len(a) + i
    <3>1. i + 1 \in 1 .. Len(q) /\ t[i] = q[i + 1]
      BY <1>4
    <3>2. q[i + 1] = b + Len(w) + (i + 1)
      BY <2>2, <3>1 DEF RunFrom
    <3>3. i \in Nat
      BY <1>1
    <3> QED
      BY <1>2, <3>1, <3>2, <3>3
  <2> QED
    BY <2>1, <2>2 DEF RunFrom
<1>7. ClosesLast(t) /\ (Closing(t) => Closing(q))
  <2>1. ASSUME NEW i \in 1 .. Len(t), t[i] = Close
        PROVE  i = Len(t)
    <3>1. i + 1 \in 1 .. Len(q) /\ q[i + 1] = Close
      BY <1>4, <2>1
    <3>2. i + 1 = Len(q)
      BY <3>1 DEF ClosesLast
    <3> QED
      BY <1>1, <3>2
  <2>2. Closing(t) => Closing(q)
    BY <1>4 DEF Closing
  <2> QED
    BY <2>1, <2>2 DEF ClosesLast
<1>8. Numbers(a, t) \subseteq Numbers(w, q)
  <2>1. ASSUME NEW i \in 1 .. Len(a)
        PROVE  a[i] \in Numbers(w, q)
    <3>1. h \in Numbers(w, q)
      BY <1>1, <1>5 DEF Numbers
    <3> QED
      BY <1>3, <3>1 DEF Numbers
  <2>2. ASSUME NEW i \in 1 .. Len(t), t[i] # Close
        PROVE  t[i] \in Numbers(w, q)
    BY <1>4, <2>2 DEF Numbers
  <2> QED
    BY <2>1, <2>2 DEF Numbers
<1>9. Len(a) + Len(t) = Len(w) + Len(q) /\ Len(a) \in Nat /\ Len(t) \in Nat
  BY <1>1, <1>2
<1> QED
  BY <1>1, <1>2, <1>6, <1>7, <1>8, <1>9 DEF a, h, t

\* The queue is lost.
LEMMA RunDropped ==
  ASSUME NEW w, NEW q, NEW b, RunFrom(w, q, b)
  PROVE  RunFrom(w, <<>>, b) /\ Numbers(w, <<>>) \subseteq Numbers(w, q)
  BY DEF RunFrom, Numbers

\* The values that chunks and connection numbers take.
LEMMA TypeFacts ==
  ASSUME TypeOK
  PROVE  /\ tunnel = "up" /\ era # 0 => era \in Eras
         /\ \A s \in Streams : home[s] # 0 => home[s] \in Eras
         /\ \A c \in Locals : queue[c] # <<>> /\ Head(queue[c]) # Close =>
               Head(queue[c]) \in 1 .. MaxChunks
         /\ \A c \in Locals : queue[c] # <<>> =>
               Tail(queue[c]) \in Seq(0 .. MaxChunks)
<1>1. ASSUME NEW c \in Locals, queue[c] # <<>>
      PROVE  Head(queue[c]) \in 0 .. MaxChunks /\ Tail(queue[c]) \in Seq(0 .. MaxChunks)
  <2>1. queue[c] \in Seq(0 .. MaxChunks)
    BY DEF TypeOK
  <2> QED
    BY <1>1, <2>1, HeadTail
<1>2. /\ era # 0 => era \in Eras
      /\ \A s \in Streams : home[s] # 0 => home[s] \in Eras
  <2>1. \A x \in 0 .. MaxEras : x # 0 => x \in Eras
    BY ClientBounds DEF Eras
  <2> QED
    BY <2>1 DEF TypeOK
<1>3. \A x \in 0 .. MaxChunks : x # Close => x \in 1 .. MaxChunks
  BY ClientBounds DEF Close
<1> QED
  BY <1>1, <1>2, <1>3

\* What is queued, and what is written, are numbers.
LEMMA ChunksAreNumbers ==
    Seq(1 .. MaxChunks) \subseteq Seq(Nat) /\ Seq(0 .. MaxChunks) \subseteq Seq(Nat)
<1>1. ASSUME NEW S, NEW q \in Seq(S), S \subseteq Nat
      PROVE  q \in Seq(Nat)
  <2>1. Len(q) \in Nat /\ q \in [1 .. Len(q) -> S]
    OBVIOUS
  <2>2. q \in [1 .. Len(q) -> Nat]
    BY <1>1, <2>1
  <2> QED
    BY <2>1, <2>2
<1>2. 1 .. MaxChunks \subseteq Nat /\ 0 .. MaxChunks \subseteq Nat
  BY ClientBounds
<1> QED
  BY <1>1, <1>2

\* A packet put into a channel.
LEMMA PutTyped ==
  ASSUME TypeOK, NEW e, NEW s \in Streams, NEW p \in 0 .. MaxConns, Put(e, s, p)
  PROVE  channel' \in [Eras -> Nat] /\ out' \in [Streams -> Seq(0 .. MaxConns)]
<1>1. Append(out[s], p) \in Seq(0 .. MaxConns)
  BY Appended DEF TypeOK
<1>2. \A d \in Eras : channel[d] + 1 \in Nat
  BY DEF TypeOK
<1> QED
  BY <1>1, <1>2 DEF TypeOK, Put

\* The loop, the websockets and the reader keep every variable in its range.
LEMMA TypeOfReads ==
  ASSUME TypeOK, LoopInv, Reads
  PROVE  TypeOK'
<1> USE ClientBounds DEF TypeOK, loop, wire, server, conns, ending
<1>1. CASE ReaderEnds
  BY <1>1 DEF ReaderEnds
<1>2. CASE Restart
  BY <1>2 DEF Restart
<1>3. CASE Look
  BY <1>3 DEF Look
<1>4. CASE Connect
  <2>1. made[cur] + 1 \in 0 .. MaxConns
    BY <1>4 DEF Connect
  <2>2. /\ made' \in [Streams -> 0 .. MaxConns]
        /\ source' \in [Locals -> {"off", "run", "done", "dead"}]
    BY <1>4, <2>1 DEF Connect
  <2> QED
    BY <1>4, <2>2 DEF Connect
<1>5. CASE ConnectFails
  <2>1. channel' \in [Eras -> Nat] /\ out' \in [Streams -> Seq(0 .. MaxConns)]
    <3>1. ASSUME Put(era, cur, Refused)
          PROVE  channel' \in [Eras -> Nat] /\ out' \in [Streams -> Seq(0 .. MaxConns)]
      <4>1. Refused \in 0 .. MaxConns /\ cur \in Streams
        BY DEF Refused
      <4> QED
        BY <3>1, <4>1, PutTyped
    <3> QED
      BY <1>5, <3>1 DEF ConnectFails
  <2> QED
    BY <1>5, <2>1 DEF ConnectFails
<1>6. CASE Insert
  BY <1>6 DEF Insert
<1>7. CASE Deliver
  <2>1. Append(queue[Found], got[cur]) \in Seq(0 .. MaxChunks)
    <3>1. Found \in Locals
      BY <1>7, LocalFacts DEF Deliver, Found
    <3> QED
      BY <3>1, Appended
  <2>2. queue' \in [Locals -> Seq(0 .. MaxChunks)]
    BY <1>7, <2>1 DEF Deliver
  <2> QED
    BY <1>7, <2>2 DEF Deliver
<1>8. CASE Refuse
  <2>1. channel' \in [Eras -> Nat] /\ out' \in [Streams -> Seq(0 .. MaxConns)]
    <3>1. ASSUME Put(era, cur, Refused)
          PROVE  channel' \in [Eras -> Nat] /\ out' \in [Streams -> Seq(0 .. MaxConns)]
      <4>1. Refused \in 0 .. MaxConns /\ cur \in Streams
        BY DEF Refused
      <4> QED
        BY <3>1, <4>1, PutTyped
    <3> QED
      BY <1>8, <3>1 DEF Refuse
  <2> QED
    BY <1>8, <2>1 DEF Refuse
<1>9. CASE SendFails
  BY <1>9 DEF SendFails
<1> QED
  BY <1>1, <1>2, <1>3, <1>4, <1>5, <1>6, <1>7, <1>8, <1>9 DEF Reads

\* So do the writers, the channels and the websockets.
LEMMA TypeOfWires ==
  ASSUME TypeOK, LoopInv, NEW e \in Eras, Wires(e)
  PROVE  TypeOK'
<1> USE ClientBounds DEF TypeOK, loop, wire, server, conns, ending
<1>1. CASE DialSucceeds
  <2>1. era' \in 0 .. MaxEras /\ tunnel' = "up"
    BY <1>1 DEF DialSucceeds
  <2>2. writer' \in [Eras -> {"off", "on", "ended", "failed"}]
    BY <1>1 DEF DialSucceeds
  <2> QED
    BY <1>1, <2>1, <2>2 DEF DialSucceeds
<1>2. CASE DialFails
  BY <1>2 DEF DialFails
<1>3. CASE DialRefused
  BY <1>3 DEF DialRefused
<1>4. CASE Slept
  BY <1>4 DEF Slept
<1>5. CASE Ping
  <2>1. channel' \in [Eras -> Nat]
    <3>1. \A d \in Eras : channel[d] + 1 \in Nat
      OBVIOUS
    <3> QED
      BY <1>5, <3>1 DEF Ping
  <2> QED
    BY <1>5, <2>1 DEF Ping
<1>6. CASE Lost(e)
  <2>1. link' \in [Eras -> {"up", "lost", "unacked", "down"}]
    BY <1>6 DEF Lost
  <2> QED
    BY <1>6, <2>1 DEF Lost
<1>7. CASE TcpTimeout(e)
  BY <1>7 DEF TcpTimeout
<1>8. CASE WriterSend(e)
  <2>1. channel' \in [Eras -> Nat]
    BY <1>8 DEF WriterSend
  <2>2. link' \in [Eras -> {"up", "lost", "unacked", "down"}]
    BY <1>8 DEF WriterSend
  <2> QED
    BY <1>8, <2>1, <2>2 DEF WriterSend
<1>9. CASE WriterFails(e)
  BY <1>9 DEF WriterFails
<1>10. CASE WriterEnds(e)
  BY <1>10 DEF WriterEnds
<1> QED
  BY <1>1, <1>2, <1>3, <1>4, <1>5, <1>6, <1>7, <1>8, <1>9, <1>10 DEF Wires, Loop

\* So do the ends of streams.
LEMMA TypeOfStreams ==
  ASSUME TypeOK, NEW s \in Streams, Streamwise(s)
  PROVE  TypeOK'
<1> USE ClientBounds DEF TypeOK, loop, wire, server, conns, ending
<1>1. CASE InitStream(s)
  BY <1>1 DEF InitStream, Reading
<1>2. CASE Data(s)
  <2>1. got' \in [Streams -> 0 .. MaxChunks]
    <3>1. got[s] + 1 \in 0 .. MaxChunks
      <4> HIDE DEF TypeOK, loop, wire, server, conns, ending
      <4>1. got[s] \in 0 .. MaxChunks
        BY DEF TypeOK
      <4>2. got[s] < MaxChunks
        BY <1>2 DEF Data
      <4> QED
        BY <4>1, <4>2
    <3> QED
      BY <1>2, <3>1 DEF Data
  <2> QED
    BY <1>2, <2>1 DEF Data
<1>3. CASE End(s)
  BY <1>3 DEF End, Reading
<1>4. CASE EndLooks(s)
  BY <1>4 DEF EndLooks
<1>5. CASE EndCloses(s)
  <2>1. ASSUME NEW c \in Locals
        PROVE  Append(queue[c], Close) \in Seq(0 .. MaxChunks)
    BY Appended DEF Close
  <2>2. queue' \in [Locals -> Seq(0 .. MaxChunks)]
    BY <1>5, <2>1 DEF EndCloses
  <2> QED
    BY <1>5, <2>2 DEF EndCloses
<1>6. CASE EndForgets(s)
  <2>1. entry' \in [Streams -> 0 .. MaxConns] /\ held' \in [Streams -> 0 .. MaxConns]
    BY <1>6 DEF EndForgets
  <2> QED
    BY <1>6, <2>1 DEF EndForgets
<1> QED
  BY <1>1, <1>2, <1>3, <1>4, <1>5, <1>6 DEF Streamwise

\* So do the tasks of the local connections.
LEMMA TypeOfConns ==
  ASSUME TypeOK, NEW c \in Locals, Connwise(c)
  PROVE  TypeOK'
<1> USE ClientBounds DEF TypeOK, loop, wire, server, conns, ending
<1>1. CASE LocalCloses(c)
  BY <1>1 DEF LocalCloses
<1>2. CASE LocalResets(c)
  BY <1>2 DEF LocalResets
<1>3. CASE SourceSends(c)
  <2>1. channel' \in [Eras -> Nat] /\ out' \in [Streams -> Seq(0 .. MaxConns)]
    <3>1. c[1] \in Streams /\ c[2] \in 0 .. MaxConns
      BY LocalFacts
    <3>2. Put(home[c[1]], c[1], c[2])
      BY <1>3 DEF SourceSends
    <3> QED
      BY <3>1, <3>2, PutTyped
  <2>2. replies' \in [Locals -> 0 .. MaxReplies]
    <3>1. replies[c] + 1 \in 0 .. MaxReplies
      <4>1. replies[c] \in 0 .. MaxReplies
        OBVIOUS
      <4>2. replies[c] < MaxReplies
        BY <1>3 DEF SourceSends
      <4> QED
        BY <4>1, <4>2
    <3> QED
      BY <1>3, <3>1 DEF SourceSends
  <2> QED
    BY <1>3, <2>1, <2>2 DEF SourceSends
<1>4. CASE SourcePanics(c)
  BY <1>4 DEF SourcePanics
<1>5. CASE SourceEnds(c)
  <2>1. entry' \in [Streams -> 0 .. MaxConns]
    <3>1. entry' = [entry EXCEPT ![c[1]] = 0] /\ 0 \in 0 .. MaxConns
      BY <1>5 DEF SourceEnds
    <3> QED
      BY <3>1
  <2> QED
    BY <1>5, <2>1 DEF SourceEnds
<1>6. CASE FwdWrites(c)
  <2>1. /\ Tail(queue[c]) \in Seq(0 .. MaxChunks)
        /\ Head(queue[c]) \in 1 .. MaxChunks
    BY <1>6, TypeFacts DEF FwdWrites
  <2>2. Append(wrote[c], Head(queue[c])) \in Seq(1 .. MaxChunks)
    BY <2>1, Appended
  <2>3. /\ queue' \in [Locals -> Seq(0 .. MaxChunks)]
        /\ wrote' \in [Locals -> Seq(1 .. MaxChunks)]
    BY <1>6, <2>1, <2>2 DEF FwdWrites
  <2> QED
    BY <1>6, <2>3 DEF FwdWrites
<1>7. CASE FwdPanics(c)
  <2>1. /\ queue' \in [Locals -> Seq(0 .. MaxChunks)]
        /\ fwd' \in [Locals -> {"off", "run", "done", "dead"}]
    <3>1. /\ queue' = [queue EXCEPT ![c] = <<>>]
          /\ fwd' = [fwd EXCEPT ![c] = "dead"]
      BY <1>7, Zenon DEF FwdPanics
    <3> HIDE DEF TypeOK
    <3>2. queue \in [Locals -> Seq(0 .. MaxChunks)] /\ <<>> \in Seq(0 .. MaxChunks)
      BY DEF TypeOK
    <3>3. fwd \in [Locals -> {"off", "run", "done", "dead"}]
      BY DEF TypeOK
    <3> QED
      BY <3>1, <3>2, <3>3
  <2> QED
    BY <1>7, <2>1 DEF FwdPanics
<1>8. CASE FwdCloses(c)
  <2>1. /\ queue' \in [Locals -> Seq(0 .. MaxChunks)]
        /\ fwd' \in [Locals -> {"off", "run", "done", "dead"}]
    <3>1. /\ queue' = [queue EXCEPT ![c] = <<>>]
          /\ fwd' = [fwd EXCEPT ![c] = "done"]
      BY <1>8, Zenon DEF FwdCloses
    <3> HIDE DEF TypeOK
    <3>2. queue \in [Locals -> Seq(0 .. MaxChunks)] /\ <<>> \in Seq(0 .. MaxChunks)
      BY DEF TypeOK
    <3>3. fwd \in [Locals -> {"off", "run", "done", "dead"}]
      BY DEF TypeOK
    <3> QED
      BY <3>1, <3>2, <3>3
  <2> QED
    BY <1>8, <2>1 DEF FwdCloses
<1>9. CASE Collect(c)
  BY <1>9 DEF Collect, Record, Records
<1> QED
  BY <1>1, <1>2, <1>3, <1>4, <1>5, <1>6, <1>7, <1>8, <1>9 DEF Connwise

\* Every step keeps every variable in its range.
LEMMA TypeStep ==
  ASSUME TypeOK, LoopInv, Next
  PROVE  TypeOK'
  BY NextCases, TypeOfReads, TypeOfWires, TypeOfStreams, TypeOfConns

-----------------------------------------------------------------------------
(* The loop.                                                                *)

\* The reader enters a packet only of a stream it was told of, a new websocket
\* comes with a writer, and a writer fails only on a broken websocket.
LEMMA LoopStep ==
  ASSUME TypeOK, LoopInv, Next
  PROVE  LoopInv'
<1> USE ClientBounds DEF LoopInv, loop, wire, server, conns, ending
<1>1. ASSUME Reads
      PROVE  LoopInv'
  <2>1. at' # "idle" => phase'[cur'] = "told" /\ got'[cur'] > 0
    BY <1>1 DEF Reads, ReaderEnds, Restart, Look, Connect, ConnectFails, Insert,
                Deliver, Refuse, SendFails
  <2>2. /\ writer' = writer /\ link' = link
        /\ era' = era /\ (tunnel' = "up" => tunnel = "up")
    BY <1>1 DEF Reads, ReaderEnds, Restart, Look, Connect, ConnectFails, Insert,
                Deliver, Refuse, SendFails
  <2> QED
    BY <2>1, <2>2
<1>2. ASSUME NEW e \in Eras, Wires(e)
      PROVE  LoopInv'
  <2>1. at' # "idle" => phase'[cur'] = "told" /\ got'[cur'] > 0
    BY <1>2 DEF Wires, Loop, DialSucceeds, DialFails, DialRefused, Slept, Ping,
                Lost, TcpTimeout, WriterSend, WriterFails, WriterEnds
  <2>2. tunnel' = "up" => era' # 0 /\ writer'[era'] \in {"on", "failed"}
    <3>1. CASE DialSucceeds
      BY <3>1 DEF DialSucceeds, TypeOK, Eras
    <3>2. CASE DialFails \/ DialRefused \/ Slept
      BY <3>2 DEF DialFails, DialRefused, Slept
    <3>3. CASE Ping \/ Lost(e) \/ TcpTimeout(e) \/ WriterSend(e)
      BY <3>3 DEF Ping, Lost, TcpTimeout, WriterSend
    <3>4. CASE WriterFails(e)
      BY <3>4 DEF WriterFails, TypeOK
    <3>5. CASE WriterEnds(e)
      BY <3>5 DEF WriterEnds, TypeOK
    <3> QED
      BY <1>2, <3>1, <3>2, <3>3, <3>4, <3>5 DEF Wires, Loop
  <2>3. \A d \in Eras : writer'[d] = "failed" => link'[d] = "down"
    <3>1. CASE DialSucceeds
      BY <3>1 DEF DialSucceeds, TypeOK
    <3>2. CASE DialFails \/ DialRefused \/ Slept \/ Ping
      BY <3>2 DEF DialFails, DialRefused, Slept, Ping
    <3>3. CASE Lost(e) \/ TcpTimeout(e)
      BY <3>3 DEF Lost, TcpTimeout, TypeOK
    <3>4. CASE WriterSend(e)
      BY <3>4 DEF WriterSend, TypeOK
    <3>5. CASE WriterFails(e)
      BY <3>5 DEF WriterFails, TypeOK
    <3>6. CASE WriterEnds(e)
      BY <3>6 DEF WriterEnds, TypeOK
    <3> QED
      BY <1>2, <3>1, <3>2, <3>3, <3>4, <3>5, <3>6 DEF Wires, Loop
  <2> QED
    BY <2>1, <2>2, <2>3
<1>3. ASSUME NEW s \in Streams, Streamwise(s)
      PROVE  LoopInv'
  <2>1. /\ writer' = writer /\ link' = link /\ loop' = loop
    BY <1>3 DEF Streamwise, InitStream, Data, End, EndLooks, EndCloses, EndForgets
  <2>2. at' # "idle" => phase'[cur'] = "told" /\ got'[cur'] > 0
    <3>1. CASE InitStream(s) \/ End(s)
      BY <3>1 DEF InitStream, End, Reading
    <3>2. CASE Data(s)
      <4>1. got[s] \in Nat /\ got \in [Streams -> 0 .. MaxChunks]
        BY DEF TypeOK
      <4>2. cur' = s /\ phase'[s] = "told" /\ got' = [got EXCEPT ![s] = @ + 1]
        BY <3>2 DEF Data
      <4> QED
        BY <4>1, <4>2
    <3>3. CASE EndLooks(s) \/ EndCloses(s) \/ EndForgets(s)
      BY <3>3 DEF EndLooks, EndCloses, EndForgets
    <3> QED
      BY <1>3, <3>1, <3>2, <3>3 DEF Streamwise
  <2> QED
    BY <2>1, <2>2
<1>4. ASSUME NEW c \in Locals, Connwise(c)
      PROVE  LoopInv'
  <2>1. /\ writer' = writer /\ link' = link /\ loop' = loop
        /\ at' = at /\ cur' = cur /\ phase' = phase /\ got' = got
    BY <1>4 DEF Connwise, LocalCloses, LocalResets, SourceSends, SourcePanics,
                SourceEnds, FwdWrites, FwdPanics, FwdCloses, Collect
  <2> QED
    BY <2>1
<1> QED
  BY <1>1, <1>2, <1>3, <1>4, NextCases

-----------------------------------------------------------------------------
(* What a step does not disturb: the invariant of a stream speaks of that    *)
(* stream's variables only.                                                  *)

SameConn(c) ==
    /\ local'[c] = local[c] /\ source'[c] = source[c] /\ fwd'[c] = fwd[c]
    /\ queue'[c] = queue[c] /\ wrote'[c] = wrote[c]
    /\ replies'[c] = replies[c] /\ log'[c] = log[c]

SameStream(s) ==
    /\ Handled(s)' = Handled(s)
    /\ Busy(s)' \in {"connect", "insert"} => Busy(s)' = Busy(s)
    /\ Busy(s) = "insert" => Busy(s)' = "insert"
    /\ phase'[s] = "ended" <=> phase[s] = "ended"
    /\ made'[s] = made[s] /\ entry'[s] = entry[s]
    /\ ender'[s] = ender[s] /\ held'[s] = held[s]

\* What Tasks is about, left alone, stays as it was.
LEMMA TasksKept ==
  ASSUME NEW r \in Streams, NEW k \in 1 .. MaxConns, Tasks(r, k), SameStream(r),
         SameConn(<<r, k>>)
  PROVE  Tasks(r, k)'
  BY DEF Tasks, SameStream, SameConn

\* So does what Recorded is about.
LEMMA RecordedKept ==
  ASSUME NEW r \in Streams, NEW k \in 1 .. MaxConns, Recorded(r, k),
         SameConn(<<r, k>>)
  PROVE  Recorded(r, k)'
  BY DEF Recorded, SameConn

\* So does what Chunks is about.
LEMMA ChunksKept ==
  ASSUME NEW r \in Streams, NEW k \in 1 .. MaxConns, Chunks(r, k),
         queue'[<<r, k>>] = queue[<<r, k>>], wrote'[<<r, k>>] = wrote[<<r, k>>],
         fwd'[<<r, k>>] = fwd[<<r, k>>],
         ender[r] \in {"forget", "done"} => ender'[r] \in {"forget", "done"},
         entry'[r] = k /\ phase'[r] # "ended" =>
             entry[r] = k /\ phase[r] # "ended" /\ Handled(r)' = Handled(r)
  PROVE  Chunks(r, k)'
<1> DEFINE w == wrote[<<r, k>>]
           q == queue[<<r, k>>]
<1>1. PICK b \in 0 .. MaxChunks : RunFrom(w, q, b) /\ UpToDate(r, k, b)
  BY DEF Chunks
<1>2. wrote'[<<r, k>>] = w /\ queue'[<<r, k>>] = q
  OBVIOUS
<1>3. UpToDate(r, k, b)'
  BY <1>1 DEF UpToDate
<1>4. \E d \in 0 .. MaxChunks :
         RunFrom(wrote'[<<r, k>>], queue'[<<r, k>>], d) /\ UpToDate(r, k, d)'
  BY <1>1, <1>2, <1>3
<1>5. /\ ClosesLast(queue'[<<r, k>>])
      /\ Closing(queue'[<<r, k>>]) => ender'[r] \in {"forget", "done"}
  BY <1>2 DEF Chunks
<1>6. /\ fwd'[<<r, k>>] # "run" => queue'[<<r, k>>] = <<>>
      /\ fwd'[<<r, k>>] = "off" => wrote'[<<r, k>>] = <<>>
  BY DEF Chunks
<1> QED
  BY <1>4, <1>5, <1>6 DEF Chunks

\* How a new or a changed connection is shown to be in order.
LEMMA ChunksMade ==
  ASSUME NEW r, NEW k, NEW b \in 0 .. MaxChunks,
         fwd'[<<r, k>>] # "run" => queue'[<<r, k>>] = <<>>,
         fwd'[<<r, k>>] = "off" => wrote'[<<r, k>>] = <<>>,
         ClosesLast(queue'[<<r, k>>]),
         Closing(queue'[<<r, k>>]) => ender'[r] \in {"forget", "done"},
         RunFrom(wrote'[<<r, k>>], queue'[<<r, k>>], b),
         UpToDate(r, k, b)'
  PROVE  Chunks(r, k)'
<1>1. \E d \in 0 .. MaxChunks :
         RunFrom(wrote'[<<r, k>>], queue'[<<r, k>>], d) /\ UpToDate(r, k, d)'
  OBVIOUS
<1> QED
  BY <1>1 DEF Chunks

\* The chunks given do not grow, and those handled do not become fewer.
LEMMA EarlierKept ==
  ASSUME NEW r \in Streams, Earlier(r), Handled(r) \in Nat, Handled(r)' \in Nat,
         Handled(r) <= Handled(r)',
         \A k \in 1 .. MaxConns : Given(<<r, k>>)' \subseteq Given(<<r, k>>)
  PROVE  Earlier(r)'
  BY DEF Earlier

\* So does all that is known of one stream.
LEMMA StreamKept ==
  ASSUME NEW r \in Streams, StreamInv(r), SameStream(r),
         \A k \in 1 .. MaxConns : SameConn(<<r, k>>)
  PROVE  StreamInv(r)'
<1>1. Entered(r)'
  BY DEF Entered, StreamInv, SameStream
<1>2. Handled(r)' = Handled(r)
  BY DEF SameStream
<1>3. ASSUME NEW k \in 1 .. MaxConns
      PROVE  Tasks(r, k)' /\ Recorded(r, k)' /\ Chunks(r, k)'
  BY <1>2, TasksKept, RecordedKept, ChunksKept
     DEF StreamInv, SameStream, SameConn
<1>4. \A k \in 1 .. MaxConns : Given(<<r, k>>)' = Given(<<r, k>>)
  BY DEF Given, SameConn
<1>5. Earlier(r)'
  BY <1>2, <1>4 DEF Earlier, StreamInv
<1> QED
  BY <1>1, <1>3, <1>5 DEF StreamInv

-----------------------------------------------------------------------------
(* Every step keeps the invariant of every stream.                          *)

LEMMA HandledFacts ==
  ASSUME TypeOK, LoopInv, NEW s \in Streams
  PROVE  Handled(s) \in 0 .. MaxChunks /\ got[s] \in 0 .. MaxChunks
<1>1. got[s] \in 0 .. MaxChunks
  BY DEF TypeOK
<1>2. Busy(s) # "idle" => got[s] > 0
  BY DEF LoopInv, Busy
<1> QED
  BY <1>1, <1>2, ClientBounds DEF Handled

\* The writers and the websockets touch no stream.
LEMMA WiresKeep ==
  ASSUME IInv, NEW e \in Eras, Wires(e), NEW r \in Streams
  PROVE  StreamInv(r)'
<1>1. /\ at' = at /\ cur' = cur
      /\ server' = server /\ conns' = conns /\ ending' = ending /\ log' = log
  BY DEF Wires, Loop, DialSucceeds, DialFails, DialRefused, Slept, Ping, Lost,
         TcpTimeout, WriterSend, WriterFails, WriterEnds
<1>2. SameStream(r)
  BY <1>1 DEF SameStream, Busy, Handled, server, conns, ending
<1>3. \A k \in 1 .. MaxConns : SameConn(<<r, k>>)
  BY <1>1 DEF SameConn, conns
<1> QED
  BY <1>2, <1>3, StreamKept DEF IInv

\* A step of the reader disturbs the stream of its packet only.
LEMMA ReadsElsewhere ==
  ASSUME TypeOK, Reads, NEW r \in Streams, r # cur
  PROVE  SameStream(r) /\ \A k \in 1 .. MaxConns : SameConn(<<r, k>>)
<1> USE LocalFacts DEF TypeOK, SameStream, SameConn, Busy, Handled, loop, wire,
        server, conns, ending
<1>1. CASE ReaderEnds \/ Restart \/ Look \/ ConnectFails \/ Refuse \/ SendFails
  BY <1>1 DEF ReaderEnds, Restart, Look, ConnectFails, Refuse, SendFails
<1>2. CASE Connect
  BY <1>2 DEF Connect
<1>3. CASE Insert
  BY <1>3 DEF Insert
<1>4. CASE Deliver
  BY <1>4 DEF Deliver, Found
<1> QED
  BY <1>1, <1>2, <1>3, <1>4 DEF Reads

\* The tasks of one stream touch no other.
LEMMA StreamElsewhere ==
  ASSUME TypeOK, NEW s \in Streams, Streamwise(s), NEW r \in Streams, r # s
  PROVE  SameStream(r) /\ \A k \in 1 .. MaxConns : SameConn(<<r, k>>)
<1> USE LocalFacts DEF TypeOK, SameStream, SameConn, Busy, Handled, loop, wire,
        server, conns, ending
<1>1. CASE InitStream(s)
  BY <1>1 DEF InitStream
<1>2. CASE Data(s)
  BY <1>2 DEF Data, Reading
<1>3. CASE End(s)
  BY <1>3 DEF End
<1>4. CASE EndLooks(s)
  BY <1>4 DEF EndLooks
<1>5. CASE EndCloses(s)
  BY <1>5 DEF EndCloses
<1>6. CASE EndForgets(s)
  BY <1>6 DEF EndForgets
<1> QED
  BY <1>1, <1>2, <1>3, <1>4, <1>5, <1>6 DEF Streamwise

\* The tasks of a local connection touch no other stream.
LEMMA ConnElsewhere ==
  ASSUME TypeOK, NEW c \in Locals, Connwise(c)
  PROVE  /\ \A r \in Streams : r # c[1] => SameStream(r)
         /\ \A r \in Streams : \A k \in 1 .. MaxConns :
               <<r, k>> # c => SameConn(<<r, k>>)
<1>1. /\ at' = at /\ cur' = cur /\ server' = server /\ ending' = ending
      /\ made' = made
  BY DEF Connwise, LocalCloses, LocalResets, SourceSends, SourcePanics,
         SourceEnds, FwdWrites, FwdPanics, FwdCloses, Collect, conns
<1>2. entry' = entry \/ entry' = [entry EXCEPT ![c[1]] = 0]
  BY DEF Connwise, LocalCloses, LocalResets, SourceSends, SourcePanics,
         SourceEnds, FwdWrites, FwdPanics, FwdCloses, Collect, conns
<1>3. ASSUME NEW r \in Streams, r # c[1]
      PROVE  SameStream(r)
  <2>1. entry'[r] = entry[r]
    BY <1>2, <1>3 DEF TypeOK
  <2> QED
    BY <1>1, <2>1 DEF SameStream, Busy, Handled, server, ending
<1>4. ASSUME NEW d \in Locals, d # c
      PROVE  SameConn(d)
  <2>1. local' = local \/ \E x : local' = [local EXCEPT ![c] = x]
    BY Zenon DEF Connwise, LocalCloses, LocalResets, SourceSends, SourcePanics,
         SourceEnds, FwdWrites, FwdPanics, FwdCloses, Collect, conns
  <2>2. source' = source \/ \E x : source' = [source EXCEPT ![c] = x]
    BY Zenon DEF Connwise, LocalCloses, LocalResets, SourceSends, SourcePanics,
         SourceEnds, FwdWrites, FwdPanics, FwdCloses, Collect, conns
  <2>3. fwd' = fwd \/ \E x : fwd' = [fwd EXCEPT ![c] = x]
    BY Zenon DEF Connwise, LocalCloses, LocalResets, SourceSends, SourcePanics,
         SourceEnds, FwdWrites, FwdPanics, FwdCloses, Collect, conns
  <2>4. queue' = queue \/ \E x : queue' = [queue EXCEPT ![c] = x]
    BY Zenon DEF Connwise, LocalCloses, LocalResets, SourceSends, SourcePanics,
         SourceEnds, FwdWrites, FwdPanics, FwdCloses, Collect, conns
  <2>5. wrote' = wrote \/ \E x : wrote' = [wrote EXCEPT ![c] = x]
    BY Zenon DEF Connwise, LocalCloses, LocalResets, SourceSends, SourcePanics,
         SourceEnds, FwdWrites, FwdPanics, FwdCloses, Collect, conns
  <2>6. replies' = replies \/ \E x : replies' = [replies EXCEPT ![c] = x]
    BY Zenon DEF Connwise, LocalCloses, LocalResets, SourceSends, SourcePanics,
         SourceEnds, FwdWrites, FwdPanics, FwdCloses, Collect, conns
  <2>7. log' = log \/ \E x : log' = [log EXCEPT ![c] = x]
    BY Zenon DEF Connwise, LocalCloses, LocalResets, SourceSends, SourcePanics,
         SourceEnds, FwdWrites, FwdPanics, FwdCloses, Collect, conns
  <2>8. /\ local'[d] = local[d] /\ source'[d] = source[d] /\ fwd'[d] = fwd[d]
    BY <1>4, <2>1, <2>2, <2>3 DEF TypeOK
  <2>9. queue'[d] = queue[d] /\ wrote'[d] = wrote[d]
    BY <1>4, <2>4, <2>5 DEF TypeOK
  <2>10. replies'[d] = replies[d] /\ log'[d] = log[d]
    BY <1>4, <2>6, <2>7 DEF TypeOK
  <2> QED
    BY <2>8, <2>9, <2>10 DEF SameConn
<1> QED
  BY <1>3, <1>4, LocalFacts

\* What the invariant says of the stream whose packet the reader handles.
LEMMA CurFacts ==
  ASSUME IInv
  PROVE  /\ cur \in Streams /\ StreamInv(cur) /\ Busy(cur) = at
         /\ at # "idle" => phase[cur] = "told" /\ ender[cur] = "off"
         /\ Handled(cur) \in Nat /\ got[cur] \in Nat
         /\ at = "idle" => Handled(cur) = got[cur]
         /\ at # "idle" => Handled(cur) + 1 = got[cur]
<1>1. cur \in Streams /\ StreamInv(cur) /\ Busy(cur) = at
  BY DEF IInv, TypeOK, Busy
<1>2. Handled(cur) \in Nat /\ got[cur] \in Nat
  BY <1>1, HandledFacts DEF IInv
<1>3. at # "idle" => phase[cur] = "told" /\ ender[cur] = "off"
  BY <1>1 DEF IInv, LoopInv, StreamInv, Entered
<1> QED
  BY <1>1, <1>2, <1>3 DEF Handled

\* Steps of the reader that change where it stands and nothing else of its
\* stream: a chunk is dropped only while the stream has no entry.
LEMMA ReaderMoves ==
  ASSUME IInv, ReaderEnds \/ Restart \/ Look \/ ConnectFails \/ Refuse \/ SendFails
  PROVE  StreamInv(cur)'
<1>1. /\ server' = server /\ conns' = conns /\ ending' = ending /\ log' = log
      /\ cur' = cur
  BY DEF ReaderEnds, Restart, Look, ConnectFails, Refuse, SendFails
<1>2. cur \in Streams /\ StreamInv(cur) /\ Busy(cur) = at /\ Busy(cur)' = at'
  BY <1>1, CurFacts DEF Busy
<1>3. /\ at' \in {at, "idle", "connect", "get"}
      /\ at' \in {"connect", "insert"} => entry[cur] = 0 /\ (at' = "insert" <=> at = "insert")
      /\ at = "insert" => at' = "insert"
      /\ at' = at \/ (at # "idle" /\ (at' = "idle" => entry[cur] = 0))
  <2>1. CASE ReaderEnds \/ SendFails
    BY <1>2, <2>1 DEF ReaderEnds, SendFails, StreamInv, Entered
  <2>2. CASE Restart
    BY <1>2, <2>2 DEF Restart, StreamInv, Entered
  <2>3. CASE Look
    BY <1>2, <2>3 DEF Look
  <2>4. CASE ConnectFails
    BY <1>2, <2>4 DEF ConnectFails
  <2>5. CASE Refuse
    BY <1>2, <2>5 DEF Refuse
  <2> QED
    BY <2>1, <2>2, <2>3, <2>4, <2>5
<1>4. Entered(cur)'
  BY <1>1, <1>2, <1>3 DEF Entered, StreamInv, server, conns, ending
<1>5. \A k \in 1 .. MaxConns : SameConn(<<cur, k>>)
  BY <1>1 DEF SameConn, conns
<1>6. /\ Handled(cur)' \in Nat /\ Handled(cur) \in Nat /\ Handled(cur) <= Handled(cur)'
      /\ entry[cur] # 0 => Handled(cur)' = Handled(cur)
  <2>1. Handled(cur)' = got[cur] - (IF at' = "idle" THEN 0 ELSE 1)
    BY <1>1, <1>2 DEF Handled, server
  <2> QED
    BY <1>3, <2>1, CurFacts
<1>7. ASSUME NEW k \in 1 .. MaxConns
      PROVE  Tasks(cur, k)' /\ Recorded(cur, k)' /\ Chunks(cur, k)'
  <2>1. Tasks(cur, k) /\ Recorded(cur, k) /\ Chunks(cur, k)
    BY <1>2 DEF StreamInv
  <2>2. Tasks(cur, k)'
    BY <1>1, <1>2, <1>3, <2>1 DEF Tasks, server, conns
  <2>3. Recorded(cur, k)'
    BY <1>1, <1>2, <1>5, <2>1, RecordedKept
  <2>4. /\ entry' = entry /\ phase' = phase /\ ender' = ender
        /\ queue' = queue /\ wrote' = wrote /\ fwd' = fwd
    BY <1>1 DEF conns, server, ending
  <2>5. entry'[cur] = k => Handled(cur)' = Handled(cur)
    BY <1>6, <2>4
  <2>6. Chunks(cur, k)'
    BY <1>1, <1>2, <2>1, <2>4, <2>5, ChunksKept
  <2> QED
    BY <2>2, <2>3, <2>6
<1>8. Earlier(cur)'
  <2>1. \A k \in 1 .. MaxConns : Given(<<cur, k>>)' = Given(<<cur, k>>)
    BY <1>1, <1>5 DEF Given, SameConn
  <2>2. Earlier(cur)
    BY <1>2 DEF StreamInv
  <2> QED
    BY <1>1, <1>6, <2>1, <2>2 DEF Earlier
<1> QED
  BY <1>1, <1>4, <1>7, <1>8 DEF StreamInv

\* A connection is made only while no source of its stream runs.
LEMMA ConnectKeeps ==
  ASSUME IInv, Connect
  PROVE  StreamInv(cur)'
<1>1. /\ at = "connect" /\ at' = "insert" /\ cur' = cur
      /\ made[cur] < MaxConns
      /\ made' = [made EXCEPT ![cur] = @ + 1]
      /\ source' = [source EXCEPT ![<<cur, made[cur] + 1>>] = "run"]
      /\ server' = server /\ ending' = ending /\ log' = log
      /\ UNCHANGED <<entry, local, replies, fwd, queue, wrote>>
  BY DEF Connect
<1>2. /\ cur \in Streams /\ StreamInv(cur) /\ Busy(cur) = "connect"
      /\ phase[cur] = "told" /\ Busy(cur)' = "insert"
  BY <1>1, CurFacts DEF Busy
<1>3. /\ entry[cur] = 0 /\ made[cur] \in Nat /\ made'[cur] = made[cur] + 1
      /\ made[cur] + 1 \in 1 .. MaxConns
      /\ \A k \in 1 .. MaxConns : source'[<<cur, k>>] =
            IF k = made[cur] + 1 THEN "run" ELSE source[<<cur, k>>]
  <2>1. made[cur] \in Nat /\ made'[cur] = made[cur] + 1
    BY <1>1, <1>2, ClientBounds DEF IInv, TypeOK
  <2>2. entry[cur] = 0
    BY <1>2 DEF StreamInv, Entered
  <2>3. \A k \in 1 .. MaxConns : source'[<<cur, k>>] =
            IF k = made[cur] + 1 THEN "run" ELSE source[<<cur, k>>]
    BY <1>1, <1>2, LocalFacts DEF IInv, TypeOK
  <2> QED
    BY <1>1, <2>1, <2>2, <2>3, ClientBounds
<1>4. Entered(cur)'
  BY <1>1, <1>2, <1>3 DEF Entered, StreamInv, server, ending
<1>5. Handled(cur)' = Handled(cur)
  BY <1>1, <1>2 DEF Handled, server
<1>6. ASSUME NEW k \in 1 .. MaxConns
      PROVE  Tasks(cur, k)' /\ Recorded(cur, k)' /\ Chunks(cur, k)'
  <2>1. Tasks(cur, k) /\ Recorded(cur, k) /\ Chunks(cur, k)
    BY <1>2 DEF StreamInv
  <2>2. Tasks(cur, k)'
    BY <1>1, <1>2, <1>3, <2>1 DEF Tasks, server
  <2>3. Recorded(cur, k)'
    BY <1>1, <1>2, <1>3, <2>1 DEF Tasks, Recorded
  <2>4. Chunks(cur, k)'
    BY <1>1, <1>2, <1>3, <1>5, <2>1, ChunksKept DEF server, ending
  <2> QED
    BY <2>2, <2>3, <2>4
<1>7. Earlier(cur)'
  <2>1. \A k \in 1 .. MaxConns : Given(<<cur, k>>)' = Given(<<cur, k>>)
    BY <1>1 DEF Given
  <2> QED
    BY <1>1, <1>2, <1>5, <2>1 DEF Earlier, StreamInv
<1> QED
  BY <1>1, <1>4, <1>6, <1>7 DEF StreamInv

\* The connection that is entered is the last one made, and has no chunks yet.
LEMMA InsertKeeps ==
  ASSUME IInv, Insert, NEW s \in Streams, s = cur, NEW m, m = made[s]
  PROVE  StreamInv(s)'
<1>1. /\ at = "insert" /\ at' = "get" /\ cur' = s
      /\ entry' = [entry EXCEPT ![s] = m]
      /\ fwd' = [fwd EXCEPT ![<<s, m>>] = "run"]
      /\ server' = server /\ ending' = ending /\ log' = log
      /\ UNCHANGED <<made, local, source, replies, queue, wrote>>
  BY DEF Insert
<1>2. /\ StreamInv(s) /\ Busy(s) = "insert"
      /\ phase[s] = "told" /\ Busy(s)' = "get"
  BY <1>1, CurFacts DEF Busy
<1>3. /\ m \in 1 .. MaxConns /\ entry'[s] = m /\ made'[s] = m
      /\ \A k \in 1 .. MaxConns : fwd'[<<s, k>>] =
            IF k = m THEN "run" ELSE fwd[<<s, k>>]
  <2>1. m \in 1 .. MaxConns
    BY <1>2, ClientBounds DEF IInv, TypeOK, StreamInv, Entered
  <2>2. \A k \in 1 .. MaxConns : fwd'[<<s, k>>] =
            IF k = m THEN "run" ELSE fwd[<<s, k>>]
    BY <1>1, <1>2, LocalFacts DEF IInv, TypeOK
  <2>3. entry'[s] = m
    BY <1>1, <1>2 DEF IInv, TypeOK
  <2> QED
    BY <1>1, <2>1, <2>2, <2>3
<1>4. Entered(s)'
  BY <1>1, <1>2, <1>3 DEF Entered, StreamInv, server, ending
<1>5. Handled(s)' = Handled(s) /\ Handled(s) \in 0 .. MaxChunks
  BY <1>1, <1>2, HandledFacts DEF Handled, server, IInv
<1>6. ASSUME NEW k \in 1 .. MaxConns
      PROVE  Tasks(s, k)' /\ Recorded(s, k)' /\ Chunks(s, k)'
  <2>1. Tasks(s, k) /\ Recorded(s, k) /\ Chunks(s, k)
    BY <1>2 DEF StreamInv
  <2>2. Tasks(s, k)'
    BY <1>1, <1>2, <1>3, <2>1 DEF Tasks, server
  <2>3. Recorded(s, k)'
    BY <1>1, <1>2, <1>3, <2>1 DEF Tasks, Recorded
  <2>4. CASE k # m
    <3>1. /\ queue'[<<s, k>>] = queue[<<s, k>>] /\ wrote'[<<s, k>>] = wrote[<<s, k>>]
          /\ fwd'[<<s, k>>] = fwd[<<s, k>>] /\ ender' = ender /\ entry'[s] # k
      BY <1>1, <1>3, <2>4 DEF ending
    <3> QED
      BY <1>2, <2>1, <2>2, <2>3, <3>1, ChunksKept
  <2>5. CASE k = m
    <3>1. fwd[<<s, k>>] = "off"
      BY <1>2, <1>3, <2>1, <2>5 DEF Tasks
    <3>2. queue[<<s, k>>] = <<>> /\ wrote[<<s, k>>] = <<>>
      BY <2>1, <3>1 DEF Chunks
    <3>3. queue'[<<s, k>>] = <<>> /\ wrote'[<<s, k>>] = <<>>
      BY <1>1, <3>2
    <3>4. UpToDate(s, k, Handled(s))'
      BY <1>5, <3>3, NoRun DEF UpToDate
    <3>5. fwd'[<<s, k>>] = "run"
      BY <1>3, <2>5
    <3> QED
      BY <1>5, <2>2, <2>3, <3>3, <3>4, <3>5, NoRun, ChunksMade
  <2> QED
    BY <2>2, <2>3, <2>4, <2>5
<1>7. Earlier(s)'
  <2>1. \A k \in 1 .. MaxConns : Given(<<s, k>>)' = Given(<<s, k>>)
    BY <1>1 DEF Given
  <2> QED
    BY <1>1, <1>2, <1>5, <2>1 DEF Earlier, StreamInv
<1> QED
  BY <1>1, <1>4, <1>6, <1>7 DEF StreamInv

\* A chunk that is delivered comes behind all that the connection has, which is
\* the last one made: no later connection has any.
LEMMA DeliverKeeps ==
  ASSUME IInv, Deliver, NEW s \in Streams, s = cur, NEW m, m = made[s]
  PROVE  StreamInv(s)'
<1> DEFINE q == queue[<<s, m>>]
<1>1. /\ at = "get" /\ at' = "idle" /\ cur' = s
      /\ entry[s] # 0 /\ fwd[<<s, entry[s]>>] = "run"
      /\ queue' = [queue EXCEPT ![<<s, entry[s]>>] = Append(@, got[s])]
      /\ server' = server /\ ending' = ending /\ log' = log
      /\ UNCHANGED <<made, entry, local, source, replies, fwd, wrote>>
  BY DEF Deliver, Found
<1>2. /\ StreamInv(s) /\ Busy(s) = "get"
      /\ phase[s] = "told" /\ ender[s] = "off" /\ Busy(s)' = "idle"
  BY <1>1, CurFacts DEF Busy
<1>3. /\ entry[s] = m /\ m \in 1 .. MaxConns
      /\ <<s, m>> \in Locals /\ q \in Seq(0 .. MaxChunks)
      /\ \A k \in 1 .. MaxConns : queue'[<<s, k>>] =
            IF k = m THEN Append(q, got[s]) ELSE queue[<<s, k>>]
  <2>1. entry[s] = m /\ m \in 1 .. MaxConns
    BY <1>1, <1>2, ClientBounds DEF IInv, TypeOK, StreamInv, Entered
  <2>2. <<s, m>> \in Locals /\ q \in Seq(0 .. MaxChunks)
    BY <1>2, <2>1, LocalFacts DEF IInv, TypeOK
  <2>3. \A k \in 1 .. MaxConns : queue'[<<s, k>>] =
            IF k = m THEN Append(q, got[s]) ELSE queue[<<s, k>>]
    <3>1. queue' = [queue EXCEPT ![<<s, m>>] = Append(q, got[s])]
      BY <1>1, <2>1
    <3>2. queue \in [Locals -> Seq(0 .. MaxChunks)]
      BY DEF IInv, TypeOK
    <3> QED
      BY <2>2, <3>1, <3>2, LocalFacts
  <2> QED
    BY <2>1, <2>2, <2>3
<1>4. /\ Handled(s) \in Nat /\ got[s] = Handled(s) + 1
      /\ Handled(s)' = got[s] /\ got[s] \in 0 .. MaxChunks
      /\ got[s] # Close
  <2>1. got[s] \in 0 .. MaxChunks
    BY <1>2, HandledFacts DEF IInv
  <2>2. Handled(s)' = got[s]
    BY <1>1, <1>2, <2>1, ClientBounds DEF Handled, server
  <2> QED
    BY <1>1, <2>1, <2>2, CurFacts DEF Close
<1>5. Chunks(s, m)' /\ Given(<<s, m>>)' \subseteq Given(<<s, m>>) \cup {got[s]}
  <2> DEFINE w == wrote[<<s, m>>]
  <2>1. Chunks(s, m)
    BY <1>2, <1>3 DEF StreamInv
  <2>2. PICK b \in 0 .. MaxChunks : RunFrom(w, q, b) /\ UpToDate(s, m, b)
    BY <2>1 DEF Chunks
  <2>3. /\ fwd[<<s, m>>] = "run" /\ fwd'[<<s, m>>] = "run"
        /\ wrote'[<<s, m>>] = w /\ queue'[<<s, m>>] = Append(q, got[s])
    BY <1>1, <1>3
  <2>4. ~ Closing(q)
    BY <1>2, <2>1 DEF Chunks
  <2>5. w \in Seq(Nat) /\ q \in Seq(Nat) /\ b \in Nat /\ got[s] \in Nat
    <3>1. w \in Seq(1 .. MaxChunks)
      BY <1>3 DEF IInv, TypeOK
    <3> QED
      BY <1>3, <1>4, <3>1, ClientBounds, ChunksAreNumbers
  <2>6. b + Len(w) + Len(q) = Handled(s)
    BY <1>2, <1>3, <2>2, <2>3 DEF UpToDate
  <2> HIDE DEF q, w
  <2>7. got[s] = b + Len(w) + Len(q) + 1
    BY <1>4, <2>6
  <2>8. /\ RunFrom(w, Append(q, got[s]), b)
        /\ ~ Closing(Append(q, got[s])) /\ ClosesLast(Append(q, got[s]))
        /\ Numbers(w, Append(q, got[s])) \subseteq Numbers(w, q) \cup {got[s]}
        /\ Len(w) \in Nat /\ Len(q) \in Nat
        /\ Len(Append(q, got[s])) = Len(q) + 1
    BY <1>4, <2>2, <2>4, <2>5, <2>7, RunGrows
  <2>9. UpToDate(s, m, b)'
    <3>1. b + Len(wrote'[<<s, m>>]) + Len(queue'[<<s, m>>]) = Handled(s)'
      BY <1>4, <2>3, <2>5, <2>7, <2>8
    <3> QED
      BY <3>1 DEF UpToDate
  <2>10. Chunks(s, m)'
    BY <2>2, <2>3, <2>8, <2>9, ChunksMade
  <2>11. Given(<<s, m>>)' \subseteq Given(<<s, m>>) \cup {got[s]}
    BY <2>3, <2>8 DEF Given, q, w
  <2> QED
    BY <2>10, <2>11
<1> HIDE DEF q
<1>6. Entered(s)'
  BY <1>1, <1>2 DEF Entered, StreamInv, server, ending
<1>7. ASSUME NEW k \in 1 .. MaxConns
      PROVE  Tasks(s, k)' /\ Recorded(s, k)' /\ Chunks(s, k)'
  <2>1. Tasks(s, k) /\ Recorded(s, k) /\ Chunks(s, k)
    BY <1>2 DEF StreamInv
  <2>2. Tasks(s, k)'
    BY <1>1, <1>2, <2>1 DEF Tasks, server
  <2>3. Recorded(s, k)'
    BY <1>1, <1>2, <1>3, <2>1 DEF Tasks, Recorded
  <2>4. CASE k # m
    <3>1. /\ queue'[<<s, k>>] = queue[<<s, k>>] /\ wrote'[<<s, k>>] = wrote[<<s, k>>]
          /\ fwd'[<<s, k>>] = fwd[<<s, k>>] /\ ender' = ender /\ entry'[s] # k
      BY <1>1, <1>3, <2>4 DEF ending
    <3> QED
      BY <1>2, <2>1, <2>2, <2>3, <3>1, ChunksKept
  <2>5. CASE k = m
    BY <1>5, <2>2, <2>3, <2>5
  <2> QED
    BY <2>2, <2>3, <2>4, <2>5
<1>8. Earlier(s)'
  <2>1. ASSUME NEW k \in 1 .. MaxConns, k # m
        PROVE  Given(<<s, k>>)' = Given(<<s, k>>)
    BY <1>1, <1>3, <2>1 DEF Given
  <2>2. Given(<<s, m>>)' \subseteq Given(<<s, m>>) \cup {got[s]}
    BY <1>5
  <2>3. ASSUME NEW k \in 1 .. MaxConns, k > m
        PROVE  Given(<<s, k>>) = {}
    <3>1. fwd[<<s, k>>] = "off"
      BY <1>2, <2>3 DEF StreamInv, Tasks
    <3>2. queue[<<s, k>>] = <<>> /\ wrote[<<s, k>>] = <<>>
      BY <1>2, <3>1 DEF StreamInv, Chunks
    <3> QED
      BY <3>2, NoRun DEF Given
  <2>4. /\ \A k \in 1 .. MaxConns : \A x \in Given(<<s, k>>) : x \in 1 .. Handled(s)
        /\ \A j, k \in 1 .. MaxConns : j < k =>
              \A x \in Given(<<s, j>>), y \in Given(<<s, k>>) : x < y
    BY <1>2 DEF StreamInv, Earlier
  <2>5. \A k \in 1 .. MaxConns : \A x \in Given(<<s, k>>)' : x \in 1 .. Handled(s)'
    BY <1>4, <2>1, <2>2, <2>4
  <2>6. ASSUME NEW j \in 1 .. MaxConns, NEW k \in 1 .. MaxConns, j < k,
               NEW x \in Given(<<s, j>>)', NEW y \in Given(<<s, k>>)'
        PROVE  x < y
    <3>1. CASE k = m
      <4>1. x \in Given(<<s, j>>) /\ x \in 1 .. Handled(s)
        BY <2>1, <2>4, <2>6, <3>1
      <4>2. y \in Given(<<s, k>>) \/ y = got[s]
        BY <2>2, <3>1
      <4> QED
        BY <1>4, <2>4, <2>6, <4>1, <4>2
    <3>2. CASE j = m
      BY <1>3, <2>1, <2>3, <2>6, <3>2
    <3>3. CASE j # m /\ k # m
      BY <2>1, <2>4, <2>6, <3>3
    <3> QED
      BY <3>1, <3>2, <3>3
  <2> QED
    BY <1>1, <2>5, <2>6 DEF Earlier
<1> QED
  BY <1>1, <1>6, <1>7, <1>8 DEF StreamInv

\* A stream that is announced, and one whose next chunk is read, has the same
\* chunks handled.
LEMMA ReadersKeep ==
  ASSUME IInv, NEW s \in Streams, InitStream(s) \/ Data(s)
  PROVE  StreamInv(s)'
<1>1. Reading /\ Busy(s) = "idle" /\ phase[s] # "ended" /\ got[s] \in Nat
  BY HandledFacts, ClientBounds DEF InitStream, Data, Reading, Busy, IInv
<1>2. conns' = conns /\ ending' = ending /\ log' = log
  BY DEF InitStream, Data
<1>3. phase'[s] # "ended" /\ Busy(s)' \in {"idle", "look"} /\ Handled(s)' = Handled(s)
  <2>1. CASE InitStream(s)
    BY <1>1, <2>1 DEF InitStream, Reading, Busy, Handled, IInv, TypeOK
  <2>2. CASE Data(s)
    <3>1. Busy(s)' = "look" /\ got'[s] = got[s] + 1 /\ phase' = phase
      BY <2>2 DEF Data, Busy, IInv, TypeOK
    <3> QED
      BY <1>1, <3>1 DEF Handled
  <2> QED
    BY <2>1, <2>2
<1>4. SameStream(s)
  BY <1>1, <1>2, <1>3 DEF SameStream, conns, ending
<1>5. \A k \in 1 .. MaxConns : SameConn(<<s, k>>)
  BY <1>2 DEF SameConn, conns
<1> QED
  BY <1>4, <1>5, StreamKept DEF IInv

\* The task of an End packet is at work only when the stream has ended.
LEMMA EndedFacts ==
  ASSUME IInv, NEW s \in Streams
  PROVE  /\ StreamInv(s) /\ Handled(s) \in Nat
         /\ ender[s] # "off" => phase[s] = "ended"
         /\ phase[s] # "ended" => ender[s] = "off"
         /\ ender[s] = "hold" => held[s] \in 1 .. MaxConns
<1>1. StreamInv(s) /\ Handled(s) \in Nat
  BY HandledFacts DEF IInv
<1>2. held[s] \in 0 .. MaxConns
  BY DEF IInv, TypeOK
<1> QED
  BY <1>1, <1>2, ClientBounds DEF StreamInv, Entered

\* The steps from the End packet to the last: none but the third touches a
\* queue, and no chunk counts as missing any more.
LEMMA EndsKeep ==
  ASSUME IInv, NEW s \in Streams,
         End(s) \/ EndLooks(s) \/ EndForgets(s)
  PROVE  StreamInv(s)'
<1>1. /\ loop' = loop /\ at' = at /\ cur' = cur /\ got' = got /\ log' = log
      /\ UNCHANGED <<made, local, source, replies, fwd, queue, wrote>>
  BY DEF End, EndLooks, EndForgets, conns, server
<1>2. /\ StreamInv(s) /\ phase'[s] = "ended"
      /\ ender[s] \in {"forget", "done"} => ender'[s] \in {"forget", "done"}
      /\ entry'[s] \in {entry[s], 0}
      /\ ender'[s] = "hold" => held'[s] # 0
  <2>1. CASE End(s)
    <3>1. phase[s] # "ended" /\ ender[s] = "off" /\ StreamInv(s)
      BY <2>1, EndedFacts DEF End
    <3>2. phase'[s] = "ended" /\ ender'[s] = "look"
      BY <2>1 DEF End, IInv, TypeOK
    <3>3. entry' = entry
      BY <2>1 DEF End, conns
    <3> QED
      BY <3>1, <3>2, <3>3
  <2>2. CASE EndLooks(s)
    BY <2>2, EndedFacts DEF EndLooks, conns, server, IInv, TypeOK
  <2>3. CASE EndForgets(s)
    <3>1. phase[s] = "ended" /\ StreamInv(s)
      BY <2>3, EndedFacts DEF EndForgets
    <3>2. ender'[s] = "done" /\ entry'[s] = 0 /\ phase' = phase
      BY <2>3 DEF EndForgets, server, IInv, TypeOK
    <3> QED
      BY <3>1, <3>2
  <2> QED
    BY <2>1, <2>2, <2>3
<1>3. Busy(s)' = Busy(s) /\ Handled(s)' = Handled(s)
  BY <1>1 DEF Busy, Handled
<1>4. Entered(s)'
  BY <1>1, <1>2, <1>3 DEF Entered, StreamInv
<1>5. ASSUME NEW k \in 1 .. MaxConns
      PROVE  Tasks(s, k)' /\ Recorded(s, k)' /\ Chunks(s, k)'
  <2>1. Tasks(s, k) /\ Recorded(s, k) /\ Chunks(s, k)
    BY <1>2 DEF StreamInv
  <2>2. Tasks(s, k)'
    BY <1>1, <1>2, <1>3, <2>1 DEF Tasks
  <2>3. Recorded(s, k)'
    BY <1>1, <2>1 DEF Recorded
  <2>4. Chunks(s, k)'
    BY <1>1, <1>2, <2>1, ChunksKept
  <2> QED
    BY <2>2, <2>3, <2>4
<1>6. Earlier(s)'
  <2>1. \A k \in 1 .. MaxConns : Given(<<s, k>>)' = Given(<<s, k>>)
    BY <1>1 DEF Given
  <2> QED
    BY <1>2, <1>3, <2>1 DEF Earlier, StreamInv
<1> QED
  BY <1>4, <1>5, <1>6 DEF StreamInv

\* Close is put behind all that the held connection has queued.
LEMMA EndClosesKeeps ==
  ASSUME IInv, NEW s \in Streams, EndCloses(s)
  PROVE  StreamInv(s)'
<1>1. /\ loop' = loop /\ at' = at /\ cur' = cur /\ server' = server /\ log' = log
      /\ UNCHANGED <<made, entry, local, source, replies, fwd, wrote, held>>
      /\ ender[s] = "hold" /\ ender'[s] = "forget"
  BY DEF EndCloses, IInv, TypeOK
<1>2. PICK h \in 1 .. MaxConns : h = held[s]
  BY <1>1, EndedFacts
<1>3. /\ StreamInv(s) /\ phase[s] = "ended" /\ phase'[s] = "ended"
      /\ <<s, h>> \in Locals
  BY <1>1, <1>2, EndedFacts, LocalFacts DEF server
<1>4. /\ \A k \in 1 .. MaxConns : k # h => queue'[<<s, k>>] = queue[<<s, k>>]
      /\ fwd[<<s, h>>] # "run" => queue'[<<s, h>>] = queue[<<s, h>>]
      /\ fwd[<<s, h>>] = "run" => queue'[<<s, h>>] = Append(queue[<<s, h>>], Close)
  BY <1>2, <1>3, LocalFacts DEF EndCloses, IInv, TypeOK
<1>5. Busy(s)' = Busy(s) /\ Handled(s)' = Handled(s)
  BY <1>1 DEF Busy, Handled, server
<1>6. Entered(s)'
  BY <1>1, <1>3, <1>5 DEF Entered, StreamInv
<1>7. ASSUME NEW k \in 1 .. MaxConns
      PROVE  /\ Tasks(s, k)' /\ Recorded(s, k)' /\ Chunks(s, k)'
             /\ Given(<<s, k>>)' \subseteq Given(<<s, k>>)
  <2>1. Tasks(s, k) /\ Recorded(s, k) /\ Chunks(s, k)
    BY <1>3 DEF StreamInv
  <2>2. Tasks(s, k)' /\ Recorded(s, k)'
    BY <1>1, <1>3, <1>5, <2>1 DEF Tasks, Recorded
  <2>3. CASE k # h \/ fwd[<<s, k>>] # "run"
    <3>1. queue'[<<s, k>>] = queue[<<s, k>>]
      BY <1>4, <2>3
    <3>2. Chunks(s, k)'
      BY <1>1, <1>3, <2>1, <3>1, ChunksKept
    <3>3. Given(<<s, k>>)' = Given(<<s, k>>)
      BY <1>1, <3>1 DEF Given
    <3> QED
      BY <2>2, <3>2, <3>3
  <2>4. CASE k = h /\ fwd[<<s, k>>] = "run"
    <3> DEFINE w == wrote[<<s, k>>]
               q == queue[<<s, k>>]
    <3>1. PICK b \in 0 .. MaxChunks : RunFrom(w, q, b)
      BY <2>1 DEF Chunks
    <3>2. w \in Seq(Nat) /\ q \in Seq(Nat) /\ b \in Nat
      <4>1. w \in Seq(1 .. MaxChunks) /\ q \in Seq(0 .. MaxChunks)
        BY LocalFacts DEF IInv, TypeOK
      <4> QED
        BY <4>1, ClientBounds, ChunksAreNumbers
    <3>3. ~ Closing(q)
      BY <1>1, <2>1 DEF Chunks
    <3> HIDE DEF w, q
    <3>4. /\ RunFrom(w, Append(q, Close), b) /\ ClosesLast(Append(q, Close))
          /\ Numbers(w, Append(q, Close)) \subseteq Numbers(w, q)
      BY <3>1, <3>2, <3>3, RunCloses
    <3>5. /\ wrote'[<<s, k>>] = w /\ queue'[<<s, k>>] = Append(q, Close)
          /\ fwd'[<<s, k>>] = "run"
      BY <1>1, <1>4, <2>4 DEF w, q
    <3>6. UpToDate(s, k, b)'
      BY <1>3 DEF UpToDate
    <3>7. Chunks(s, k)'
      BY <1>1, <3>4, <3>5, <3>6, ChunksMade
    <3>8. Given(<<s, k>>)' \subseteq Given(<<s, k>>)
      BY <3>4, <3>5 DEF Given, w, q
    <3> QED
      BY <2>2, <3>7, <3>8
  <2> QED
    BY <2>3, <2>4
<1>8. Earlier(s)'
  BY <1>3, <1>5, <1>7, EarlierKept, EndedFacts DEF StreamInv
<1> QED
  BY <1>6, <1>7, <1>8 DEF StreamInv

\* A step at connection k that leaves the stream and its other connections.
LEMMA ConnKept ==
  ASSUME IInv, NEW s \in Streams, NEW k \in 1 .. MaxConns, SameStream(s),
         \A j \in 1 .. MaxConns : j # k => SameConn(<<s, j>>),
         Tasks(s, k)', Recorded(s, k)', Chunks(s, k)',
         Given(<<s, k>>)' \subseteq Given(<<s, k>>)
  PROVE  StreamInv(s)'
<1>1. StreamInv(s) /\ Handled(s) \in Nat /\ Handled(s)' = Handled(s)
  BY EndedFacts DEF SameStream
<1>2. Entered(s)'
  BY <1>1 DEF Entered, StreamInv, SameStream
<1>3. ASSUME NEW j \in 1 .. MaxConns, j # k
      PROVE  /\ Tasks(s, j)' /\ Recorded(s, j)' /\ Chunks(s, j)'
             /\ Given(<<s, j>>)' = Given(<<s, j>>)
  <2>1. SameConn(<<s, j>>) /\ Tasks(s, j) /\ Recorded(s, j) /\ Chunks(s, j)
    BY <1>1, <1>3 DEF StreamInv
  <2>2. Tasks(s, j)' /\ Recorded(s, j)'
    BY <2>1, TasksKept, RecordedKept
  <2>3. Chunks(s, j)'
    BY <1>1, <2>1, ChunksKept DEF SameConn, SameStream
  <2>4. Given(<<s, j>>)' = Given(<<s, j>>)
    BY <2>1 DEF Given, SameConn
  <2> QED
    BY <2>2, <2>3, <2>4
<1>4. \A j \in 1 .. MaxConns : Given(<<s, j>>)' \subseteq Given(<<s, j>>)
  BY <1>3
<1>5. Earlier(s)'
  BY <1>1, <1>4, EarlierKept DEF StreamInv
<1> QED
  BY <1>2, <1>3, <1>5 DEF StreamInv

\* What the service, the source and collect_stream do at a connection leaves
\* its queue and what it was written.
LEMMA SourcesKeep ==
  ASSUME IInv, NEW s \in Streams, NEW k \in 1 .. MaxConns, NEW c, c = <<s, k>>,
         \/ LocalCloses(c) \/ LocalResets(c) \/ SourceSends(c)
         \/ SourcePanics(c) \/ Collect(c)
  PROVE  StreamInv(s)'
<1>1. c \in Locals /\ c[1] = s
  BY LocalFacts
<1>2. /\ server' = server /\ ending' = ending /\ at' = at /\ cur' = cur
      /\ UNCHANGED <<made, entry, fwd, queue, wrote>>
  BY DEF LocalCloses, LocalResets, SourceSends, SourcePanics, Collect, conns
<1>3. SameStream(s)
  BY <1>2 DEF SameStream, Busy, Handled, server, ending
<1>4. \A j \in 1 .. MaxConns : j # k => SameConn(<<s, j>>)
  BY <1>1, ConnElsewhere DEF Connwise, IInv
<1>5. Tasks(s, k) /\ Recorded(s, k) /\ Chunks(s, k)
  BY DEF IInv, StreamInv
<1>6. Busy(s)' = Busy(s) /\ phase' = phase
  BY <1>2 DEF Busy, server
<1>7. /\ source'[c] = "run" => source[c] = "run"
      /\ source'[c] = source[c] \/ (source[c] # "off" /\ source'[c] # "off")
      /\ local[c] = "reset" => local'[c] = "reset"
  <2>1. CASE LocalCloses(c) \/ LocalResets(c)
    BY <1>1, <2>1 DEF LocalCloses, LocalResets, IInv, TypeOK
  <2>2. CASE SourceSends(c) \/ Collect(c)
    BY <2>2 DEF SourceSends, Collect, conns
  <2>3. CASE SourcePanics(c)
    BY <1>1, <2>3 DEF SourcePanics, IInv, TypeOK
  <2> QED
    BY <2>1, <2>2, <2>3
<1>8. Tasks(s, k)'
  BY <1>2, <1>5, <1>6, <1>7 DEF Tasks
<1>9. Recorded(s, k)'
  <2>1. CASE LocalCloses(c) \/ LocalResets(c)
    BY <1>5, <2>1 DEF Recorded, LocalCloses, LocalResets
  <2>2. CASE SourceSends(c)
    BY <1>5, <2>2 DEF Recorded, SourceSends
  <2>3. CASE SourcePanics(c)
    BY <1>5, <2>3 DEF Recorded, SourcePanics
  <2>4. CASE Collect(c)
    <3>1. log'[c] = Record(TRUE, wrote[c], replies[c])
      BY <1>1, <2>4 DEF Collect, IInv, TypeOK
    <3> QED
      BY <2>4, <3>1 DEF Recorded, Collect, Record, conns
  <2> QED
    BY <2>1, <2>2, <2>3, <2>4
<1>10. Chunks(s, k)'
  BY <1>2, <1>3, <1>5, <1>6, ChunksKept DEF SameStream, ending
<1>11. Given(<<s, k>>)' = Given(<<s, k>>)
  BY <1>2 DEF Given
<1> QED
  BY <1>3, <1>4, <1>8, <1>9, <1>10, <1>11, ConnKept

\* A source that has come to its end takes the entry of its stream with it:
\* its own, or none.
LEMMA SourceEndsKeeps ==
  ASSUME IInv, NEW s \in Streams, NEW k \in 1 .. MaxConns, NEW c, c = <<s, k>>,
         SourceEnds(c)
  PROVE  StreamInv(s)'
<1>1. c \in Locals /\ c[1] = s
  BY LocalFacts
<1>2. /\ server' = server /\ ending' = ending /\ at' = at /\ cur' = cur
      /\ UNCHANGED <<made, local, replies, fwd, queue, wrote, log>>
      /\ source[c] = "run" /\ entry'[s] = 0
      /\ \A j \in 1 .. MaxConns : source'[<<s, j>>] =
            IF j = k THEN "done" ELSE source[<<s, j>>]
  BY <1>1, LocalFacts DEF SourceEnds, IInv, TypeOK
<1>3. StreamInv(s) /\ Tasks(s, k)
  BY DEF IInv, StreamInv
<1>4. k = made[s]
  BY <1>2, <1>3 DEF Tasks
<1>5. Busy(s)' = Busy(s) /\ Handled(s)' = Handled(s)
  BY <1>2 DEF Busy, Handled, server
<1>6. Entered(s)'
  BY <1>2, <1>3, <1>5 DEF Entered, StreamInv, server, ending
<1>7. ASSUME NEW j \in 1 .. MaxConns
      PROVE  Tasks(s, j)' /\ Recorded(s, j)' /\ Chunks(s, j)'
  <2>1. Tasks(s, j) /\ Recorded(s, j) /\ Chunks(s, j)
    BY <1>3 DEF StreamInv
  <2>2. Tasks(s, j)'
    BY <1>2, <1>4, <1>5, <2>1 DEF Tasks, server
  <2>3. Recorded(s, j)'
    BY <1>2, <2>1 DEF Recorded
  <2>4. entry'[s] # j
    BY <1>2
  <2>5. Chunks(s, j)'
    BY <1>2, <2>1, <2>4, ChunksKept DEF ending
  <2> QED
    BY <2>2, <2>3, <2>5
<1>8. Earlier(s)'
  <2>1. \A j \in 1 .. MaxConns : Given(<<s, j>>)' = Given(<<s, j>>)
    BY <1>2 DEF Given
  <2> QED
    BY <1>3, <1>5, <2>1 DEF Earlier, StreamInv
<1> QED
  BY <1>6, <1>7, <1>8 DEF StreamInv

\* A chunk that is written moves from the queue to what is written; a queue
\* that is given up is dropped whole, and by an orderly end only when the stream
\* has lost its entry or has ended.
LEMMA ForwardsKeep ==
  ASSUME IInv, NEW s \in Streams, NEW k \in 1 .. MaxConns, NEW c, c = <<s, k>>,
         FwdWrites(c) \/ FwdPanics(c) \/ FwdCloses(c)
  PROVE  StreamInv(s)'
<1> DEFINE w == wrote[<<s, k>>]
           q == queue[<<s, k>>]
<1>1. c \in Locals /\ c[1] = s /\ c[2] = k
  BY LocalFacts
<1>2. /\ server' = server /\ ending' = ending /\ at' = at /\ cur' = cur
      /\ UNCHANGED <<made, entry, local, source, replies, log>>
      /\ fwd[c] = "run"
  BY DEF FwdWrites, FwdPanics, FwdCloses
<1>3. SameStream(s) /\ Busy(s)' = Busy(s)
  BY <1>2 DEF SameStream, Busy, Handled, server, ending
<1>4. \A j \in 1 .. MaxConns : j # k => SameConn(<<s, j>>)
  BY <1>1, ConnElsewhere DEF Connwise, IInv
<1>5. Tasks(s, k) /\ Recorded(s, k) /\ Chunks(s, k)
  BY DEF IInv, StreamInv
<1>6. Recorded(s, k)'
  BY <1>2, <1>5 DEF Recorded
<1>7. PICK b \in 0 .. MaxChunks : RunFrom(w, q, b) /\ UpToDate(s, k, b)
  BY <1>5 DEF Chunks
<1>8. w \in Seq(Nat) /\ q \in Seq(Nat) /\ b \in Nat
  <2>1. w \in Seq(1 .. MaxChunks) /\ q \in Seq(0 .. MaxChunks)
    BY <1>1 DEF IInv, TypeOK
  <2> QED
    BY <2>1, ClientBounds, ChunksAreNumbers
<1>9. CASE FwdWrites(c)
  <2>1. /\ queue'[<<s, k>>] = Tail(q) /\ wrote'[<<s, k>>] = Append(w, Head(q))
        /\ fwd' = fwd /\ q # <<>> /\ Head(q) # Close
    BY <1>1, <1>9 DEF FwdWrites, IInv, TypeOK
  <2>2. ClosesLast(q) /\ (Closing(q) => ender[s] \in {"forget", "done"})
    BY <1>5 DEF Chunks
  <2> HIDE DEF w, q
  <2>3. /\ RunFrom(Append(w, Head(q)), Tail(q), b)
        /\ ClosesLast(Tail(q)) /\ (Closing(Tail(q)) => Closing(q))
        /\ Numbers(Append(w, Head(q)), Tail(q)) \subseteq Numbers(w, q)
        /\ Len(Append(w, Head(q))) + Len(Tail(q)) = Len(w) + Len(q)
        /\ Len(w) \in Nat /\ Len(q) \in Nat
        /\ Len(Append(w, Head(q))) \in Nat /\ Len(Tail(q)) \in Nat
    BY <1>7, <1>8, <2>1, <2>2, RunMoves
  <2>4. Tasks(s, k)'
    BY <1>2, <1>3, <1>5, <2>1 DEF Tasks, server
  <2>5. UpToDate(s, k, b)'
    <3>1. b + Len(wrote'[<<s, k>>]) + Len(queue'[<<s, k>>]) = b + Len(w) + Len(q)
      BY <1>8, <2>1, <2>3
    <3>2. /\ entry' = entry /\ fwd' = fwd /\ phase' = phase
          /\ Handled(s)' = Handled(s)
      BY <1>2, <1>3, <2>1 DEF server, SameStream
    <3> QED
      BY <1>7, <3>1, <3>2 DEF UpToDate, w, q
  <2>6. /\ fwd'[<<s, k>>] = "run" /\ ender' = ender
    BY <1>2, <2>1 DEF ending
  <2>7. Chunks(s, k)'
    BY <2>1, <2>2, <2>3, <2>5, <2>6, ChunksMade
  <2>8. Given(<<s, k>>)' \subseteq Given(<<s, k>>)
    BY <2>1, <2>3 DEF Given, w, q
  <2> QED
    BY <1>3, <1>4, <1>6, <2>4, <2>7, <2>8, ConnKept
<1>10. CASE FwdPanics(c) \/ FwdCloses(c)
  <2>1. /\ queue'[<<s, k>>] = <<>> /\ wrote'[<<s, k>>] = w
        /\ fwd'[<<s, k>>] \in {"done", "dead"}
        /\ fwd'[<<s, k>>] = "dead" => local[c] = "reset"
        /\ fwd'[<<s, k>>] = "done" => FwdCloses(c)
    <3>1. CASE FwdPanics(c)
      BY <1>1, <3>1 DEF FwdPanics, IInv, TypeOK
    <3>2. CASE FwdCloses(c)
      <4>1. /\ queue' = [queue EXCEPT ![c] = <<>>] /\ wrote' = wrote
            /\ fwd' = [fwd EXCEPT ![c] = "done"]
        BY <3>2, Zenon DEF FwdCloses
      <4> QED
        BY <1>1, <3>2, <4>1 DEF IInv, TypeOK
    <3> QED
      BY <1>10, <3>1, <3>2
  <2>2. RunFrom(w, <<>>, b) /\ Numbers(w, <<>>) \subseteq Numbers(w, q)
    BY <1>7, RunDropped
  <2>3. ASSUME FwdCloses(c), entry[s] = k
        PROVE  phase[s] = "ended"
    <3>1. q # <<>> /\ Head(q) = Close
      BY <1>1, <2>3 DEF FwdCloses
    <3>2. Len(q) \in Nat \ {0} /\ q[1] = Close
      BY <1>8, <3>1, HeadTail
    <3>3. Closing(q)
      BY <3>2 DEF Closing
    <3> QED
      BY <1>5, <3>3, EndedFacts DEF Chunks
  <2>4. Tasks(s, k)'
    BY <1>2, <1>3, <1>5, <2>1, <2>3 DEF Tasks, server
  <2>5. UpToDate(s, k, b)'
    BY <2>1 DEF UpToDate
  <2>6. Chunks(s, k)'
    BY <2>1, <2>2, <2>5, NoRun, ChunksMade, <1>8
  <2>7. Given(<<s, k>>)' \subseteq Given(<<s, k>>)
    BY <2>1, <2>2 DEF Given
  <2> QED
    BY <1>3, <1>4, <1>6, <2>4, <2>6, <2>7, ConnKept
<1> QED
  BY <1>9, <1>10

-----------------------------------------------------------------------------
(* The theorems.                                                            *)

\* Every step of the client keeps the invariant.
THEOREM StepIInv == IInv /\ [Next]_vars => IInv'
<1> SUFFICES ASSUME IInv, [Next]_vars
             PROVE  IInv'
  OBVIOUS
<1>1. CASE Next
  <2>1. TypeOK' /\ LoopInv'
    BY <1>1, TypeStep, LoopStep DEF IInv
  <2>2. ASSUME NEW r \in Streams
        PROVE  StreamInv(r)'
    <3>1. CASE Reads
      <4>1. CASE r # cur
        BY <3>1, <4>1, ReadsElsewhere, StreamKept DEF IInv
      <4>2. CASE r = cur
        <5>1. cur' = cur
          BY <3>1 DEF Reads, ReaderEnds, Restart, Look, Connect, ConnectFails,
                      Insert, Deliver, Refuse, SendFails
        <5>2. CASE ReaderEnds \/ Restart \/ Look \/ ConnectFails \/ Refuse \/ SendFails
          BY <4>2, <5>1, <5>2, ReaderMoves
        <5>3. CASE Connect
          BY <4>2, <5>1, <5>3, ConnectKeeps
        <5>4. CASE Insert
          BY <4>2, <5>4, InsertKeeps
        <5>5. CASE Deliver
          BY <4>2, <5>5, DeliverKeeps
        <5> QED
          BY <3>1, <5>2, <5>3, <5>4, <5>5 DEF Reads
      <4> QED
        BY <4>1, <4>2
    <3>2. ASSUME NEW e \in Eras, Wires(e)
          PROVE  StreamInv(r)'
      BY <3>2, WiresKeep
    <3>3. ASSUME NEW s \in Streams, Streamwise(s)
          PROVE  StreamInv(r)'
      <4>1. CASE r # s
        BY <3>3, <4>1, StreamElsewhere, StreamKept DEF IInv
      <4>2. CASE r = s
        BY <3>3, <4>2, ReadersKeep, EndsKeep, EndClosesKeeps DEF Streamwise
      <4> QED
        BY <4>1, <4>2
    <3>4. ASSUME NEW c \in Locals, Connwise(c)
          PROVE  StreamInv(r)'
      <4>1. CASE r # c[1]
        <5>1. SameStream(r) /\ \A k \in 1 .. MaxConns : SameConn(<<r, k>>)
          BY <3>4, <4>1, ConnElsewhere DEF IInv
        <5> QED
          BY <5>1, StreamKept DEF IInv
      <4>2. CASE r = c[1]
        <5>1. c[2] \in 1 .. MaxConns /\ c = <<r, c[2]>>
          BY <4>2, LocalFacts
        <5> QED
          BY <3>4, <5>1, SourcesKeep, SourceEndsKeeps, ForwardsKeep DEF Connwise
      <4> QED
        BY <4>1, <4>2
    <3> QED
      BY <1>1, <3>1, <3>2, <3>3, <3>4, NextCases
  <2> QED
    BY <2>1, <2>2 DEF IInv
<1>2. CASE UNCHANGED vars
  <2>1. TypeOK' /\ LoopInv'
    BY <1>2 DEF IInv, TypeOK, LoopInv, vars, loop, wire, server, conns, ending
  <2>2. ASSUME NEW r \in Streams
        PROVE  StreamInv(r)'
    <3>1. /\ at' = at /\ cur' = cur
          /\ server' = server /\ conns' = conns /\ ending' = ending /\ log' = log
      BY <1>2 DEF vars
    <3>2. SameStream(r)
      BY <3>1 DEF SameStream, Busy, Handled, server, conns, ending
    <3>3. \A k \in 1 .. MaxConns : SameConn(<<r, k>>)
      BY <3>1 DEF SameConn, conns
    <3> QED
      BY <3>2, <3>3, StreamKept DEF IInv
  <2> QED
    BY <2>1, <2>2 DEF IInv
<1> QED
  BY <1>1, <1>2

\* The invariant holds in every reachable state.
THEOREM InductiveInvariant == Spec => []IInv
  BY InitIInv, StepIInv, PTL DEF Spec

\* Every variable keeps to its range.
THEOREM TypeCorrect == Spec => []TypeOK
<1>1. IInv => TypeOK
  BY DEF IInv
<1> QED
  BY <1>1, InductiveInvariant, PTL

\* A source that runs is that of the last connection of its stream.
LEMMA LastSource == IInv => OneSource
  BY DEF IInv, StreamInv, Tasks, OneSource

\* However the reader, the End packets and the local connections interleave,
\* at most one local connection of a stream is read at a time.
THEOREM SingleSource == Spec => []OneSource
  BY LastSource, InductiveInvariant, PTL

\* What is written and queued are runs of numbers, one after the other.
LEMMA ChunksFollow == IInv => ChunksInOrder
<1> SUFFICES ASSUME IInv, NEW s \in Streams,
                    NEW j \in 1 .. MaxConns, NEW k \in 1 .. MaxConns,
                    NEW m \in 1 .. Len(wrote[<<s, j>>]),
                    NEW n \in 1 .. Len(wrote[<<s, k>>])
             PROVE  /\ j = k => wrote[<<s, j>>][m] - m = wrote[<<s, k>>][n] - n
                    /\ j < k => wrote[<<s, j>>][m] < wrote[<<s, k>>][n]
  BY DEF ChunksInOrder
<1>1. Earlier(s) /\ Chunks(s, j)
  BY DEF IInv, StreamInv
<1>2. ASSUME j = k
      PROVE  wrote[<<s, j>>][m] - m = wrote[<<s, k>>][n] - n
  <2>1. PICK b \in 0 .. MaxChunks :
           \A i \in 1 .. Len(wrote[<<s, j>>]) : wrote[<<s, j>>][i] = b + i
    BY <1>1 DEF Chunks, RunFrom
  <2>2. wrote[<<s, j>>][m] = b + m /\ wrote[<<s, k>>][n] = b + n
    BY <1>2, <2>1
  <2>3. m \in Nat /\ n \in Nat /\ b \in Nat
    BY ClientBounds
  <2> QED
    BY <2>2, <2>3
<1>3. ASSUME j < k
      PROVE  wrote[<<s, j>>][m] < wrote[<<s, k>>][n]
  <2>1. /\ wrote[<<s, j>>][m] \in Given(<<s, j>>)
        /\ wrote[<<s, k>>][n] \in Given(<<s, k>>)
    BY DEF Given, Numbers
  <2> QED
    BY <1>1, <1>3, <2>1 DEF Earlier
<1> QED
  BY <1>2, <1>3

\* A local service gets a contiguous run of the visitor's chunks, and a later
\* connection of the stream later ones.
THEOREM InOrder == Spec => []ChunksInOrder
  BY ChunksFollow, InductiveInvariant, PTL

\* A record is made of tasks that have ended, and these do nothing more.
LEMMA RecordedTruly == IInv => RecordsWhole
<1> SUFFICES ASSUME IInv, NEW c \in Locals, log[c].whole
             PROVE  log[c].request = wrote[c] /\ log[c].response = replies[c]
  BY DEF RecordsWhole
<1>1. c[1] \in Streams /\ c[2] \in 1 .. MaxConns /\ c = <<c[1], c[2]>>
  BY LocalFacts
<1>2. Recorded(c[1], c[2])
  BY <1>1 DEF IInv, StreamInv
<1> QED
  BY <1>1, <1>2 DEF Recorded

\* The dashboard's record of a connection is whole and stays true.
THEOREM WholeRecords == Spec => []RecordsWhole
  BY RecordedTruly, InductiveInvariant, PTL

\* The steps that put packets into the channel for a stream.
LEMMA Speakers ==
  ASSUME IInv, Next, NEW s \in Streams, out'[s] # out[s]
  PROVE  \/ (ConnectFails \/ Refuse) /\ s = cur
         \/ \E c \in Locals : SourceSends(c) /\ s = c[1]
<1>a. out \in [Streams -> Seq(0 .. MaxConns)]
  BY DEF IInv, TypeOK
<1>1. CASE Reads
  <2>1. ConnectFails \/ Refuse
    BY <1>1 DEF Reads, ReaderEnds, Restart, Look, Connect, Insert, Deliver,
       SendFails
  <2>2. out' = [out EXCEPT ![cur] = Append(@, Refused)]
    BY <2>1 DEF ConnectFails, Refuse, Put
  <2> QED
    BY <1>a, <2>1, <2>2
<1>2. ASSUME NEW e \in Eras, Wires(e)
      PROVE  FALSE
  BY <1>2 DEF Wires, Loop, DialSucceeds, DialFails, DialRefused, Slept, Ping,
     Lost, TcpTimeout, WriterSend, WriterFails, WriterEnds
<1>3. ASSUME NEW r \in Streams, Streamwise(r)
      PROVE  FALSE
  BY <1>3 DEF Streamwise, InitStream, Data, End, EndLooks, EndCloses, EndForgets
<1>4. ASSUME NEW c \in Locals, Connwise(c)
      PROVE  SourceSends(c) /\ s = c[1]
  <2>1. SourceSends(c)
    BY <1>4 DEF Connwise, LocalCloses, LocalResets, SourcePanics, SourceEnds,
       FwdWrites, FwdPanics, FwdCloses, Collect
  <2>2. out' = [out EXCEPT ![c[1]] = Append(@, c[2])]
    BY <2>1 DEF SourceSends, Put
  <2> QED
    BY <1>a, <2>1, <2>2
<1> QED
  BY <1>1, <1>2, <1>3, <1>4, NextCases

\* The server is told "refused" only while no local connection of the stream is
\* being read.
THEOREM HonestRefusals == Spec => RefusedOnlyWithoutSource
<1> DEFINE Fair ==
      \A s \in Streams :
          Len(out'[s]) > Len(out[s]) /\ out'[s][Len(out'[s])] = Refused
             => \A k \in 1 .. MaxConns : source[<<s, k>>] # "run"
<1>1. ASSUME IInv, Next, NEW s \in Streams, Len(out'[s]) > Len(out[s]),
             out'[s][Len(out'[s])] = Refused,
             NEW k \in 1 .. MaxConns, source[<<s, k>>] = "run"
      PROVE  FALSE
  <2>1. out[s] \in Seq(0 .. MaxConns) /\ Len(out[s]) \in Nat
    BY <1>1 DEF IInv, TypeOK
  <2>2. out'[s] # out[s]
    BY <1>1, <2>1
  <2>3. CASE (ConnectFails \/ Refuse) /\ s = cur
    <3>1. at \in {"connect", "get"} /\ phase[s] = "told" /\ Busy(s) = at
      BY <1>1, <2>3, CurFacts DEF ConnectFails, Refuse
    <3>2. Entered(s) /\ Tasks(s, k)
      BY <1>1 DEF IInv, StreamInv
    <3>3. entry[s] = 0
      BY <2>3, <3>1, <3>2 DEF Entered, ConnectFails, Refuse
    <3> QED
      BY <1>1, <3>1, <3>2, <3>3 DEF Tasks
  <2>4. ASSUME NEW c \in Locals, SourceSends(c), s = c[1]
        PROVE  FALSE
    <3>1. c[2] \in 0 .. MaxConns /\ c[2] # 0
      BY LocalFacts
    <3>2. out'[s] = Append(out[s], c[2])
      BY <1>1, <2>4 DEF SourceSends, Put, IInv, TypeOK
    <3>3. out'[s][Len(out'[s])] = c[2]
      BY <2>1, <3>1, <3>2, Appended
    <3> QED
      BY <1>1, <3>1, <3>3 DEF Refused
  <2> QED
    BY <1>1, <2>2, <2>3, <2>4, Speakers
<1>2. IInv /\ [Next]_vars => [Fair]_vars
  BY <1>1
<1> QED
  BY <1>2, InductiveInvariant, PTL DEF Spec, RefusedOnlyWithoutSource

\* A tunnel that is up ends the process only over a broken socket.
THEOREM BrokenSocketsOnly == Spec => OnlyBrokenSocketsKill
<1> DEFINE Broken ==
      tunnel = "up" /\ tunnel' = "exited" =>
          \/ link[era] = "down"
          \/ \E k \in 1 .. MaxConns :
                entry[cur] = k /\ local[<<cur, k>>] = "reset"
<1>1. ASSUME IInv, Next, tunnel = "up", tunnel' = "exited"
      PROVE  \/ link[era] = "down"
             \/ \E k \in 1 .. MaxConns :
                   entry[cur] = k /\ local[<<cur, k>>] = "reset"
  <2>1. SendFails
    <3>1. ASSUME Reads PROVE SendFails
      BY <1>1, <3>1 DEF Reads, ReaderEnds, Restart, Look, Connect, ConnectFails,
         Insert, Deliver, Refuse, loop
    <3>2. ASSUME NEW e \in Eras, Wires(e) PROVE FALSE
      BY <1>1, <3>2 DEF Wires, Loop, DialSucceeds, DialFails, DialRefused, Slept,
         Ping, Lost, TcpTimeout, WriterSend, WriterFails, WriterEnds, loop
    <3>3. ASSUME NEW s \in Streams, Streamwise(s) PROVE FALSE
      BY <1>1, <3>3 DEF Streamwise, InitStream, Data, End, EndLooks, EndCloses,
         EndForgets, loop
    <3>4. ASSUME NEW c \in Locals, Connwise(c) PROVE FALSE
      BY <1>1, <3>4 DEF Connwise, LocalCloses, LocalResets, SourceSends,
         SourcePanics, SourceEnds, FwdWrites, FwdPanics, FwdCloses, Collect, loop
    <3> QED
      BY <1>1, <3>1, <3>2, <3>3, <3>4, NextCases
  <2>2. at = "get" /\ cur \in Streams /\ StreamInv(cur) /\ phase[cur] = "told"
    BY <1>1, <2>1, CurFacts DEF SendFails
  <2>3. CASE entry[cur] # 0 /\ fwd[Found] # "run"
    <3>1. entry[cur] \in 1 .. MaxConns
      BY <1>1, <2>2, <2>3, ClientBounds DEF IInv, TypeOK
    <3>2. Tasks(cur, entry[cur])
      BY <2>2, <3>1 DEF StreamInv
    <3> QED
      BY <2>2, <2>3, <3>1, <3>2 DEF Tasks, Found
  <2>4. CASE writer[era] # "on"
    <3>1. era \in Eras
      BY <1>1, TypeFacts DEF IInv, LoopInv
    <3> QED
      BY <1>1, <2>4, <3>1 DEF IInv, LoopInv
  <2> QED
    BY <2>1, <2>3, <2>4 DEF SendFails
<1>2. IInv /\ [Next]_vars => [Broken]_vars
  BY <1>1
<1> QED
  BY <1>2, InductiveInvariant, PTL DEF Spec, OnlyBrokenSocketsKill

-----------------------------------------------------------------------------
(* A stream is a tunnel, as far as the client goes: every step, as a step of *)
(* Pipes.                                                                    *)

\* What has been said of a stream was said of a connection made so far.
Spoken ==
    \A s \in Streams : \A i \in 1 .. Len(out[s]) : out[s][i] <= made[s]

\* The k-th connection of s speaks, or a refusal is said: only the last
\* connection can, and it has been made.
Says(s, k) ==
    /\ k = Refused \/ k = made[s]
    /\ out' = [out EXCEPT ![s] = Append(@, k)]
    /\ UNCHANGED <<got, made, wrote>>

\* A chunk of s has come.
Takes(s) ==
    /\ got' = [got EXCEPT ![s] = @ + 1]
    /\ UNCHANGED <<made, wrote, out>>

\* A step takes a chunk, writes one, says something, makes a connection, or
\* does nothing of the kind.
LEMMA PipeCases ==
  ASSUME IInv, Next
  PROVE  \/ \E s \in Streams : Takes(s)
         \/ \E c \in Locals : FwdWrites(c)
         \/ \E s \in Streams : \E k \in 0 .. MaxConns : Says(s, k)
         \/ /\ \E s \in Streams : made' = [made EXCEPT ![s] = @ + 1]
            /\ UNCHANGED <<got, wrote, out>>
         \/ UNCHANGED <<got, made, wrote, out>>
<1>r. Refused \in 0 .. MaxConns /\ cur \in Streams
  BY ClientBounds DEF Refused, IInv, TypeOK
<1>1. CASE Reads
  <2>1. CASE ConnectFails \/ Refuse
    <3>1. UNCHANGED <<got, made, wrote>>
      BY <2>1 DEF ConnectFails, Refuse, server, conns
    <3>2. out' = [out EXCEPT ![cur] = Append(@, Refused)] \/ out' = out
      BY <2>1 DEF ConnectFails, Refuse, Put
    <3> QED
      BY <1>r, <3>1, <3>2 DEF Says
  <2>2. CASE Connect
    BY <1>r, <2>2 DEF Connect, server
  <2>3. CASE ReaderEnds \/ Restart \/ Look \/ Insert \/ Deliver \/ SendFails
    BY <2>3 DEF ReaderEnds, Restart, Look, Insert, Deliver, SendFails, server,
       conns
  <2> QED
    BY <1>1, <2>1, <2>2, <2>3 DEF Reads
<1>2. ASSUME NEW e \in Eras, Wires(e)
      PROVE  UNCHANGED <<got, made, wrote, out>>
  BY <1>2 DEF Wires, Loop, DialSucceeds, DialFails, DialRefused, Slept, Ping,
     Lost, TcpTimeout, WriterSend, WriterFails, WriterEnds, server, conns
<1>3. ASSUME NEW s \in Streams, Streamwise(s)
      PROVE  Takes(s) \/ UNCHANGED <<got, made, wrote, out>>
  BY <1>3 DEF Streamwise, InitStream, Data, End, EndLooks, EndCloses,
     EndForgets, server, conns, Takes
<1>4. ASSUME NEW c \in Locals, Connwise(c)
      PROVE  \/ FwdWrites(c)
             \/ \E s \in Streams : \E k \in 0 .. MaxConns : Says(s, k)
             \/ UNCHANGED <<got, made, wrote, out>>
  <2>1. CASE SourceSends(c)
    <3>1. /\ c[1] \in Streams /\ c[2] \in 1 .. MaxConns /\ c[2] \in 0 .. MaxConns
          /\ c = <<c[1], c[2]>>
      BY LocalFacts
    <3>2. Tasks(c[1], c[2]) /\ source[<<c[1], c[2]>>] = "run"
      BY <2>1, <3>1 DEF SourceSends, IInv, StreamInv
    <3>3. c[2] = made[c[1]]
      BY <3>2 DEF Tasks
    <3>4. Says(c[1], c[2])
      BY <2>1, <3>3 DEF SourceSends, Put, Says, server
    <3> QED
      BY <3>1, <3>4
  <2>2. CASE \/ LocalCloses(c) \/ LocalResets(c) \/ SourcePanics(c)
             \/ SourceEnds(c) \/ FwdPanics(c) \/ FwdCloses(c) \/ Collect(c)
    BY <2>2 DEF LocalCloses, LocalResets, SourcePanics, SourceEnds, FwdPanics,
       FwdCloses, Collect, server, conns
  <2> QED
    BY <1>4, <2>1, <2>2 DEF Connwise
<1> QED
  BY <1>1, <1>2, <1>3, <1>4, NextCases

\* What is said names a connection that has been made.
LEMMA StepSpoken == IInv /\ Spoken /\ [Next]_vars => Spoken'
<1> SUFFICES ASSUME IInv, Spoken, [Next]_vars, NEW s \in Streams,
                    NEW i \in 1 .. Len(out'[s])
             PROVE  out'[s][i] <= made'[s]
  BY DEF Spoken
<1>o. out \in [Streams -> Seq(0 .. MaxConns)] /\ made \in [Streams -> 0 .. MaxConns]
  BY DEF IInv, TypeOK
<1>t. /\ out \in [Streams -> Seq(0 .. MaxConns)] /\ Len(out[s]) \in Nat
      /\ made \in [Streams -> 0 .. MaxConns] /\ made[s] \in Nat
  BY <1>o, ClientBounds
<1>s. \A j \in 1 .. Len(out[s]) : out[s][j] <= made[s] /\ out[s][j] \in Nat
  BY <1>t, ClientBounds DEF Spoken
<1>1. CASE UNCHANGED <<made, out>>
  BY <1>1 DEF Spoken
<1>2. ASSUME NEW r \in Streams, NEW k \in 0 .. MaxConns, Says(r, k)
      PROVE  out'[s][i] <= made'[s]
  <2>1. CASE r # s
    BY <1>2, <1>t, <2>1 DEF Says, Spoken
  <2>2. CASE r = s
    <3>1. out'[s] = Append(out[s], k) /\ made'[s] = made[s] /\ k <= made[s]
      BY <1>2, <1>t, <2>2 DEF Says, Refused
    <3>2. \/ i \in 1 .. Len(out[s]) /\ out'[s][i] = out[s][i]
          \/ out'[s][i] = k
      BY <1>t, <3>1
    <3> QED
      BY <1>s, <3>1, <3>2
  <2> QED
    BY <2>1, <2>2
<1>3. ASSUME NEW r \in Streams, made' = [made EXCEPT ![r] = @ + 1], out' = out
      PROVE  out'[s][i] <= made'[s]
  <2>1. made'[s] \in {made[s], made[s] + 1}
    BY <1>3, <1>t
  <2> QED
    BY <1>3, <1>s, <1>t, <2>1
<1> QED
  BY <1>1, <1>2, <1>3, PipeCases DEF Takes, FwdWrites, vars, conns

\* No answer names a connection that setup_new_stream has not made.
THEOREM AlwaysSpoken == Spec => []Spoken
<1>1. Init => Spoken
  BY DEF Init, Spoken
<1> QED
  BY <1>1, StepSpoken, InductiveInvariant, PTL DEF Spec

\* A chunk that a local connection is written is one that the reader has taken,
\* and the next in turn.
LEMMA WriteHears ==
  ASSUME IInv, NEW c \in Locals, FwdWrites(c)
  PROVE  Pipe(c[1])!Next
<1>1. PICK s \in Streams, k \in 1 .. MaxConns : c = <<s, k>> /\ c[1] = s
  BY LocalFacts
<1>2. /\ fwd[c] = "run" /\ queue[c] # <<>> /\ Head(queue[c]) # 0
      /\ wrote' = [wrote EXCEPT ![c] = Append(@, Head(queue[c]))]
      /\ out' = out /\ got' = got
  BY DEF FwdWrites, Close, server
<1>3. /\ queue[c] \in Seq(0 .. MaxChunks) /\ wrote[c] \in Seq(1 .. MaxChunks)
      /\ wrote \in [Locals -> Seq(1 .. MaxChunks)] /\ Len(wrote[c]) \in Nat
      /\ got[s] \in Nat
  <2>1. /\ queue \in [Locals -> Seq(0 .. MaxChunks)]
        /\ wrote \in [Locals -> Seq(1 .. MaxChunks)]
        /\ got \in [Streams -> 0 .. MaxChunks]
    BY DEF IInv, TypeOK
  <2> QED
    BY <2>1, ClientBounds
<1>4. PICK n : n = Head(queue[c])
  OBVIOUS
<1>5. n = queue[c][1] /\ 1 \in 1 .. Len(queue[c]) /\ n \in 1 .. MaxChunks
  BY <1>2, <1>3, <1>4, ClientBounds
<1>6. Chunks(s, k) /\ Earlier(s)
  BY <1>1 DEF IInv, StreamInv
<1>7. n \in Given(c)
  BY <1>2, <1>4, <1>5 DEF Given, Numbers, Close
<1>8. n \in 1 .. got[s]
  <2>1. n \in 1 .. Handled(s)
    BY <1>1, <1>6, <1>7 DEF Earlier
  <2>2. Handled(s) \in {got[s], got[s] - 1}
    BY <1>3 DEF Handled
  <2> QED
    BY <1>3, <2>1, <2>2
<1>9. wrote[c] # <<>> => n = wrote[c][Len(wrote[c])] + 1
  <2>1. PICK b \in 0 .. MaxChunks : RunFrom(wrote[c], queue[c], b)
    BY <1>1, <1>6 DEF Chunks
  <2>2. n = b + Len(wrote[c]) + 1
    BY <1>2, <1>4, <1>5, <2>1 DEF RunFrom, Close
  <2>3. wrote[c] # <<>> => wrote[c][Len(wrote[c])] = b + Len(wrote[c])
    BY <1>3, <2>1 DEF RunFrom
  <2> QED
    BY <1>3, <2>1, <2>2, <2>3, ClientBounds
<1>10. \A j \in 1 .. MaxConns : \A m \in Pipe(s)!Heard(j) :
          (j < k => m < n) /\ (k < j => n < m)
  <2>1. ASSUME NEW j \in 1 .. MaxConns, NEW m \in Pipe(s)!Heard(j)
        PROVE  m \in Given(<<s, j>>)
    BY <2>1 DEF Pipe!Heard, Given, Numbers
  <2> QED
    BY <1>1, <1>6, <1>7, <2>1 DEF Earlier
<1>11. Pipe(s)!Hear(k, n)
  <2>1. \A j \in 1 .. MaxConns :
           wrote'[<<s, j>>] = IF j = k THEN Append(wrote[<<s, j>>], n)
                                       ELSE wrote[<<s, j>>]
    BY <1>1, <1>2, <1>3, <1>4, LocalFacts
  <2>2. [j \in 1 .. MaxConns |-> wrote'[<<s, j>>]] =
           [[j \in 1 .. MaxConns |-> wrote[<<s, j>>]] EXCEPT ![k] = Append(@, n)]
    BY <2>1
  <2> QED
    BY <1>1, <1>2, <1>8, <1>9, <1>10, <2>2 DEF Pipe!Hear, Pipe!Locals
<1> QED
  BY <1>1, <1>8, <1>11 DEF Pipe!Next, Pipe!Locals

\* Every step, as a step of the pipe of s or one that it does not see.
LEMMA StepPipes ==
  ASSUME IInv, Spoken, Next, NEW s \in Streams
  PROVE  Pipe(s)!Next \/ UNCHANGED Pipe(s)!vars
<1>t. /\ out \in [Streams -> Seq(0 .. MaxConns)]
      /\ got \in [Streams -> 0 .. MaxChunks]
  BY DEF IInv, TypeOK
<1>1. CASE UNCHANGED <<got, wrote, out>>
  BY <1>1 DEF Pipe!vars
<1>2. ASSUME NEW r \in Streams, Takes(r)
      PROVE  Pipe(s)!Next \/ UNCHANGED Pipe(s)!vars
  <2>1. CASE r = s
    BY <1>2, <1>t, <2>1 DEF Takes, Pipe!Next, Pipe!Ask
  <2>2. CASE r # s
    BY <1>2, <1>t, <2>2 DEF Takes, Pipe!vars
  <2> QED
    BY <2>1, <2>2
<1>3. ASSUME NEW r \in Streams, NEW k \in 0 .. MaxConns, Says(r, k)
      PROVE  Pipe(s)!Next \/ UNCHANGED Pipe(s)!vars
  <2>1. CASE r = s
    <3>1. out'[s] = Append(out[s], k)
      BY <1>3, <1>t, <2>1 DEF Says
    <3>2. k # 0 => \A i \in 1 .. Len(out[s]) : out[s][i] <= k
      BY <1>3, <2>1 DEF Says, Spoken, Refused
    <3>3. Pipe(s)!Say(k)
      BY <1>3, <3>1, <3>2 DEF Says, Pipe!Say, Pipe!Refused
    <3>4. k \in Pipe(s)!Locals \cup {Pipe(s)!Refused}
      BY ClientBounds DEF Pipe!Locals, Pipe!Refused
    <3> QED
      BY <3>3, <3>4 DEF Pipe!Next
  <2>2. CASE r # s
    BY <1>3, <1>t, <2>2 DEF Says, Pipe!vars
  <2> QED
    BY <2>1, <2>2
<1>4. ASSUME NEW c \in Locals, FwdWrites(c)
      PROVE  Pipe(s)!Next \/ UNCHANGED Pipe(s)!vars
  <2>1. CASE c[1] = s
    BY <1>4, <2>1, WriteHears
  <2>2. CASE c[1] # s
    <3>1. \A k \in 1 .. MaxConns : wrote'[<<s, k>>] = wrote[<<s, k>>]
      BY <1>4, <2>2, LocalFacts DEF FwdWrites, IInv, TypeOK
    <3>2. out' = out /\ got' = got
      BY <1>4 DEF FwdWrites, server
    <3> QED
      BY <3>1, <3>2 DEF Pipe!vars
  <2> QED
    BY <2>1, <2>2
<1> QED
  BY <1>1, <1>2, <1>3, <1>4, PipeCases

\* Whatever becomes of its websocket, every stream of every era is a tunnel as
\* far as the client goes: process_control_flow_message, forward_to_local_tcp
\* and process_local_tcp hand the request and its answers on as Pipes promises.
THEOREM StreamsStayPipes == Spec => StreamsArePipes
<1> DEFINE Moves == \A s \in Streams : Pipe(s)!Next \/ UNCHANGED Pipe(s)!vars
<1>1. ASSUME Init, NEW s \in Streams
      PROVE  Pipe(s)!Init
  <2>1. /\ got[s] = 0 /\ out[s] = <<>>
        /\ \A k \in 1 .. MaxConns : wrote[<<s, k>>] = <<>>
    BY <1>1, LocalFacts DEF Init
  <2> QED
    BY <2>1 DEF Pipe!Init, Pipe!Locals
<1>2. Init => \A s \in Streams : Pipe(s)!Init
  BY <1>1
<1>3. IInv /\ Spoken /\ [Next]_vars => [Moves]_vars
  BY StepPipes
<1>4. Spec => \A s \in Streams : Pipe(s)!Init
  BY <1>2 DEF Spec
<1>5. Spec => [][Moves]_vars
  BY <1>3, InductiveInvariant, AlwaysSpoken, PTL DEF Spec
<1> QED
  BY <1>4, <1>5 DEF StreamsArePipes

=============================================================================
