---------------------------- MODULE PacketProofs ----------------------------
(* Proofs about Packet: what is written to the websocket is what is read.   *)
EXTENDS Packet, SequenceTheorems, TLAPS

\* The codes of the packets are told apart.
LEMMA Codes ==
    /\ \A k \in Kinds : Code[k] \in 1 .. 5
    /\ \A j, k \in Kinds : Code[j] = Code[k] => j = k
BY DEF Kinds, Code

\* The parts of a message: one byte of kind, eight of id, and the data.
LEMMA Layout ==
  ASSUME NEW k \in Kinds, NEW id \in StreamId,
         NEW D, Byte \subseteq D, NEW d \in Seq(D),
         NEW b, b = serialize(Packet(k, id, d))
  PROVE  /\ Len(b) = 9 + Len(d) /\ Len(b) >= 9
         /\ b[1] = Code[k]
         /\ SubSeq(b, 2, 9) = id
         /\ SubSeq(b, 10, Len(b)) = d
<1>1. /\ id \in Seq(D) /\ Len(id) = 8 /\ Len(d) \in Nat
      /\ Code[k] \in D
  <2>1. DOMAIN id = 1 .. 8 /\ \A i \in 1 .. 8 : id[i] \in Byte
    BY DEF StreamId
  <2>2. id \in Seq(D)
    BY <2>1, 8 \in Nat, id = [i \in 1 .. 8 |-> id[i]] DEF StreamId
  <2>3. Len(id) = 8
    BY <2>1, <2>2, LenProperties
  <2>4. Code[k] \in D
    <3>1. Code[k] \in 1 .. 5
      BY Codes
    <3>2. 1 .. 5 \subseteq 0 .. 255
      OBVIOUS
    <3> QED
      BY <3>1, <3>2, Zenon DEF Byte
  <2> QED
    BY <2>2, <2>3, <2>4
<1>2. b = <<Code[k]>> \o id \o d
  BY DEF serialize, Packet
<1>3. /\ b \in Seq(D) /\ Len(b) = 9 + Len(d) /\ b[1] = Code[k]
      /\ \A i \in 1 .. 8 : b[i + 1] = id[i]
      /\ \A i \in 1 .. Len(d) : b[i + 9] = d[i]
  <2>1. PICK a : a = <<Code[k]>>
    OBVIOUS
  <2>2. a \in Seq(D) /\ Len(a) = 1 /\ a[1] = Code[k]
    BY <1>1, <2>1
  <2>3. PICK h : h = a \o id
    OBVIOUS
  <2>4. /\ h \in Seq(D) /\ Len(h) = Len(a) + Len(id)
        /\ \A i \in 1 .. Len(a) : h[i] = a[i]
        /\ \A i \in 1 .. Len(id) : h[Len(a) + i] = id[i]
    <3>1. a \in Seq(D) /\ id \in Seq(D)
      BY <1>1, <2>2
    <3>2. /\ a \o id \in Seq(D) /\ Len(a \o id) = Len(a) + Len(id)
          /\ \A i \in 1 .. Len(a) : (a \o id)[i] = a[i]
          /\ \A i \in 1 .. Len(id) : (a \o id)[Len(a) + i] = id[i]
      BY <3>1
    <3> QED
      BY <2>3, <3>2, Zenon
  <2>5. Len(h) = 9 /\ h[1] = Code[k] /\ \A i \in 1 .. 8 : h[i + 1] = id[i]
    BY <1>1, <2>2, <2>4
  <2>6. b = h \o d
    BY <1>2, <2>1, <2>3
  <2>7. /\ b \in Seq(D) /\ Len(b) = Len(h) + Len(d)
        /\ \A i \in 1 .. Len(h) : b[i] = h[i]
        /\ \A i \in 1 .. Len(d) : b[Len(h) + i] = d[i]
    <3>1. h \in Seq(D) /\ d \in Seq(D)
      BY <2>4
    <3>2. h \o d \in Seq(D) /\ Len(h \o d) = Len(h) + Len(d)
      BY <3>1
    <3>3. \A i \in 1 .. Len(h) : (h \o d)[i] = h[i]
      BY <3>1
    <3>4. \A i \in 1 .. Len(d) : (h \o d)[Len(h) + i] = d[i]
      BY <3>1
    <3> QED
      BY <2>6, <3>2, <3>3, <3>4, Zenon
  <2> QED
    BY <1>1, <2>5, <2>7
<1>4. SubSeq(b, 2, 9) = id
  <2>1. SubSeq(b, 2, 9) \in Seq(D) /\ Len(SubSeq(b, 2, 9)) = 8
    BY <1>1, <1>3
  <2>2. \A i \in 1 .. 8 : SubSeq(b, 2, 9)[i] = id[i]
    BY <1>1, <1>3
  <2> QED
    BY <1>1, <2>1, <2>2
<1>5. SubSeq(b, 10, Len(b)) = d
  <2>1. /\ SubSeq(b, 10, Len(b)) \in Seq(D)
        /\ Len(SubSeq(b, 10, Len(b))) = Len(d)
    BY <1>1, <1>3
  <2>2. \A i \in 1 .. Len(d) : SubSeq(b, 10, Len(b))[i] = d[i]
    BY <1>1, <1>3
  <2> QED
    BY <1>1, <2>1, <2>2
<1> QED
  BY <1>1, <1>3, <1>4, <1>5

\* A packet that is serialized is read back as the same kind for the same
\* stream, data with all of its bytes and the others without any; a ping comes
\* back with the token it was given.  The elements of data are bytes in the code;
\* where one stands for a whole chunk, as in module Tunnel, D has more.
THEOREM RoundTrip ==
  ASSUME NEW id \in StreamId, NEW D, Byte \subseteq D, NEW d \in Seq(D)
  PROVE  /\ \A k \in {"init", "refused", "end"} :
               deserialize(serialize(Packet(k, id, d))) = Packet(k, id, <<>>)
         /\ deserialize(serialize(Packet("data", id, d))) = Packet("data", id, d)
         /\ deserialize(serialize(Ping)) = Ping
         /\ deserialize(serialize(PingWith(d))) = PingWith(d)
<1>1. ASSUME NEW k \in Kinds, NEW i \in StreamId, NEW e \in Seq(D)
      PROVE  deserialize(serialize(Packet(k, i, e))) =
               CASE k = "data" -> Packet("data", i, e)
                 [] k = "ping" /\ i = EMPTY_STREAM -> Ping
                 [] k = "ping" /\ i # EMPTY_STREAM -> PingWith(e)
                 [] OTHER -> Packet(k, i, <<>>)
  <2> DEFINE b == serialize(Packet(k, i, e))
  <2>1. /\ Len(b) >= 9 /\ Len(b) = 9 + Len(e) /\ b[1] = Code[k]
        /\ SubSeq(b, 2, 9) = i /\ SubSeq(b, 10, Len(b)) = e
    BY Layout
  <2>2. ~(Len(b) < 9 \/ \A j \in Kinds : Code[j] # b[1])
    <3>1. Len(e) \in Nat
      OBVIOUS
    <3> QED
      BY <2>1, <3>1
  <2>3. (CHOOSE j \in Kinds : Code[j] = b[1]) = k
    BY <2>1, Codes
  <2> HIDE DEF b
  <2>4. deserialize(b) =
           CASE k = "data" -> Packet("data", i, e)
             [] k = "ping" /\ i = EMPTY_STREAM -> Ping
             [] k = "ping" /\ i # EMPTY_STREAM -> PingWith(e)
             [] OTHER -> Packet(k, i, <<>>)
    BY <2>1, <2>2, <2>3, Zenon DEF deserialize
  <2> QED
    BY <2>4 DEF b
<1>2. EMPTY_STREAM \in StreamId /\ TOKEN_STREAM \in StreamId
      /\ TOKEN_STREAM # EMPTY_STREAM
  <2>1. TOKEN_STREAM[8] # EMPTY_STREAM[8]
    BY DEF EMPTY_STREAM, TOKEN_STREAM
  <2> QED
    BY <2>1 DEF EMPTY_STREAM, TOKEN_STREAM, StreamId, Byte
<1>3. \A k \in {"init", "refused", "end"} :
         deserialize(serialize(Packet(k, id, d))) = Packet(k, id, <<>>)
  BY <1>1 DEF Kinds
<1>4. deserialize(serialize(Packet("data", id, d))) = Packet("data", id, d)
  BY <1>1 DEF Kinds
<1>5. deserialize(serialize(Ping)) = Ping
  <2>1. <<>> \in Seq(D) /\ "ping" \in Kinds
    BY DEF Kinds
  <2> QED
    BY <1>1, <1>2, <2>1 DEF Ping
<1>6. deserialize(serialize(PingWith(d))) = PingWith(d)
  BY <1>1, <1>2 DEF Kinds, PingWith
<1> QED
  BY <1>3, <1>4, <1>5, <1>6

\* Whatever arrives, deserialize refuses what is too short for a stream id or of
\* no known code, and nothing else; and what it reads as a packet of a stream
\* would, written again, be read as that packet.  (Of a token that is not UTF-8
\* String::from_utf8_lossy makes another one: pings are left out.)
THEOREM ReadAnything ==
  ASSUME NEW b \in Seq(Byte)
  PROVE  /\ deserialize(b) = Invalid <=> Len(b) < 9 \/ b[1] \notin 1 .. 5
         /\ deserialize(b).kind \in {"init", "data", "refused", "end"} =>
               deserialize(serialize(deserialize(b))) = deserialize(b)
<1>1. /\ \A k \in Kinds : Code[k] \in 1 .. 5
      /\ \A n \in 1 .. 5 : \E k \in Kinds : Code[k] = n
  <2>1. /\ Code["init"] = 1 /\ Code["data"] = 2 /\ Code["refused"] = 3
        /\ Code["end"] = 4 /\ Code["ping"] = 5
    BY DEF Code
  <2> QED
    BY <2>1 DEF Kinds
<1>2. CASE Len(b) < 9 \/ b[1] \notin 1 .. 5
  <2>1. Len(b) < 9 \/ \A k \in Kinds : Code[k] # b[1]
    BY <1>1, <1>2
  <2>2. deserialize(b) = Invalid
    BY <2>1, Zenon DEF deserialize
  <2> QED
    BY <1>2, <2>2 DEF Invalid, Packet
<1>3. CASE ~(Len(b) < 9 \/ b[1] \notin 1 .. 5)
  <2>1. PICK k : k = CHOOSE j \in Kinds : Code[j] = b[1]
    OBVIOUS
  <2>2. k \in Kinds /\ ~(Len(b) < 9 \/ \A j \in Kinds : Code[j] # b[1])
    BY <1>1, <1>3, <2>1
  <2>3. PICK id : id = SubSeq(b, 2, 9)
    OBVIOUS
  <2>4. PICK d : d = SubSeq(b, 10, Len(b))
    OBVIOUS
  <2>5. id \in StreamId /\ d \in Seq(Byte)
    <3>1. Len(b) \in Nat /\ Len(b) >= 9
      BY <1>3
    <3>2. \A i \in 1 .. Len(b) : b[i] \in Byte
      OBVIOUS
    <3>3. id = [i \in 1 .. 8 |-> b[i + 1]]
      <4>1. SubSeq(b, 2, 9) = [i \in 1 .. (9 - 2 + 1) |-> b[2 + i - 1]]
        BY <3>1, SubSeqProperties
      <4>2. \A i \in 1 .. 8 : 2 + i - 1 = i + 1
        OBVIOUS
      <4> QED
        BY <2>3, <4>1, <4>2
    <3>4. \A i \in 1 .. 8 : i + 1 \in 1 .. Len(b)
      BY <3>1
    <3>5. id \in StreamId
      BY <3>2, <3>3, <3>4 DEF StreamId
    <3>6. d \in Seq(Byte)
      <4>1. 10 \in Int /\ Len(b) \in Int /\ \A i \in 10 .. Len(b) : i \in 1 .. Len(b)
        BY <3>1
      <4>2. \A i \in 10 .. Len(b) : b[i] \in Byte
        BY <3>2, <4>1
      <4>3. SubSeq(b, 10, Len(b)) \in Seq(Byte)
        BY <4>1, <4>2, SubSeqProperties
      <4> QED
        BY <2>4, <4>3
    <3> QED
      BY <3>5, <3>6
  <2>6. deserialize(b) = CASE k = "data" -> Packet("data", id, d)
                           [] k = "ping" /\ id = EMPTY_STREAM -> Ping
                           [] k = "ping" /\ id # EMPTY_STREAM -> PingWith(d)
                           [] OTHER -> Packet(k, id, <<>>)
    BY <2>1, <2>2, <2>3, <2>4, Zenon DEF deserialize
  <2>7. CASE k = "data"
    <3>1. deserialize(b) = Packet("data", id, d)
      BY <2>6, <2>7
    <3>2. deserialize(serialize(Packet("data", id, d))) = Packet("data", id, d)
      BY <2>5, RoundTrip
    <3>3. Packet("data", id, d) # Invalid
      BY DEF Packet, Invalid
    <3> QED
      BY <1>3, <3>1, <3>2, <3>3
  <2>8. CASE k = "ping"
    <3>1. deserialize(b) \in {Ping, PingWith(d)}
      BY <2>6, <2>8
    <3>2. \A p \in {Ping, PingWith(d)} : p.kind = "ping" /\ p # Invalid
      BY DEF Ping, PingWith, Packet, Invalid
    <3> QED
      BY <1>3, <3>1, <3>2
  <2>9. CASE k \in {"init", "refused", "end"}
    <3>1. deserialize(b) = Packet(k, id, <<>>)
      BY <2>6, <2>9
    <3>2. <<>> \in Seq(Byte)
      OBVIOUS
    <3>3. deserialize(serialize(Packet(k, id, <<>>))) = Packet(k, id, <<>>)
      BY <2>5, <2>9, <3>2, RoundTrip
    <3>4. Packet(k, id, <<>>) # Invalid
      BY <2>9 DEF Packet, Invalid
    <3> QED
      BY <1>3, <3>1, <3>3, <3>4
  <2> QED
    BY <2>2, <2>7, <2>8, <2>9 DEF Kinds
<1> QED
  BY <1>2, <1>3
=============================================================================
