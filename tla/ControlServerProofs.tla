------------------------- MODULE ControlServerProofs -------------------------
(* Proofs about ControlServer, for any connections, names and bounds.       *)
EXTENDS ControlServer, TLAPS

\* The invariant holds before anyone has said hello.
THEOREM InitIInv == Init => IInv
<1> SUFFICES ASSUME Init PROVE IInv
  OBVIOUS
<1> USE DEF Init, RegistryInit
<1>1. TypeOK
  <2>1. RegistryTypeOK
    BY DEF RegistryTypeOK
  <2>2. PcOK
    BY DEF PcOK, Labels, ConnLabels, ReaderLabels, WriterLabels, PingLabels,
           StreamLabels, RemoveLabels, Tasks
  <2> QED
    BY <2>1, <2>2, BoundsAssumption DEF TypeOK, WsStates
<1>2. Named /\ OwnName
  BY RegistryAssumption DEF Named, OwnName, Tasks
<1>3. Handshaking /\ OpenIsRegistered /\ SoleClaimantListed
  BY RegistryAssumption DEF Handshaking, Unpublished, Unlisted, Registered, At,
    Tasks, OpenIsRegistered, SoleClaimantListed
<1>4. RemoversClosed /\ ReaderCleans
  BY DEF RemoversClosed, ReaderCleans, At, Removers, Tasks
<1> QED
  BY <1>1, <1>2, <1>3, <1>4 DEF IInv

-----------------------------------------------------------------------------
(* Type correctness: every step keeps every variable in its range.          *)

\* Every step of every task, of the peer and of TCP keeps the types.
THEOREM TypeStep == TypeOK /\ [Next]_vars => TypeOK'
<1> SUFFICES ASSUME TypeOK, [Next]_vars PROVE TypeOK'
  OBVIOUS
<1> USE BoundsAssumption, RegistryAssumption
    DEF TypeOK, RegistryTypeOK, PcOK, Labels, ConnLabels, ReaderLabels,
        WriterLabels, PingLabels, StreamLabels, RemoveLabels, Tasks, Removers,
        At, Goto, WsStates, record, registry, channel, network
<1>1. ASSUME NEW c \in Conns, NEW h \in Hosts, NEW w \in Flags, Hello(c, h, w)
      PROVE  TypeOK'
  <2>1. CASE find_by_host(h) # NoConn
    BY <1>1, <2>1 DEF Hello, Reject
  <2>2. CASE find_by_host(h) = NoConn
    BY <1>1, <2>2 DEF Hello
  <2> QED
    BY <2>1, <2>2
<1>2. ASSUME NEW c \in Conns, RefuseHello(c)
      PROVE  TypeOK'
  BY <1>2 DEF RefuseHello, Reject
<1>3. ASSUME NEW c \in Conns, CheckWildcard(c)
      PROVE  TypeOK'
  BY <1>3 DEF CheckWildcard, Reject
<1>4. ASSUME NEW c \in Conns, Authenticate(c)
      PROVE  TypeOK'
  BY <1>4 DEF Authenticate, Reject
<1>5. ASSUME NEW c \in Conns, Greet(c)
      PROVE  TypeOK'
  BY <1>5 DEF Greet, Written
<1>6. ASSUME NEW c \in Conns, GreetFails(c)
      PROVE  TypeOK'
  BY <1>6 DEF GreetFails
<1>7. ASSUME NEW c \in Conns, NEW t \in {"conn", "reader"}, AddClient(t, c)
      PROVE  TypeOK'
  BY <1>7 DEF AddClient, InsertClient
<1>8. ASSUME NEW c \in Conns, AddHostAndSpawn(c)
      PROVE  TypeOK'
  <2>1. hosts' \in [Hosts -> Conns \cup {NoConn}]
    BY <1>8 DEF AddHostAndSpawn, InsertHost
  <2>2. pc' \in [Tasks -> [Conns -> Labels]]
    BY <1>8, ZenonT(60) DEF AddHostAndSpawn
  <2>3. \A d \in Conns :
           /\ pc'["conn"][d] \in {pc["conn"][d], "done"}
           /\ pc'["reader"][d] \in {pc["reader"][d], "recv"}
           /\ pc'["writer"][d] \in {pc["writer"][d], "send"}
           /\ pc'["ping"][d] \in {pc["ping"][d], "tick"}
           /\ pc'["stream"][d] = pc["stream"][d]
    BY <1>8, ZenonT(60) DEF AddHostAndSpawn
  <2>4. PcOK'
    BY <2>2, <2>3
  <2> QED
    BY <1>8, <2>1, <2>4 DEF AddHostAndSpawn
<1>9. ASSUME NEW c \in Conns, AddHostAgain(c)
      PROVE  TypeOK'
  BY <1>9, ZenonT(60) DEF AddHostAgain, InsertHost
<1>10. ASSUME NEW c \in Conns, NEW t \in Removers, CloseChannel(t, c)
      PROVE  TypeOK'
  BY <1>10 DEF CloseChannel
<1>11. ASSUME NEW c \in Conns, NEW t \in Removers, MatchHost(t, c)
      PROVE  TypeOK'
  BY <1>11 DEF MatchHost
<1>12. ASSUME NEW c \in Conns, NEW t \in Removers, RemoveHost(t, c)
       PROVE  TypeOK'
  <2>1. hosts' \in [Hosts -> Conns \cup {NoConn}]
    BY <1>12 DEF RemoveHost, DeleteHost
  <2>2. PcOK'
    BY <1>12 DEF RemoveHost
  <2> QED
    BY <1>12, <2>1, <2>2 DEF RemoveHost
<1>13. ASSUME NEW c \in Conns, NEW t \in Removers, RemoveClient(t, c)
      PROVE  TypeOK'
  BY <1>13 DEF RemoveClient, DeleteClient, AfterRemove
<1>14. ASSUME NEW c \in Conns, WriterSend(c)
      PROVE  TypeOK'
  BY <1>14 DEF WriterSend, Written
<1>15. ASSUME NEW c \in Conns, WriterFails(c)
      PROVE  TypeOK'
  BY <1>15 DEF WriterFails
<1>16. ASSUME NEW c \in Conns, WriterEnds(c)
      PROVE  TypeOK'
  BY <1>16 DEF WriterEnds
<1>17. ASSUME NEW c \in Conns, ReaderPong(c)
      PROVE  TypeOK'
  BY <1>17 DEF ReaderPong
<1>18. ASSUME NEW c \in Conns, ReaderEnds(c)
      PROVE  TypeOK'
  BY <1>18 DEF ReaderEnds
<1>19. ASSUME NEW c \in Conns, PingSend(c)
      PROVE  TypeOK'
  BY <1>19 DEF PingSend
<1>20. ASSUME NEW c \in Conns, PingFails(c)
      PROVE  TypeOK'
  BY <1>20 DEF PingFails
<1>21. ASSUME NEW c \in Conns, StreamOpen(c)
      PROVE  TypeOK'
  BY <1>21 DEF StreamOpen
<1>22. ASSUME NEW c \in Conns, StreamInit(c)
      PROVE  TypeOK'
  BY <1>22 DEF StreamInit
<1>23. ASSUME NEW c \in Conns, StreamGet(c)
      PROVE  TypeOK'
  BY <1>23 DEF StreamGet
<1>24. ASSUME NEW c \in Conns, StreamForward(c)
      PROVE  TypeOK'
  BY <1>24 DEF StreamForward
<1>25. ASSUME NEW c \in Conns, StreamEnds(c)
      PROVE  TypeOK'
  BY <1>25 DEF StreamEnds
<1>26. ASSUME NEW c \in Conns, Drop(c)
      PROVE  TypeOK'
  BY <1>26 DEF Drop
<1>27. ASSUME NEW c \in Conns, TcpTimeout(c)
      PROVE  TypeOK'
  BY <1>27 DEF TcpTimeout
<1>28. CASE UNCHANGED vars
  BY <1>28 DEF vars
<1> HIDE DEF TypeOK, RegistryTypeOK, PcOK, Labels, ConnLabels, ReaderLabels,
             WriterLabels, PingLabels, StreamLabels, RemoveLabels, At, Goto,
             WsStates, record, registry, channel, network
<1> QED
  BY <1>1, <1>2, <1>3, <1>4, <1>5, <1>6, <1>7, <1>8, <1>9, <1>10, <1>11, <1>12,
     <1>13, <1>14, <1>15, <1>16, <1>17, <1>18, <1>19, <1>20, <1>21, <1>22, <1>23,
     <1>24, <1>25, <1>26, <1>27, <1>28
  DEF Next, Handshake, Add, Remove, Writer, Reader, Ping, Stream

-----------------------------------------------------------------------------
(* The inductive step, in three lemmas for the steps that move no entry and *)
(* no channel, and one step of the proof for each action that does.         *)

\* Steps that only touch buffers and the network keep the invariant.
LEMMA FrameLemma ==
    ASSUME IInv, TypeOK', UNCHANGED <<record, registry, open, pc>>
    PROVE  IInv'
BY DEF IInv, Named, Handshaking, OwnName, RemoversClosed, OpenIsRegistered,
       ReaderCleans, SoleClaimantListed, Unlisted, Registered, At, record,
       registry

\* A handshake that goes on, or is refused, keeps the invariant: the
\* connection stays unpublished and its channel does not exist yet.
LEMMA HandshakeLemma ==
    ASSUME IInv, TypeOK', NEW c \in Conns,
           NEW l \in Unpublished \ {"hello", "addClient"},
           pc["conn"][c] \in Unpublished \ {"addClient"},
           Goto("conn", c, l),
           l # "refused" => claim'[c] \in Hosts,
           \A d \in Conns \ {c} : claim'[d] = claim[d],
           UNCHANGED <<registry, open>>
    PROVE  IInv'
<1> USE DEF IInv, TypeOK, PcOK, Tasks, Goto, registry
<1>1. Named'
  BY DEF Named
<1>2. OwnName'
  BY DEF OwnName, Handshaking, Unlisted, RegistryTypeOK
<1>3. Handshaking'
  BY DEF Handshaking, Unlisted, Registered, Unpublished, At
<1>4. RemoversClosed' /\ ReaderCleans'
  BY DEF RemoversClosed, ReaderCleans, Removers, Registered, At
<1>5. OpenIsRegistered' /\ SoleClaimantListed'
  BY DEF OpenIsRegistered, SoleClaimantListed, Handshaking, Registered,
         Unpublished, At
<1> QED
  BY <1>1, <1>2, <1>3, <1>4, <1>5

\* A task of a published connection moves, changing neither map: it may go
\* into remove past the closing only when the channel is closed, and the
\* reader may come to the last step of remove only when no host names c.
LEMMA MoveLemma ==
    ASSUME IInv, TypeOK', NEW c \in Conns, NEW t \in Removers,
           NEW l \in Labels,
           Goto(t, c, l),
           UNCHANGED <<record, registry, open>>,
           ~At(t, c, "off") \/ (t = "stream" /\ pc["conn"][c] \notin Unpublished),
           l \in {"match", "unhost", "unclient", "done"} => ~open[c],
           t = "stream" /\ l = "close" => ~open[c],
           t = "reader" => l # "done",
           t = "reader" /\ l = "unclient" => \A h \in Hosts : hosts[h] # c
    PROVE  IInv'
<1> USE DEF IInv, TypeOK, PcOK, Tasks, Removers, Goto, record, registry
<1>1. Named' /\ OwnName'
  BY DEF Named, OwnName
<1>2. Handshaking'
  BY DEF Handshaking, Unlisted, Registered, Unpublished, ConnLabels, At
<1>3. RemoversClosed' /\ ReaderCleans'
  BY DEF RemoversClosed, ReaderCleans, Registered, At
<1>4. OpenIsRegistered' /\ SoleClaimantListed'
  BY DEF OpenIsRegistered, SoleClaimantListed, Registered, At
<1> QED
  BY <1>1, <1>2, <1>3, <1>4

\* Every step of every task, of the peer and of TCP keeps the invariant.
THEOREM IInvStep == IInv /\ [Next]_vars => IInv'
<1> SUFFICES ASSUME IInv, [Next]_vars, TypeOK' PROVE IInv'
  BY TypeStep DEF IInv
<1>t. /\ pc \in [Tasks -> [Conns -> Labels]]
      /\ PcOK
      /\ claim \in [Conns -> Hosts \cup {NoHost}]
      /\ open \in [Conns -> BOOLEAN]
  BY DEF IInv, TypeOK, RegistryTypeOK, PcOK
<1>1. ASSUME NEW c \in Conns, NEW h \in Hosts, NEW w \in Flags, Hello(c, h, w)
      PROVE  IInv'
  <2> USE <1>1, <1>t DEF Hello, Reject, At
  <2>1. pc["conn"][c] \in Unpublished \ {"addClient"}
    BY DEF Unpublished
  <2>2. PICK l \in {"refused", "wild", "auth"} : Goto("conn", c, l)
    OBVIOUS
  <2>3. l # "refused" => claim'[c] \in Hosts
    BY <2>2 DEF record, Named, IInv, Goto, Tasks
  <2> QED
    BY <2>1, <2>2, <2>3, HandshakeLemma DEF Unpublished, record, registry, channel
<1>2. ASSUME NEW c \in Conns, RefuseHello(c)
      PROVE  IInv'
  <2> USE <1>2, <1>t DEF RefuseHello, Reject, At
  <2>1. pc["conn"][c] \in Unpublished \ {"addClient"}
    BY DEF Unpublished
  <2>2. PICK l \in {"refused"} : Goto("conn", c, l)
    OBVIOUS
  <2>3. l # "refused" => claim'[c] \in Hosts
    BY <2>2 DEF record, Named, IInv, Goto, Tasks
  <2> QED
    BY <2>1, <2>2, <2>3, HandshakeLemma DEF Unpublished, record, registry, channel
<1>3. ASSUME NEW c \in Conns, CheckWildcard(c)
      PROVE  IInv'
  <2> USE <1>3, <1>t DEF CheckWildcard, Reject, At
  <2>1. pc["conn"][c] \in Unpublished \ {"addClient"}
    BY DEF Unpublished
  <2>2. PICK l \in {"refused", "auth"} : Goto("conn", c, l)
    OBVIOUS
  <2>3. l # "refused" => claim'[c] \in Hosts
    BY <2>2 DEF record, Named, IInv, Goto, Tasks
  <2> QED
    BY <2>1, <2>2, <2>3, HandshakeLemma DEF Unpublished, record, registry, channel
<1>4. ASSUME NEW c \in Conns, Authenticate(c)
      PROVE  IInv'
  <2> USE <1>4, <1>t DEF Authenticate, Reject, At
  <2>1. pc["conn"][c] \in Unpublished \ {"addClient"}
    BY DEF Unpublished
  <2>2. PICK l \in {"refused", "greet"} : Goto("conn", c, l)
    OBVIOUS
  <2>3. l # "refused" => claim'[c] \in Hosts
    BY <2>2 DEF record, Named, IInv, Goto, Tasks
  <2> QED
    BY <2>1, <2>2, <2>3, HandshakeLemma DEF Unpublished, record, registry, channel
<1>5. ASSUME NEW c \in Conns, Greet(c)
      PROVE  IInv'
  <2> USE <1>5, <1>t DEF IInv, TypeOK, RegistryTypeOK, PcOK, Tasks, Removers,
          ConnLabels, ReaderLabels, WriterLabels, PingLabels, StreamLabels,
          RemoveLabels, Greet, Written, At, Goto, record, registry,
          channel
  <2>1. Named' /\ OwnName'
    BY DEF Named, OwnName
  <2>2. Handshaking'
    BY DEF Handshaking, Unlisted, Registered, Unpublished, RemoversClosed
  <2>3. RemoversClosed' /\ ReaderCleans'
    BY DEF RemoversClosed, ReaderCleans, Registered, Handshaking, Unpublished
  <2>4. OpenIsRegistered'
    BY DEF OpenIsRegistered, Registered, RemoversClosed, Handshaking
  <2>5. SoleClaimantListed'
    BY DEF SoleClaimantListed, Named, OwnName, RemoversClosed, Handshaking,
           Unpublished
  <2> QED
    BY <2>1, <2>2, <2>3, <2>4, <2>5
<1>6. ASSUME NEW c \in Conns, GreetFails(c)
      PROVE  IInv'
  <2> USE <1>6, <1>t DEF GreetFails, At
  <2>1. pc["conn"][c] \in Unpublished \ {"addClient"}
    BY DEF Unpublished
  <2>2. PICK l \in {"refused"} : Goto("conn", c, l)
    OBVIOUS
  <2>3. l # "refused" => claim'[c] \in Hosts
    BY <2>2 DEF record, Named, IInv, Goto, Tasks
  <2> QED
    BY <2>1, <2>2, <2>3, HandshakeLemma DEF Unpublished, record, registry, channel
<1>7. ASSUME NEW c \in Conns, NEW t \in {"conn", "reader"}, AddClient(t, c)
      PROVE  IInv'
  <2> USE <1>7, <1>t DEF IInv, TypeOK, RegistryTypeOK, PcOK, Tasks, Removers,
          ConnLabels, ReaderLabels, WriterLabels, PingLabels, StreamLabels,
          RemoveLabels, AddClient, InsertClient, At, Goto, record, registry,
          channel
  <2>1. Named' /\ OwnName'
    BY DEF Named, OwnName
  <2>2. Handshaking'
    BY DEF Handshaking, Unlisted, Registered, Unpublished, RemoversClosed
  <2>3. RemoversClosed' /\ ReaderCleans'
    BY DEF RemoversClosed, ReaderCleans, Registered, OwnName, Handshaking
  <2>4. OpenIsRegistered'
    BY DEF OpenIsRegistered, Registered, RemoversClosed, Handshaking
  <2>5. SoleClaimantListed'
    BY DEF SoleClaimantListed, Named, OwnName, RemoversClosed, Handshaking,
           Unpublished
  <2> QED
    BY <2>1, <2>2, <2>3, <2>4, <2>5
<1>8. ASSUME NEW c \in Conns, AddHostAndSpawn(c)
      PROVE  IInv'
  <2> USE <1>8, <1>t DEF IInv, PcOK, Tasks, Removers, record
  <2>1. /\ claim[c] \in Hosts
        /\ pc["conn"][c] = "addHost"
        /\ open[c]
        /\ UNCHANGED <<claim, clients, open>>
    BY DEF AddHostAndSpawn, Named, Handshaking, At, channel
  <2>2. \A h \in Hosts : hosts'[h] = IF h = claim[c] THEN c ELSE hosts[h]
    BY <2>1 DEF AddHostAndSpawn, InsertHost, TypeOK, RegistryTypeOK
  <2>3. \A d \in Conns :
           /\ pc'["conn"][d] = IF d = c THEN "done" ELSE pc["conn"][d]
           /\ pc'["reader"][d] = IF d = c THEN "recv" ELSE pc["reader"][d]
           /\ pc'["writer"][d] = IF d = c THEN "send" ELSE pc["writer"][d]
           /\ pc'["ping"][d] = IF d = c THEN "tick" ELSE pc["ping"][d]
           /\ pc'["stream"][d] = pc["stream"][d]
    BY DEF AddHostAndSpawn
  <2>4. Named' /\ OwnName'
    BY <2>1, <2>2, <2>3, RegistryAssumption DEF Named, OwnName
  <2>5. Handshaking'
    BY <2>1, <2>2, <2>3 DEF Handshaking, Unlisted, Registered, Unpublished, At
  <2>6. RemoversClosed' /\ ReaderCleans'
    BY <2>1, <2>2, <2>3 DEF RemoversClosed, ReaderCleans, Registered, At
  <2>7. OpenIsRegistered'
    BY <2>1, <2>3 DEF OpenIsRegistered, Registered
  <2>8. SoleClaimantListed'
    BY <2>1, <2>2, <2>3 DEF SoleClaimantListed, Named, At
  <2> QED
    BY <2>4, <2>5, <2>6, <2>7, <2>8
<1>9. ASSUME NEW c \in Conns, AddHostAgain(c)
      PROVE  IInv'
  <2> USE <1>9, <1>t DEF IInv, TypeOK, RegistryTypeOK, PcOK, Tasks, Removers,
          ConnLabels, ReaderLabels, WriterLabels, PingLabels, StreamLabels,
          RemoveLabels, AddHostAgain, InsertHost, At, Goto, record, registry,
          channel
  <2>1. Named' /\ OwnName'
    BY DEF Named, OwnName
  <2>2. Handshaking'
    BY DEF Handshaking, Unlisted, Registered, Unpublished, RemoversClosed
  <2>3. RemoversClosed' /\ ReaderCleans'
    BY DEF RemoversClosed, ReaderCleans, Registered, OwnName, Handshaking
  <2>4. OpenIsRegistered'
    BY DEF OpenIsRegistered, Registered, RemoversClosed, Handshaking
  <2>5. SoleClaimantListed'
    BY DEF SoleClaimantListed, Named, OwnName, RemoversClosed, Handshaking,
           Unpublished
  <2> QED
    BY <2>1, <2>2, <2>3, <2>4, <2>5
<1>10. ASSUME NEW c \in Conns, NEW t \in Removers, CloseChannel(t, c)
       PROVE  IInv'
  <2> USE <1>10, <1>t DEF IInv, TypeOK, RegistryTypeOK, PcOK, Tasks, Removers,
          ConnLabels, ReaderLabels, WriterLabels, PingLabels, StreamLabels,
          RemoveLabels, CloseChannel, At, Goto, record, registry,
          channel
  <2>1. Named' /\ OwnName'
    BY DEF Named, OwnName
  <2>2. Handshaking'
    BY DEF Handshaking, Unlisted, Registered, Unpublished, RemoversClosed
  <2>3. RemoversClosed' /\ ReaderCleans'
    BY DEF RemoversClosed, ReaderCleans, Registered, OwnName, Handshaking
  <2>4. OpenIsRegistered'
    BY DEF OpenIsRegistered, Registered, RemoversClosed, Handshaking
  <2>5. SoleClaimantListed'
    BY DEF SoleClaimantListed, Named, OwnName, RemoversClosed, Handshaking,
           Unpublished
  <2> QED
    BY <2>1, <2>2, <2>3, <2>4, <2>5
<1>11. ASSUME NEW c \in Conns, NEW t \in Removers, MatchHost(t, c)
       PROVE  IInv'
  <2> USE <1>11, <1>t DEF MatchHost, At
  <2>1. /\ ~open[c]
        /\ ~HoldsHost(c) => \A h \in Hosts : hosts[h] # c
    BY RegistryAssumption DEF HoldsHost, IInv, OwnName, RemoversClosed
  <2>2. PICK l \in {"unhost", "unclient"} :
           /\ Goto(t, c, l)
           /\ l = "unclient" => ~HoldsHost(c)
    OBVIOUS
  <2>3. l = "unclient" => \A h \in Hosts : hosts[h] # c
    BY <2>1, <2>2
  <2>4. l \in Labels /\ ~At(t, c, "off")
    BY DEF Labels, ReaderLabels, RemoveLabels
  <2>5. UNCHANGED <<record, registry, open>>
    BY DEF channel
  <2> QED
    BY <2>1, <2>2, <2>3, <2>4, <2>5, MoveLemma
<1>12. ASSUME NEW c \in Conns, NEW t \in Removers, RemoveHost(t, c)
       PROVE  IInv'
  <2> USE <1>12, <1>t DEF IInv, PcOK, ConnLabels, ReaderLabels, WriterLabels,
          PingLabels, StreamLabels, RemoveLabels, Tasks, Removers, record
  <2>1. /\ pc[t][c] = "unhost"
        /\ ~open[c]
        /\ UNCHANGED <<claim, clients, open>>
    BY DEF RemoveHost, RemoversClosed, At, channel
  <2>2. /\ pc["conn"][c] = "done"
        /\ claim[c] \in Hosts
    BY <2>1 DEF Handshaking, Unpublished, Named, At
  <2>3. \A h \in Hosts : hosts'[h] = IF h = claim[c] THEN NoConn ELSE hosts[h]
    BY <2>2 DEF RemoveHost, DeleteHost, TypeOK, RegistryTypeOK
  <2>4. \A u \in Tasks, d \in Conns :
           pc'[u][d] = IF u = t /\ d = c THEN "unclient" ELSE pc[u][d]
    BY DEF RemoveHost, Goto
  <2>5. \A h \in Hosts : hosts'[h] # c
    BY <2>3, RegistryAssumption DEF OwnName
  <2>6. Named' /\ OwnName'
    BY <2>1, <2>3, <2>4 DEF Named, OwnName
  <2>7. Handshaking'
    BY <2>1, <2>2, <2>3, <2>4, RegistryAssumption
    DEF Handshaking, Unlisted, Registered, Unpublished, At
  <2>8. RemoversClosed' /\ ReaderCleans'
    BY <2>1, <2>3, <2>4, <2>5, RegistryAssumption
    DEF RemoversClosed, ReaderCleans, Registered, At
  <2>9. OpenIsRegistered'
    BY <2>1, <2>4 DEF OpenIsRegistered, Registered
  <2>10. SoleClaimantListed'
    BY <2>1, <2>2, <2>3, <2>4 DEF SoleClaimantListed, Named, At
  <2> QED
    BY <2>6, <2>7, <2>8, <2>9, <2>10
<1>13. ASSUME NEW c \in Conns, NEW t \in Removers, RemoveClient(t, c)
       PROVE  IInv'
  <2> USE <1>13, <1>t DEF IInv, TypeOK, RegistryTypeOK, PcOK, Tasks, Removers,
          ConnLabels, ReaderLabels, WriterLabels, PingLabels, StreamLabels,
          RemoveLabels, RemoveClient, DeleteClient, AfterRemove, At, Goto, record,
             registry,
          channel
  <2>1. Named' /\ OwnName'
    BY DEF Named, OwnName
  <2>2. Handshaking'
    BY DEF Handshaking, Unlisted, Registered, Unpublished, RemoversClosed
  <2>3. RemoversClosed' /\ ReaderCleans'
    BY DEF RemoversClosed, ReaderCleans, Registered, OwnName, Handshaking
  <2>4. OpenIsRegistered'
    BY DEF OpenIsRegistered, Registered, RemoversClosed, Handshaking
  <2>5. SoleClaimantListed'
    BY DEF SoleClaimantListed, Named, OwnName, RemoversClosed, Handshaking,
           Unpublished
  <2> QED
    BY <2>1, <2>2, <2>3, <2>4, <2>5
<1>14. ASSUME NEW c \in Conns, WriterSend(c)
       PROVE  IInv'
  BY <1>14, FrameLemma DEF WriterSend, registry, channel
<1>15. ASSUME NEW c \in Conns, WriterFails(c)
       PROVE  IInv'
  BY <1>15, <1>t, MoveLemma DEF WriterFails, At, Removers, Tasks, Labels, ConnLabels,
     ReaderLabels, WriterLabels, PingLabels, StreamLabels, RemoveLabels,
     channel, network
<1>16. ASSUME NEW c \in Conns, WriterEnds(c)
       PROVE  IInv'
  BY <1>16, <1>t, MoveLemma DEF WriterEnds, At, Removers, Tasks, Labels, ConnLabels,
     ReaderLabels, WriterLabels, PingLabels, StreamLabels, RemoveLabels,
     channel, network
<1>17. ASSUME NEW c \in Conns, ReaderPong(c)
       PROVE  IInv'
  BY <1>17, <1>t, MoveLemma DEF ReaderPong, At, Removers, Tasks, Labels, ConnLabels,
     ReaderLabels, WriterLabels, PingLabels, StreamLabels, RemoveLabels,
     channel, network
<1>18. ASSUME NEW c \in Conns, ReaderEnds(c)
       PROVE  IInv'
  BY <1>18, <1>t, MoveLemma DEF ReaderEnds, At, Removers, Tasks, Labels, ConnLabels,
     ReaderLabels, WriterLabels, PingLabels, StreamLabels, RemoveLabels,
     channel, network
<1>19. ASSUME NEW c \in Conns, PingSend(c)
       PROVE  IInv'
  BY <1>19, FrameLemma DEF PingSend, registry, channel
<1>20. ASSUME NEW c \in Conns, PingFails(c)
       PROVE  IInv'
  BY <1>20, <1>t, MoveLemma DEF PingFails, At, Removers, Tasks, Labels, ConnLabels,
     ReaderLabels, WriterLabels, PingLabels, StreamLabels, RemoveLabels,
     channel, network
<1>21. ASSUME NEW c \in Conns, StreamOpen(c)
       PROVE  IInv'
  <2>1. pc["conn"][c] \notin Unpublished
    BY <1>21 DEF StreamOpen, ServingHost, find_by_host, find_wildcard, IInv,
       Handshaking, Unlisted, Registered
  <2> QED
    BY <1>21, <1>t, <2>1, MoveLemma DEF StreamOpen, At, Removers, Tasks, Labels,
       StreamLabels, channel
<1>22. ASSUME NEW c \in Conns, StreamInit(c)
       PROVE  IInv'
  BY <1>22, <1>t, MoveLemma DEF StreamInit, At, Removers, Tasks, Labels, ConnLabels,
     ReaderLabels, WriterLabels, PingLabels, StreamLabels, RemoveLabels,
     channel, network
<1>23. ASSUME NEW c \in Conns, StreamGet(c)
       PROVE  IInv'
  BY <1>23, <1>t, MoveLemma DEF StreamGet, At, Removers, Tasks, Labels, ConnLabels,
     ReaderLabels, WriterLabels, PingLabels, StreamLabels, RemoveLabels,
     channel, network
<1>24. ASSUME NEW c \in Conns, StreamForward(c)
       PROVE  IInv'
  BY <1>24, <1>t, MoveLemma DEF StreamForward, At, Removers, Tasks, Labels, ConnLabels,
     ReaderLabels, WriterLabels, PingLabels, StreamLabels, RemoveLabels,
     channel, network
<1>25. ASSUME NEW c \in Conns, StreamEnds(c)
       PROVE  IInv'
  BY <1>25, <1>t, MoveLemma DEF StreamEnds, At, Removers, Tasks, Labels, ConnLabels,
     ReaderLabels, WriterLabels, PingLabels, StreamLabels, RemoveLabels,
     channel, network
<1>26. ASSUME NEW c \in Conns, Drop(c)
       PROVE  IInv'
  BY <1>26, FrameLemma DEF Drop, registry, channel
<1>27. ASSUME NEW c \in Conns, TcpTimeout(c)
       PROVE  IInv'
  BY <1>27, FrameLemma DEF TcpTimeout, registry, channel
<1>28. CASE UNCHANGED vars
  BY <1>28, FrameLemma DEF vars, channel
<1> QED
  BY <1>1, <1>2, <1>3, <1>4, <1>5, <1>6, <1>7, <1>8, <1>9, <1>10, <1>11, <1>12,
     <1>13, <1>14, <1>15, <1>16, <1>17, <1>18, <1>19, <1>20, <1>21, <1>22, <1>23,
     <1>24, <1>25, <1>26, <1>27, <1>28
  DEF Next, Handshake, Add, Remove, Writer, Reader, Ping, Stream

\* The invariant holds in every reachable state.
THEOREM InductiveInvariant == Spec => []IInv
BY InitIInv, IInvStep, PTL DEF Spec

-----------------------------------------------------------------------------
(* What follows from it.                                                     *)

\* Type correctness of the server's control state.
THEOREM TypeCorrect == Spec => []TypeOK
BY InductiveInvariant, PTL DEF IInv

\* A connection whose reader has ended is in neither map: Connections::remove
\* is safe against every interleaving with itself and with Connections::add.
THEOREM NoGhostEver == Spec => []NoGhost
<1>1. IInv => NoGhost
  BY DEF IInv, NoGhost, ReaderCleans, Unlisted, At
<1> QED
  BY <1>1, InductiveInvariant, PTL

\* A client whose channel is open is never missing from clients.
THEOREM OpenClientsRegistered == Spec => []OpenIsRegistered
BY InductiveInvariant, PTL DEF IInv

\* An open connection without a rival of the same name is always found.
THEOREM SoleClaimantFound == Spec => []SoleClaimantListed
BY InductiveInvariant, PTL DEF IInv

\* process_tcp_stream gives a visitor up only when its client's channel is
\* closed.
THEOREM NotFoundJustified == Spec => NotFoundOnlyIfClosed
<1>1. ASSUME IInv, [Next]_vars, NEW c \in Conns,
             At("stream", c, "get"), pc'["stream"][c] = "off"
      PROVE  ~open[c]
  <2>1. pc["conn"][c] \in {"addHost", "done"}
    BY <1>1 DEF IInv, TypeOK, PcOK, ConnLabels, Handshaking, Unpublished, At
  <2>2. ~Registered(c)
    <3> USE <1>1 DEF IInv, TypeOK, PcOK, Tasks, Removers, At, Goto
    <3>1. CASE UNCHANGED vars
      BY <1>1, <3>1 DEF vars
    <3>2. ASSUME NEW d \in Conns, Handshake(d) \/ Add(d)
          PROVE  pc'["stream"][c] = pc["stream"][c]
      BY <3>2 DEF Handshake, Hello, RefuseHello, CheckWildcard, Authenticate,
         Greet, GreetFails, Reject, Add, AddClient, AddHostAndSpawn,
         AddHostAgain
    <3>3. ASSUME NEW d \in Conns, NEW t \in Removers, Remove(t, d)
          PROVE  pc'["stream"][c] \in {pc["stream"][c], "match", "unhost",
             "unclient", "get"}
      BY <3>3 DEF Remove, CloseChannel, MatchHost, RemoveHost, RemoveClient,
         AfterRemove
    <3>4. ASSUME NEW d \in Conns,
                 Writer(d) \/ Reader(d) \/ Ping(d) \/ Drop(d) \/ TcpTimeout(d)
          PROVE  pc'["stream"][c] = pc["stream"][c]
      BY <3>4 DEF Writer, WriterSend, WriterFails, WriterEnds, Reader, ReaderPong,
         ReaderEnds, Ping, PingSend, PingFails, Drop, TcpTimeout
    <3>5. ASSUME NEW d \in Conns, Stream(d)
          PROVE  ~Registered(c)
      BY <1>1, <3>5 DEF Stream, StreamOpen, StreamInit, StreamGet, StreamForward,
         StreamEnds
    <3> QED
      BY <1>1, <3>1, <3>2, <3>3, <3>4, <3>5 DEF Next
  <2> QED
    BY <1>1, <2>1, <2>2 DEF IInv, OpenIsRegistered
<1>2. IInv /\ [Next]_vars
        => [\A c \in Conns :
              At("stream", c, "get") /\ pc'["stream"][c] = "off" => ~open[c]]_vars
  BY <1>1
<1> QED
  BY <1>2, InductiveInvariant, PTL DEF Spec, NotFoundOnlyIfClosed

-----------------------------------------------------------------------------
(* The refinement: the registry and its tasks implement NameService.         *)

LEMMA InitRefines == Init => NS!Init
BY DEF Init, RegistryInit, NS!Init, phase, At, Tasks

\* A step that changes no name, no entry and neither of the two counters that
\* determine the phase stutters.
LEMMA StutterLemma ==
    ASSUME UNCHANGED <<claim, hosts>>,
           \A d \in Conns : /\ pc'["conn"][d] = pc["conn"][d]
                            /\ pc'["reader"][d] = pc["reader"][d]
    PROVE  UNCHANGED NS!vars
BY DEF NS!vars, phase, At

\* As StutterLemma, for a step of a connection within its live phase.
LEMMA LiveLemma ==
    ASSUME IInv, UNCHANGED <<claim, hosts>>,
           NEW t \in Tasks, NEW c \in Conns, NEW l \in Labels, Goto(t, c, l),
           t = "conn" => pc["conn"][c] \notin {"hello", "refused"}
                           /\ l \notin {"hello", "refused"},
           t = "reader" => pc["reader"][c] # "done" /\ l # "done"
    PROVE  UNCHANGED NS!vars
BY DEF NS!vars, phase, At, Goto, IInv, TypeOK, PcOK, Tasks

\* A refusal, at any step of the handshake, ends the session.
LEMMA RefusalLemma ==
    ASSUME IInv, NEW c \in Conns,
           pc["conn"][c] \in {"hello", "wild", "auth", "greet"},
           Goto("conn", c, "refused"), UNCHANGED <<claim, hosts>>
    PROVE  NS!End(c)
<1>1. /\ phase[c] \in {"new", "live"}
      /\ \A h \in Hosts : hosts[h] # c
  BY DEF IInv, Handshaking, Unlisted, Unpublished, phase, At
<1>2. phase' = [phase EXCEPT ![c] = "ended"]
  BY DEF phase, At, Goto, IInv, TypeOK, PcOK, Tasks
<1> QED
  BY <1>1, <1>2 DEF NS!End

\* Every step of the control server is a step of NameService or changes
\* nothing NameService sees.
THEOREM StepRefines == IInv /\ [Next]_vars => [NS!Next]_(NS!vars)
<1> SUFFICES ASSUME IInv, [Next]_vars
             PROVE  NS!Next \/ UNCHANGED NS!vars
  OBVIOUS
<1>t. /\ pc \in [Tasks -> [Conns -> Labels]]
      /\ claim \in [Conns -> Hosts \cup {NoHost}]
      /\ hosts \in [Hosts -> Conns \cup {NoConn}]
      /\ \A h \in Hosts : hosts[h] # NoConn => claim[hosts[h]] = h
  BY DEF IInv, TypeOK, RegistryTypeOK, PcOK, OwnName
<1>1. ASSUME NEW c \in Conns, NEW h \in Hosts, NEW w \in Flags, Hello(c, h, w)
      PROVE  NS!Next \/ UNCHANGED NS!vars
  <2> USE <1>1, <1>t DEF Hello, At, find_by_host
  <2>1. CASE hosts[h] # NoConn
    BY <2>1, RefusalLemma DEF Reject, record, registry, NS!Next
  <2>2. CASE hosts[h] = NoConn
    <3>1. PICK l \in {"wild", "auth"} : Goto("conn", c, l)
      BY <2>2
    <3>2. pc["reader"][c] = "off"
      BY DEF IInv, Handshaking
    <3>3. phase[c] = "new" /\ phase' = [phase EXCEPT ![c] = "live"]
      BY <3>1, <3>2 DEF phase, Goto, Tasks
    <3> QED
      BY <2>2, <3>3 DEF NS!Next, NS!Claim, registry
  <2> QED
    BY <2>1, <2>2
<1>2. ASSUME NEW c \in Conns, RefuseHello(c)
      PROVE  NS!Next \/ UNCHANGED NS!vars
  BY <1>2, RefusalLemma DEF RefuseHello, Reject, At, record, registry, NS!Next
<1>3. ASSUME NEW c \in Conns, CheckWildcard(c)
      PROVE  NS!Next \/ UNCHANGED NS!vars
  <2>1. CASE Goto("conn", c, "refused")
    BY <1>3, <2>1, RefusalLemma DEF CheckWildcard, At, record, registry, NS!Next
  <2>2. CASE Goto("conn", c, "auth")
    BY <1>3, <2>2, LiveLemma DEF CheckWildcard, At, record, registry, Tasks, Labels,
       ConnLabels
  <2> QED
    BY <1>3, <2>1, <2>2 DEF CheckWildcard, Reject
<1>4. ASSUME NEW c \in Conns, Authenticate(c)
      PROVE  NS!Next \/ UNCHANGED NS!vars
  <2>1. CASE Goto("conn", c, "refused")
    BY <1>4, <2>1, RefusalLemma DEF Authenticate, At, record, registry, NS!Next
  <2>2. CASE Goto("conn", c, "greet")
    BY <1>4, <2>2, LiveLemma DEF Authenticate, At, record, registry, Tasks, Labels,
       ConnLabels
  <2> QED
    BY <1>4, <2>1, <2>2 DEF Authenticate, Reject
<1>5. ASSUME NEW c \in Conns, Greet(c)
      PROVE  NS!Next \/ UNCHANGED NS!vars
  BY <1>5, LiveLemma DEF Greet, At, record, registry, Tasks, Removers, Labels,
     ConnLabels, ReaderLabels, WriterLabels, PingLabels, StreamLabels,
     RemoveLabels
<1>6. ASSUME NEW c \in Conns, GreetFails(c)
      PROVE  NS!Next \/ UNCHANGED NS!vars
  BY <1>6, RefusalLemma DEF GreetFails, At, record, registry, NS!Next
<1>7. ASSUME NEW c \in Conns, NEW t \in {"conn", "reader"}, AddClient(t, c)
      PROVE  NS!Next \/ UNCHANGED NS!vars
  BY <1>7, LiveLemma DEF AddClient, At, record, registry, Tasks, Removers, Labels,
     ConnLabels, ReaderLabels, WriterLabels, PingLabels, StreamLabels,
     RemoveLabels
<1>8. ASSUME NEW c \in Conns, AddHostAndSpawn(c)
      PROVE  NS!Next \/ UNCHANGED NS!vars
  <2>1. phase[c] = "live" /\ phase' = phase
    BY <1>8, <1>t DEF AddHostAndSpawn, phase, At, Tasks, IInv, Handshaking
  <2> QED
    BY <1>8, <2>1 DEF AddHostAndSpawn, InsertHost, record, NS!Next, NS!Publish
<1>9. ASSUME NEW c \in Conns, AddHostAgain(c)
      PROVE  NS!Next \/ UNCHANGED NS!vars
  <2>1. phase[c] = "live" /\ phase' = phase
    BY <1>9, <1>t DEF AddHostAgain, phase, At, Goto, Tasks, IInv, Handshaking
  <2> QED
    BY <1>9, <2>1 DEF AddHostAgain, InsertHost, record, NS!Next, NS!Publish
<1>10. ASSUME NEW c \in Conns, NEW t \in Removers, CloseChannel(t, c)
       PROVE  NS!Next \/ UNCHANGED NS!vars
  BY <1>10, LiveLemma DEF CloseChannel, At, record, registry, Tasks, Removers, Labels,
     ConnLabels, ReaderLabels, WriterLabels, PingLabels, StreamLabels,
     RemoveLabels
<1>11. ASSUME NEW c \in Conns, NEW t \in Removers, MatchHost(t, c)
       PROVE  NS!Next \/ UNCHANGED NS!vars
  BY <1>11, LiveLemma DEF MatchHost, At, record, registry, Tasks, Removers, Labels,
     ConnLabels, ReaderLabels, WriterLabels, PingLabels, StreamLabels,
     RemoveLabels
<1>12. ASSUME NEW c \in Conns, NEW t \in Removers, RemoveHost(t, c)
       PROVE  NS!Next \/ UNCHANGED NS!vars
  <2>1. pc["conn"][c] = "done" /\ claim[c] \in Hosts
    BY <1>12 DEF RemoveHost, At, IInv, Handshaking, RemoversClosed, Named,
       Unpublished, Removers, TypeOK, PcOK, ConnLabels
  <2>2. phase[c] # "new" /\ phase' = phase
    BY <1>12, <1>t, <2>1 DEF RemoveHost, phase, At, Goto, Tasks, Removers
  <2> QED
    BY <1>12, <2>1, <2>2 DEF RemoveHost, DeleteHost, record, NS!Next, NS!Withdraw
<1>13. ASSUME NEW c \in Conns, NEW t \in Removers, RemoveClient(t, c)
       PROVE  NS!Next \/ UNCHANGED NS!vars
  <2>1. UNCHANGED <<claim, hosts>>
    BY <1>13 DEF RemoveClient, record
  <2>2. CASE t = "reader"
    <3>1. phase[c] = "live" /\ \A h \in Hosts : hosts[h] # c
      BY <1>13, <2>2 DEF RemoveClient, phase, At, IInv, Handshaking, ReaderCleans
    <3>2. phase' = [phase EXCEPT ![c] = "ended"]
      BY <1>13, <1>t, <2>2, <3>1
      DEF RemoveClient, AfterRemove, phase, At, Goto, Tasks
    <3> QED
      BY <2>1, <3>1, <3>2 DEF NS!Next, NS!End
  <2>3. CASE t # "reader"
    BY <1>13, <1>t, <2>1, <2>3, StutterLemma
    DEF RemoveClient, Goto, Tasks, Removers
  <2> QED
    BY <2>2, <2>3
<1>14. ASSUME NEW c \in Conns, WriterSend(c)
       PROVE  NS!Next \/ UNCHANGED NS!vars
  BY <1>14, StutterLemma DEF WriterSend, record, registry
<1>15. ASSUME NEW c \in Conns, WriterFails(c)
       PROVE  NS!Next \/ UNCHANGED NS!vars
  BY <1>15, LiveLemma DEF WriterFails, At, record, registry, Tasks, Removers, Labels,
     ConnLabels, ReaderLabels, WriterLabels, PingLabels, StreamLabels,
     RemoveLabels
<1>16. ASSUME NEW c \in Conns, WriterEnds(c)
       PROVE  NS!Next \/ UNCHANGED NS!vars
  BY <1>16, LiveLemma DEF WriterEnds, At, record, registry, Tasks, Removers, Labels,
     ConnLabels, ReaderLabels, WriterLabels, PingLabels, StreamLabels,
     RemoveLabels
<1>17. ASSUME NEW c \in Conns, ReaderPong(c)
       PROVE  NS!Next \/ UNCHANGED NS!vars
  BY <1>17, LiveLemma DEF ReaderPong, At, record, registry, Tasks, Removers, Labels,
     ConnLabels, ReaderLabels, WriterLabels, PingLabels, StreamLabels,
     RemoveLabels
<1>18. ASSUME NEW c \in Conns, ReaderEnds(c)
       PROVE  NS!Next \/ UNCHANGED NS!vars
  BY <1>18, LiveLemma DEF ReaderEnds, At, record, registry, Tasks, Removers, Labels,
     ConnLabels, ReaderLabels, WriterLabels, PingLabels, StreamLabels,
     RemoveLabels
<1>19. ASSUME NEW c \in Conns, PingSend(c)
       PROVE  NS!Next \/ UNCHANGED NS!vars
  BY <1>19, StutterLemma DEF PingSend, record, registry
<1>20. ASSUME NEW c \in Conns, PingFails(c)
       PROVE  NS!Next \/ UNCHANGED NS!vars
  BY <1>20, LiveLemma DEF PingFails, At, record, registry, Tasks, Removers, Labels,
     ConnLabels, ReaderLabels, WriterLabels, PingLabels, StreamLabels,
     RemoveLabels
<1>21. ASSUME NEW c \in Conns, StreamOpen(c)
       PROVE  NS!Next \/ UNCHANGED NS!vars
  BY <1>21, LiveLemma DEF StreamOpen, At, record, registry, Tasks, Removers, Labels,
     ConnLabels, ReaderLabels, WriterLabels, PingLabels, StreamLabels,
     RemoveLabels
<1>22. ASSUME NEW c \in Conns, StreamInit(c)
       PROVE  NS!Next \/ UNCHANGED NS!vars
  BY <1>22, LiveLemma DEF StreamInit, At, record, registry, Tasks, Removers, Labels,
     ConnLabels, ReaderLabels, WriterLabels, PingLabels, StreamLabels,
     RemoveLabels
<1>23. ASSUME NEW c \in Conns, StreamGet(c)
       PROVE  NS!Next \/ UNCHANGED NS!vars
  BY <1>23, LiveLemma DEF StreamGet, At, record, registry, Tasks, Removers, Labels,
     ConnLabels, ReaderLabels, WriterLabels, PingLabels, StreamLabels,
     RemoveLabels
<1>24. ASSUME NEW c \in Conns, StreamForward(c)
       PROVE  NS!Next \/ UNCHANGED NS!vars
  BY <1>24, LiveLemma DEF StreamForward, At, record, registry, Tasks, Removers, Labels,
     ConnLabels, ReaderLabels, WriterLabels, PingLabels, StreamLabels,
     RemoveLabels
<1>25. ASSUME NEW c \in Conns, StreamEnds(c)
       PROVE  NS!Next \/ UNCHANGED NS!vars
  BY <1>25, LiveLemma DEF StreamEnds, At, record, registry, Tasks, Removers, Labels,
     ConnLabels, ReaderLabels, WriterLabels, PingLabels, StreamLabels,
     RemoveLabels
<1>26. ASSUME NEW c \in Conns, Drop(c)
       PROVE  NS!Next \/ UNCHANGED NS!vars
  BY <1>26, StutterLemma DEF Drop, record, registry
<1>27. ASSUME NEW c \in Conns, TcpTimeout(c)
       PROVE  NS!Next \/ UNCHANGED NS!vars
  BY <1>27, StutterLemma DEF TcpTimeout, record, registry
<1>28. CASE UNCHANGED vars
  BY <1>28, StutterLemma DEF vars, record, registry
<1> QED
  BY <1>1, <1>2, <1>3, <1>4, <1>5, <1>6, <1>7, <1>8, <1>9, <1>10, <1>11, <1>12,
     <1>13, <1>14, <1>15, <1>16, <1>17, <1>18, <1>19, <1>20, <1>21, <1>22, <1>23,
     <1>24, <1>25, <1>26, <1>27, <1>28
  DEF Next, Handshake, Add, Remove, Writer, Reader, Ping, Stream

\* The control server implements NameService: a claim is accepted only for an
\* unanswered host, a host leads only to a live session that claimed it, and
\* a finished session answers for nothing.
THEOREM Refinement == Spec => ImplementsNameService
<1>1. IInv /\ [Next]_vars => [NS!Next]_(NS!vars)
  BY StepRefines
<1> QED
  BY InitRefines, <1>1, InductiveInvariant, PTL
  DEF Spec, ImplementsNameService, NS!Spec

-----------------------------------------------------------------------------
(* The link of a client, as the visitors' streams see it.                   *)

\* A connection that has not been started is, to streams, a client that is
\* there: none has been led to it.
LEMMA InitLinks == Init => \A c \in Conns : Link(c)!Init
<1> SUFFICES ASSUME Init, NEW c \in Conns PROVE Link(c)!Init
  OBVIOUS
<1>1. pc["conn"][c] = "hello" /\ pc["reader"][c] = "off"
  BY DEF Init, Tasks
<1> QED
  BY <1>1 DEF Link!Init, Started

\* A step that leaves the three facts about d as they are is nothing to its
\* link; the channel and the registration do not count before the start.
LEMMA LinkFrame ==
    ASSUME NEW d \in Conns,
           Started(d)' <=> Started(d),
           Started(d) => (Registered(d)' <=> Registered(d)) /\ open'[d] = open[d],
           pc'["reader"][d] = "done" <=> pc["reader"][d] = "done"
    PROVE  UNCHANGED Link(d)!vars
<1>1. (Started(d) => Registered(d))' <=> (Started(d) => Registered(d))
  OBVIOUS
<1>2. (Started(d) => open[d])' <=> (Started(d) => open[d])
  OBVIOUS
<1> QED
  BY <1>1, <1>2 DEF Link!vars

\* Nor is a move of one task that neither starts a connection nor ends its
\* reader.
LEMMA LinkQuiet ==
    ASSUME IInv, NEW t \in Tasks, NEW c \in Conns, NEW l \in Labels, Goto(t, c, l),
           t = "conn" => pc["conn"][c] \notin {"addHost", "done"}
                           /\ l \notin {"addHost", "done"},
           t = "reader" => pc["reader"][c] # "done" /\ l # "done",
           UNCHANGED clients,
           \A e \in Conns : Started(e) => open'[e] = open[e],
           NEW d \in Conns
    PROVE  UNCHANGED Link(d)!vars
<1>1. pc \in [Tasks -> [Conns -> Labels]]
  BY DEF IInv, TypeOK, PcOK
<1>2. /\ pc'["conn"][d] = IF t = "conn" /\ d = c THEN l ELSE pc["conn"][d]
      /\ pc'["reader"][d] = IF t = "reader" /\ d = c THEN l ELSE pc["reader"][d]
  BY <1>1 DEF Goto, Tasks
<1> QED
  BY <1>2, LinkFrame DEF Started, Registered

\* A step that moves no task and touches neither clients nor a channel.
LEMMA LinkIdle ==
    ASSUME UNCHANGED <<pc, clients, open>>, NEW d \in Conns
    PROVE  UNCHANGED Link(d)!vars
BY LinkFrame DEF Started, Registered

\* Every step of the control server is to every connection a step of its link,
\* or nothing.
THEOREM StepLinks ==
    IInv /\ [Next]_vars =>
        \A d \in Conns : Link(d)!Next \/ UNCHANGED Link(d)!vars
<1> SUFFICES ASSUME IInv, [Next]_vars, NEW d \in Conns
             PROVE  Link(d)!Next \/ UNCHANGED Link(d)!vars
  OBVIOUS
<1> USE DEF At, record, registry, channel, network
<1>t. /\ pc \in [Tasks -> [Conns -> Labels]]
      /\ open \in [Conns -> BOOLEAN]
      /\ clients \subseteq Conns
  BY DEF IInv, TypeOK, RegistryTypeOK, PcOK
<1>l. {"hello", "wild", "auth", "greet", "addClient", "addHost", "done", "refused",
       "recv", "send", "tick", "init", "get", "read", "off", "close", "match",
       "unhost", "unclient"} = Labels
  BY DEF Labels, ConnLabels, ReaderLabels, WriterLabels, PingLabels,
     StreamLabels, RemoveLabels
<1>r. ASSUME NEW c \in Conns, NEW t \in Removers,
             pc[t][c] \in {"close", "match", "unhost", "unclient"}
      PROVE  Started(c) /\ (pc[t][c] # "close" => ~open[c])
                        /\ (t = "stream" => ~open[c])
  BY <1>r DEF IInv, Handshaking, Unpublished, RemoversClosed, Started, Removers,
     TypeOK, PcOK, ConnLabels
<1>1. ASSUME NEW c \in Conns, NEW h \in Hosts, NEW w \in Flags, Hello(c, h, w)
      PROVE  UNCHANGED Link(d)!vars
  BY <1>1, <1>l, LinkQuiet DEF Hello, Reject, Tasks
<1>2. ASSUME NEW c \in Conns, RefuseHello(c)
      PROVE  UNCHANGED Link(d)!vars
  BY <1>2, <1>l, LinkQuiet DEF RefuseHello, Reject, Tasks
<1>3. ASSUME NEW c \in Conns, CheckWildcard(c)
      PROVE  UNCHANGED Link(d)!vars
  BY <1>3, <1>l, LinkQuiet DEF CheckWildcard, Reject, Tasks
<1>4. ASSUME NEW c \in Conns, Authenticate(c)
      PROVE  UNCHANGED Link(d)!vars
  BY <1>4, <1>l, LinkQuiet DEF Authenticate, Reject, Tasks
<1>5. ASSUME NEW c \in Conns, Greet(c)
      PROVE  UNCHANGED Link(d)!vars
  <2>1. \A e \in Conns : Started(e) => open'[e] = open[e]
    BY <1>5, <1>t DEF Greet, Started
  <2> QED
    BY <1>5, <1>l, <2>1, LinkQuiet DEF Greet, Tasks
<1>6. ASSUME NEW c \in Conns, GreetFails(c)
      PROVE  UNCHANGED Link(d)!vars
  BY <1>6, <1>l, LinkQuiet DEF GreetFails, Tasks
<1>7. ASSUME NEW c \in Conns, AddClient("conn", c)
      PROVE  UNCHANGED Link(d)!vars
  <2>1. /\ open[c] /\ ~Started(c) /\ Started(c)' /\ Registered(c)'
        /\ pc["reader"][c] = "off" /\ pc'["reader"][c] = "off" /\ open'[c]
    BY <1>7, <1>t DEF AddClient, InsertClient, Goto, Tasks, IInv, Handshaking,
       Started, Registered
  <2>2. CASE d = c
    <3>1. (Started(d) => Registered(d))' <=> (Started(d) => Registered(d))
      BY <2>1, <2>2
    <3>2. (Started(d) => open[d])' <=> (Started(d) => open[d])
      BY <2>1, <2>2
    <3> QED
      BY <2>1, <2>2, <3>1, <3>2 DEF Link!vars
  <2>3. CASE d # c
    BY <1>7, <1>t, <2>3, LinkFrame
    DEF AddClient, InsertClient, Goto, Tasks, Started, Registered
  <2> QED
    BY <2>2, <2>3
<1>8. ASSUME NEW c \in Conns, AddClient("reader", c)
      PROVE  Link(d)!Next \/ UNCHANGED Link(d)!vars
  <2>1. /\ pc'["conn"] = pc["conn"]
        /\ \A e \in Conns \ {c} : pc'["reader"][e] = pc["reader"][e]
        /\ pc["reader"][c] = "addClient" /\ pc'["reader"][c] = "addHost"
        /\ open' = open /\ clients' = clients \cup {c}
    BY <1>8, <1>t DEF AddClient, InsertClient, Goto, Tasks
  <2>2. CASE d = c /\ Started(c) /\ ~Registered(c)
    BY <2>1, <2>2 DEF Started, Registered, Link!Next, Link!Register
  <2>3. CASE ~(d = c /\ Started(c) /\ ~Registered(c))
    BY <2>1, <2>3, LinkFrame DEF Started, Registered
  <2> QED
    BY <2>2, <2>3
<1>9. ASSUME NEW c \in Conns, AddHostAndSpawn(c)
      PROVE  UNCHANGED Link(d)!vars
  <2>1. /\ pc["conn"][c] = "addHost" /\ pc'["conn"][c] = "done"
        /\ pc["reader"][c] = "off" /\ pc'["reader"][c] = "recv"
        /\ \A e \in Conns \ {c} : /\ pc'["conn"][e] = pc["conn"][e]
                                  /\ pc'["reader"][e] = pc["reader"][e]
    BY <1>9, <1>t DEF AddHostAndSpawn, Tasks, IInv, Handshaking
  <2> QED
    BY <1>9, <2>1, LinkFrame DEF AddHostAndSpawn, Started, Registered
<1>10. ASSUME NEW c \in Conns, AddHostAgain(c)
       PROVE  UNCHANGED Link(d)!vars
  BY <1>10, <1>l, LinkQuiet DEF AddHostAgain, Tasks
<1>11. ASSUME NEW c \in Conns, NEW t \in Removers, CloseChannel(t, c)
       PROVE  Link(d)!Next \/ UNCHANGED Link(d)!vars
  <2>1. /\ pc'["conn"] = pc["conn"]
        /\ \A e \in Conns : pc'["reader"][e] = "done" <=> pc["reader"][e] = "done"
        /\ \A e \in Conns \ {c} : open'[e] = open[e]
        /\ open'[c] = FALSE /\ clients' = clients /\ Started(c)
    BY <1>11, <1>t, <1>r DEF CloseChannel, Goto, Tasks, Removers
  <2>2. CASE d = c /\ open[c]
    BY <2>1, <2>2 DEF Started, Registered, Link!Next, Link!Close
  <2>3. CASE ~(d = c /\ open[c])
    <3>1. open'[d] = open[d]
      BY <1>t, <2>1, <2>3
    <3> QED
      BY <2>1, <3>1, LinkFrame DEF Started, Registered
  <2> QED
    BY <2>2, <2>3
<1>12. ASSUME NEW c \in Conns, NEW t \in Removers, MatchHost(t, c)
       PROVE  UNCHANGED Link(d)!vars
  BY <1>12, <1>l, LinkQuiet DEF MatchHost, Tasks, Removers
<1>13. ASSUME NEW c \in Conns, NEW t \in Removers, RemoveHost(t, c)
       PROVE  UNCHANGED Link(d)!vars
  BY <1>13, <1>l, LinkQuiet DEF RemoveHost, Tasks, Removers
<1>14. ASSUME NEW c \in Conns, NEW t \in Removers, RemoveClient(t, c)
       PROVE  Link(d)!Next \/ UNCHANGED Link(d)!vars
  <2>1. /\ pc'["conn"] = pc["conn"]
        /\ \A e \in Conns : pc'["reader"][e] =
              IF t = "reader" /\ e = c THEN "done" ELSE pc["reader"][e]
        /\ open' = open /\ clients' = clients \ {c}
        /\ ~open[c] /\ Started(c) /\ pc[t][c] = "unclient"
    BY <1>14, <1>t, <1>r
    DEF RemoveClient, DeleteClient, AfterRemove, Goto, Tasks, Removers
  <2>2. CASE d = c /\ t = "reader"
    BY <2>1, <2>2 DEF Started, Registered, Link!Next, Link!End
  <2>3. CASE d = c /\ t # "reader" /\ Registered(c)
    BY <2>1, <2>3 DEF Started, Registered, Link!Next, Link!Unregister
  <2>4. CASE d # c \/ (t # "reader" /\ ~Registered(c))
    BY <2>1, <2>4, LinkFrame DEF Started, Registered
  <2> QED
    BY <2>2, <2>3, <2>4
<1>15. ASSUME NEW c \in Conns, Writer(c)
       PROVE  UNCHANGED Link(d)!vars
  <2>1. CASE WriterSend(c)
    BY <2>1, LinkIdle DEF WriterSend
  <2>2. CASE WriterFails(c)
    BY <2>2, <1>l, LinkQuiet DEF WriterFails, Tasks
  <2>3. CASE WriterEnds(c)
    BY <2>3, <1>l, LinkQuiet DEF WriterEnds, Tasks
  <2> QED
    BY <1>15, <2>1, <2>2, <2>3 DEF Writer
<1>16. ASSUME NEW c \in Conns, Reader(c)
       PROVE  UNCHANGED Link(d)!vars
  BY <1>16, <1>l, LinkQuiet DEF Reader, ReaderPong, ReaderEnds, Tasks
<1>17. ASSUME NEW c \in Conns, Ping(c)
       PROVE  UNCHANGED Link(d)!vars
  <2>1. CASE PingSend(c)
    BY <2>1, LinkIdle DEF PingSend
  <2>2. CASE PingFails(c)
    BY <2>2, <1>l, LinkQuiet DEF PingFails, Tasks
  <2> QED
    BY <1>17, <2>1, <2>2 DEF Ping
<1>18. ASSUME NEW c \in Conns, Stream(c)
       PROVE  UNCHANGED Link(d)!vars
  <2>1. \E l \in Labels : Goto("stream", c, l)
    BY <1>18, <1>l DEF Stream, StreamOpen, StreamInit, StreamGet, StreamForward,
       StreamEnds
  <2>2. UNCHANGED <<clients, open>>
    BY <1>18 DEF Stream, StreamOpen, StreamInit, StreamGet, StreamForward,
       StreamEnds
  <2> QED
    BY <2>1, <2>2, LinkQuiet DEF Tasks
<1>19. ASSUME NEW c \in Conns, Drop(c) \/ TcpTimeout(c)
       PROVE  UNCHANGED Link(d)!vars
  BY <1>19, LinkIdle DEF Drop, TcpTimeout
<1>20. CASE UNCHANGED vars
  BY <1>20, LinkIdle DEF vars
<1>21. ASSUME NEW c \in Conns, Add(c)
       PROVE  Link(d)!Next \/ UNCHANGED Link(d)!vars
  BY <1>21, <1>7, <1>8, <1>9, <1>10 DEF Add
<1>22. ASSUME NEW c \in Conns, Handshake(c)
       PROVE  UNCHANGED Link(d)!vars
  BY <1>22, <1>1, <1>2, <1>3, <1>4, <1>5, <1>6 DEF Handshake
<1>23. ASSUME NEW c \in Conns, NEW t \in Removers, Remove(t, c)
       PROVE  Link(d)!Next \/ UNCHANGED Link(d)!vars
  BY <1>23, <1>11, <1>12, <1>13, <1>14 DEF Remove
<1> QED
  BY <1>15, <1>16, <1>17, <1>18, <1>19, <1>20, <1>21, <1>22, <1>23 DEF Next

\* The control server gives the streams the client that they assume: one that
\* is registered while its channel is open, and that no pong registers again
\* once its reader has ended.
THEOREM LinkRefinement == Spec => ImplementsClientLink
<1>1. IInv /\ [Next]_vars =>
        [\A c \in Conns : Link(c)!Next \/ UNCHANGED Link(c)!vars]_vars
  BY StepLinks
<1> QED
  BY InitLinks, <1>1, InductiveInvariant, PTL DEF Spec, ImplementsClientLink

-----------------------------------------------------------------------------
(* Who may change an entry of hosts.                                         *)

\* The steps that touch hosts.
LEMMA HostWriters ==
    ASSUME [Next]_vars, hosts' # hosts
    PROVE  \E c \in Conns :
              \/ AddHostAndSpawn(c) \/ AddHostAgain(c)
              \/ \E t \in Removers : RemoveHost(t, c)
<1>1. ~UNCHANGED vars
  BY DEF vars, registry
<1>2. ASSUME NEW c \in Conns,
             \/ Handshake(c) \/ Writer(c) \/ Reader(c) \/ Ping(c) \/ Stream(c)
             \/ Drop(c) \/ TcpTimeout(c)
      PROVE  FALSE
  BY <1>2 DEF Handshake, Hello, RefuseHello, CheckWildcard, Authenticate, Greet,
     GreetFails, Writer, WriterSend, WriterFails, WriterEnds, Reader, ReaderPong,
     ReaderEnds, Ping, PingSend, PingFails, Stream, StreamOpen, StreamInit,
     StreamGet, StreamForward, StreamEnds, Drop, TcpTimeout, registry
<1>3. ASSUME NEW c \in Conns, Add(c)
      PROVE  AddHostAndSpawn(c) \/ AddHostAgain(c)
  BY <1>3 DEF Add, AddClient
<1>4. ASSUME NEW c \in Conns, NEW t \in Removers, Remove(t, c)
      PROVE  RemoveHost(t, c)
  BY <1>4 DEF Remove, CloseChannel, MatchHost, RemoveClient, registry
<1> QED
  BY <1>1, <1>2, <1>3, <1>4 DEF Next

\* The entry of a host changes only on account of a started connection of that
\* very name: one that is added gets it, whoever had it, and one that is
\* removed, its channel closed, takes it away, whoever has it meanwhile.
ChangedByNamesakes ==
    [][\A h \in Hosts :
          hosts'[h] # hosts[h] =>
              \E c \in Conns :
                  /\ claim[c] = h /\ Started(c)
                  /\ hosts'[h] = c \/ (hosts'[h] = NoConn /\ ~open[c])]_vars

\* Connections::add and Connections::remove touch no name but that of their own
\* connection: a client loses its entry to a rival or through a dead namesake,
\* never through any of the other connections.
THEOREM OnlyNamesakes == Spec => ChangedByNamesakes
<1> DEFINE Namesake(h, c) ==
      /\ claim[c] = h /\ Started(c)
      /\ hosts'[h] = c \/ (hosts'[h] = NoConn /\ ~open[c])
<1>1. ASSUME IInv, [Next]_vars, NEW h \in Hosts, hosts'[h] # hosts[h]
      PROVE  \E c \in Conns : Namesake(h, c)
  <2>t. hosts \in [Hosts -> Conns \cup {NoConn}]
    BY <1>1 DEF IInv, TypeOK, RegistryTypeOK
  <2>p. \A c \in Conns : pc["conn"][c] \in ConnLabels
    BY <1>1 DEF IInv, TypeOK, PcOK
  <2>1. ASSUME NEW c \in Conns, AddHostAndSpawn(c) \/ AddHostAgain(c)
        PROVE  Namesake(h, c)
    <3>1. claim[c] = h /\ hosts'[h] = c
      BY <1>1, <2>1, <2>t DEF AddHostAndSpawn, AddHostAgain, InsertHost
    <3>2. Started(c)
      BY <1>1, <2>1 DEF AddHostAndSpawn, AddHostAgain, At, IInv, Handshaking,
         Started
    <3> QED
      BY <3>1, <3>2
  <2>2. ASSUME NEW c \in Conns, NEW t \in Removers, RemoveHost(t, c)
        PROVE  Namesake(h, c)
    <3>1. claim[c] = h /\ hosts'[h] = NoConn
      BY <1>1, <2>2, <2>t DEF RemoveHost, DeleteHost
    <3>2. ~open[c]
      BY <1>1, <2>2 DEF RemoveHost, At, IInv, RemoversClosed
    <3>3. Started(c)
      BY <1>1, <2>2, <2>p, <3>2 DEF RemoveHost, At, IInv, Handshaking,
         Unpublished, Removers, ConnLabels, Started
    <3> QED
      BY <3>1, <3>2, <3>3
  <2> QED
    BY <1>1, <2>1, <2>2, HostWriters
<1>2. IInv /\ [Next]_vars
        => [\A h \in Hosts : hosts'[h] # hosts[h] =>
               \E c \in Conns : Namesake(h, c)]_vars
  BY <1>1
<1> QED
  BY <1>2, InductiveInvariant, PTL DEF Spec, ChangedByNamesakes
=============================================================================
