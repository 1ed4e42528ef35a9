---------------------------- MODULE ControlServer ----------------------------
(***************************************************************************)
(* The control server: control_server.rs with auth/client_auth.rs.         *)
(*                                                                         *)
(* Every websocket connection is served by up to four tasks of a           *)
(* multi-threaded runtime, and a visitor's stream adds a fifth:            *)
(*   conn    handle_new_connection: handshake, greeting, Connections::add  *)
(*   reader  process_client_messages                                       *)
(*   writer  tunnel_client                                                 *)
(*   ping    the 30 second ping loop                                       *)
(*   stream  process_tcp_stream, as far as it touches the registry         *)
(* All of them share the registry, and each of the last four may find the  *)
(* connection dead and call Connections::remove.  pc[t][c] names the       *)
(* access task t of connection c performs next; the accesses of different  *)
(* tasks interleave.                                                       *)
(***************************************************************************)
EXTENDS Connections, Naturals

CONSTANTS
    Mortal,     \* connections whose peer may go away
    Streaming,  \* connections a visitor may open a stream to
    Flags,      \* wildcard flags a hello may carry
    MaxQueue,   \* bound on the packets buffered in a control channel
    MaxPongs    \* bound on the pongs on their way to the server

ASSUME BoundsAssumption ==
    /\ Mortal \subseteq Conns
    /\ Streaming \subseteq Conns
    /\ Flags \subseteq BOOLEAN
    /\ MaxQueue \in Nat \ {0}
    /\ MaxPongs \in Nat \ {0}

VARIABLES
    open,       \* open[c]: the control channel exists and is not closed
    queue,      \* queue[c]: pings buffered in the channel for the writer
    ws,         \* ws[c]: state of the websocket, see WsStates
    pongs,      \* pongs[c]: pongs the client sent and the reader has not read
    pc          \* pc[t][c]: where task t of c stands

channel == <<open, queue>>
network == <<ws, pongs>>
vars    == <<record, registry, channel, network, pc>>

Tasks    == {"conn", "reader", "writer", "ping", "stream"}
Removers == {"reader", "writer", "ping", "stream"}

\* up      the peer is there;
\* lost    the peer vanished and nothing has been written since;
\* unacked the peer vanished and written bytes wait for an acknowledgement;
\* down    the peer's close, a reset or a timeout is visible locally.
WsStates == {"up", "lost", "unacked", "down"}

\* The accesses of Connections::remove, in order.
RemoveLabels == {"close", "match", "unhost", "unclient"}

ConnLabels   == {"hello", "wild", "auth", "greet", "addClient", "addHost",
                 "done", "refused"}
ReaderLabels == {"off", "recv", "addClient", "addHost", "done"} \cup RemoveLabels
WriterLabels == {"off", "send", "done"} \cup RemoveLabels
PingLabels   == {"off", "tick", "done"} \cup RemoveLabels
StreamLabels == {"off", "init", "get", "read"} \cup RemoveLabels
Labels       == ConnLabels \cup ReaderLabels \cup WriterLabels
                \cup PingLabels \cup StreamLabels

PcOK ==
    /\ pc \in [Tasks -> [Conns -> Labels]]
    /\ \A c \in Conns :
          /\ pc["conn"][c] \in ConnLabels
          /\ pc["reader"][c] \in ReaderLabels
          /\ pc["writer"][c] \in WriterLabels
          /\ pc["ping"][c] \in PingLabels
          /\ pc["stream"][c] \in StreamLabels

TypeOK ==
    /\ RegistryTypeOK
    /\ open \in [Conns -> BOOLEAN]
    /\ queue \in [Conns -> 0 .. MaxQueue]
    /\ ws \in [Conns -> WsStates]
    /\ pongs \in [Conns -> 0 .. MaxPongs]
    /\ PcOK

Init ==
    /\ RegistryInit
    /\ open = [c \in Conns |-> FALSE]
    /\ queue = [c \in Conns |-> 0]
    /\ ws = [c \in Conns |-> "up"]
    /\ pongs = [c \in Conns |-> 0]
    /\ pc = [t \in Tasks |-> [c \in Conns |->
                IF t = "conn" THEN "hello" ELSE "off"]]

At(t, c, l)   == pc[t][c] = l
Goto(t, c, l) == pc' = [pc EXCEPT ![t][c] = l]

(***************************************************************************)
(* The peer and the network.                                               *)
(***************************************************************************)

\* The peer vanishes (power, network) or ends the connection; pongs still
\* under way may be lost with it.
Drop(c) ==
    /\ c \in Mortal
    /\ ws[c] = "up"
    /\ \E s \in {"lost", "down"} : ws' = [ws EXCEPT ![c] = s]
    /\ \E n \in 0 .. pongs[c] : pongs' = [pongs EXCEPT ![c] = n]
    /\ UNCHANGED <<record, registry, channel, pc>>

\* TCP gives up retransmitting: only a connection with unacknowledged bytes
\* is ever found dead, no keepalive is set.
TcpTimeout(c) ==
    /\ ws[c] = "unacked"
    /\ ws' = [ws EXCEPT ![c] = "down"]
    /\ UNCHANGED <<record, registry, channel, pongs, pc>>

\* Bytes are written towards a peer that may have vanished.
Written(c) == ws' = [ws EXCEPT ![c] = IF @ = "lost" THEN "unacked" ELSE @]

(***************************************************************************)
(* Handshake.                                                              *)
(***************************************************************************)

Reject(c) ==
    /\ Goto("conn", c, "refused")
    /\ ws' = [ws EXCEPT ![c] = "down"]

\* Refused for what the hello says: blocked address, malformed hello, domain
\* not allowed, anonymous client, invalid or restricted sub-domain, a
\* reconnect token that does not verify; or no hello at all.
RefuseHello(c) ==
    /\ At("conn", c, "hello")
    /\ Reject(c)
    /\ UNCHANGED <<record, registry, channel, pongs>>

\* Mutant: the sub-domain check is forgotten.
HelloUnchecked(c, h, w) ==
    /\ At("conn", c, "hello")
    /\ claim' = [claim EXCEPT ![c] = h]
    /\ wild' = [wild EXCEPT ![c] = w]
    /\ Goto("conn", c, IF w THEN "wild" ELSE "auth")
    /\ UNCHANGED <<registry, channel, network>>

\* A well-formed hello for host h: the sub-domain check of
\* sanitize_sub_domain_and_pre_validate.
Hello(c, h, w) ==
    /\ At("conn", c, "hello")
    /\ IF find_by_host(h) # NoConn
          THEN Reject(c) /\ UNCHANGED record
          ELSE /\ claim' = [claim EXCEPT ![c] = h]
               /\ wild' = [wild EXCEPT ![c] = w]
               /\ Goto("conn", c, IF w THEN "wild" ELSE "auth")
               /\ UNCHANGED ws
    /\ UNCHANGED <<registry, channel, pongs>>

\* The wildcard check: ids are fresh, so any wildcard found is another's.
CheckWildcard(c) ==
    /\ At("conn", c, "wild")
    /\ IF find_wildcard(DomainOf(claim[c])) # {}
          THEN Reject(c)
          ELSE Goto("conn", c, "auth") /\ UNCHANGED ws
    /\ UNCHANGED <<record, registry, channel, pongs>>

\* auth_sub_domain compares the key; the answer does not depend on the
\* registry (see the README on its collision check).
Authenticate(c) ==
    /\ At("conn", c, "auth")
    /\ \/ Goto("conn", c, "greet") /\ UNCHANGED ws
       \/ Reject(c)
    /\ UNCHANGED <<record, registry, channel, pongs>>

\* ServerHello::Success is sent, and the channel of the client is created.
Greet(c) ==
    /\ At("conn", c, "greet")
    /\ Written(c)
    /\ Goto("conn", c, "addClient")
    /\ open' = [open EXCEPT ![c] = TRUE]
    /\ UNCHANGED <<record, registry, queue, pongs>>

\* Sending ServerHello::Success fails: the connection is abandoned.
GreetFails(c) ==
    /\ At("conn", c, "greet")
    /\ ws[c] = "down"
    /\ Goto("conn", c, "refused")
    /\ UNCHANGED <<record, registry, channel, network>>

(***************************************************************************)
(* Connections::add, called when a connection starts (conn) and for every  *)
(* pong (reader).                                                          *)
(***************************************************************************)

AddClient(t, c) ==
    /\ At(t, c, "addClient")
    /\ InsertClient(c)
    /\ Goto(t, c, "addHost")
    /\ UNCHANGED <<record, hosts, channel, network>>

\* Mutant: the first add stops after the insertion into clients.
SpawnWithoutHost(c) ==
    /\ At("conn", c, "addHost")
    /\ pc' = [pc EXCEPT !["conn"][c]   = "done",
                        !["reader"][c] = "recv",
                        !["writer"][c] = "send",
                        !["ping"][c]   = "tick"]
    /\ UNCHANGED <<record, registry, channel, network>>

\* The first add of a connection; its other tasks are spawned after it.
AddHostAndSpawn(c) ==
    /\ At("conn", c, "addHost")
    /\ InsertHost(c)
    /\ pc' = [pc EXCEPT !["conn"][c]   = "done",
                        !["reader"][c] = "recv",
                        !["writer"][c] = "send",
                        !["ping"][c]   = "tick"]
    /\ UNCHANGED <<record, clients, channel, network>>

\* The add of a pong.
AddHostAgain(c) ==
    /\ At("reader", c, "addHost")
    /\ InsertHost(c)
    /\ Goto("reader", c, "recv")
    /\ UNCHANGED <<record, clients, channel, network>>

(***************************************************************************)
(* Connections::remove, called by any task that finds the connection dead. *)
(***************************************************************************)

\* Where a task goes after remove: process_tcp_stream loops, the others end.
AfterRemove(t) == IF t = "stream" THEN "get" ELSE "done"

\* Mutant: remove leaves the channel open.
CloseNothing(t, c) ==
    /\ At(t, c, "close")
    /\ Goto(t, c, "match")
    /\ UNCHANGED <<record, registry, channel, network>>

\* close_channel: packets already buffered stay readable for the writer.
CloseChannel(t, c) ==
    /\ At(t, c, "close")
    /\ open' = [open EXCEPT ![c] = FALSE]
    /\ Goto(t, c, "match")
    /\ UNCHANGED <<record, registry, queue, network>>

\* Mutant: the comparison of remove is inverted.
MatchOther(t, c) ==
    /\ At(t, c, "match")
    /\ Goto(t, c, IF HoldsHost(c) THEN "unclient" ELSE "unhost")
    /\ UNCHANGED <<record, registry, channel, network>>

MatchHost(t, c) ==
    /\ At(t, c, "match")
    /\ Goto(t, c, IF HoldsHost(c) THEN "unhost" ELSE "unclient")
    /\ UNCHANGED <<record, registry, channel, network>>

\* hosts.remove takes the name only: the entry may not be the one matched.
RemoveHost(t, c) ==
    /\ At(t, c, "unhost")
    /\ DeleteHost(c)
    /\ Goto(t, c, "unclient")
    /\ UNCHANGED <<record, clients, channel, network>>

\* The writer owns the channel's receiver: its end drops what is buffered.
RemoveClient(t, c) ==
    /\ At(t, c, "unclient")
    /\ DeleteClient(c)
    /\ Goto(t, c, AfterRemove(t))
    /\ queue' = IF t = "writer" THEN [queue EXCEPT ![c] = 0] ELSE queue
    /\ UNCHANGED <<record, hosts, open, network>>

(***************************************************************************)
(* tunnel_client: the writer.                                              *)
(***************************************************************************)

\* The sink accepts a ping.  A living client answers each with a pong
\* (its half of the exchange is in neutun's process_control_flow_message);
\* towards a vanished one the bytes are buffered by the kernel.
WriterSend(c) ==
    /\ At("writer", c, "send")
    /\ queue[c] > 0
    /\ ws[c] = "up" => pongs[c] < MaxPongs
    /\ queue' = [queue EXCEPT ![c] = @ - 1]
    /\ pongs' = IF ws[c] = "up" THEN [pongs EXCEPT ![c] = @ + 1] ELSE pongs
    /\ Written(c)
    /\ UNCHANGED <<record, registry, open, pc>>

\* The sink reports an error; the packet in hand is lost.
WriterFails(c) ==
    /\ At("writer", c, "send")
    /\ queue[c] > 0
    /\ ws[c] = "down"
    /\ queue' = [queue EXCEPT ![c] = @ - 1]
    /\ Goto("writer", c, "close")
    /\ UNCHANGED <<record, registry, open, network>>

\* The channel is closed and drained.
WriterEnds(c) ==
    /\ At("writer", c, "send")
    /\ queue[c] = 0
    /\ ~open[c]
    /\ Goto("writer", c, "done")
    /\ UNCHANGED <<record, registry, channel, network>>

(***************************************************************************)
(* process_client_messages: the reader.  Data and Refused packets do not   *)
(* touch the registry (module RemoteStream has them).                      *)
(***************************************************************************)

\* Mutant: a pong is only logged.
PongIgnored(c) ==
    /\ At("reader", c, "recv")
    /\ pongs[c] > 0
    /\ pongs' = [pongs EXCEPT ![c] = @ - 1]
    /\ UNCHANGED <<record, registry, channel, ws, pc>>

\* A pong arrives: Connections::add, whatever became of c meanwhile.
ReaderPong(c) ==
    /\ At("reader", c, "recv")
    /\ pongs[c] > 0
    /\ pongs' = [pongs EXCEPT ![c] = @ - 1]
    /\ Goto("reader", c, "addClient")
    /\ UNCHANGED <<record, registry, channel, ws>>

\* Mutant: the reader ends and leaves the removal to the others.
ReaderJustEnds(c) ==
    /\ At("reader", c, "recv")
    /\ pongs[c] = 0
    /\ ws[c] = "down"
    /\ Goto("reader", c, "done")
    /\ UNCHANGED <<record, registry, channel, network>>

\* A close, an error or the end of the websocket, behind the pongs.
ReaderEnds(c) ==
    /\ At("reader", c, "recv")
    /\ pongs[c] = 0
    /\ ws[c] = "down"
    /\ Goto("reader", c, "close")
    /\ UNCHANGED <<record, registry, channel, network>>

(***************************************************************************)
(* The ping loop.                                                          *)
(***************************************************************************)

\* Mutant: the loop sleeps and sends nothing.
PingSleeps(c) ==
    /\ At("ping", c, "tick")
    /\ open[c]
    /\ UNCHANGED vars

PingSend(c) ==
    /\ At("ping", c, "tick")
    /\ open[c]
    /\ queue[c] < MaxQueue
    /\ queue' = [queue EXCEPT ![c] = @ + 1]
    /\ UNCHANGED <<record, registry, open, network, pc>>

PingFails(c) ==
    /\ At("ping", c, "tick")
    /\ ~open[c]
    /\ Goto("ping", c, "close")
    /\ UNCHANGED <<record, registry, channel, network>>

(***************************************************************************)
(* A visitor's stream, one at a time per connection, as far as it reads or *)
(* writes the registry: accept_connection's lookup and process_tcp_stream. *)
(* What it sends through the channel is module RemoteStream's.             *)
(***************************************************************************)

\* The clients accept_connection may pick for host h.
ServingHost(h) ==
    IF find_by_host(h) # NoConn THEN {find_by_host(h)}
                                ELSE find_wildcard(DomainOf(h))

StreamOpen(c) ==
    /\ c \in Streaming
    /\ At("stream", c, "off")
    /\ \E h \in Hosts : c \in ServingHost(h)
    /\ Goto("stream", c, "init")
    /\ UNCHANGED <<record, registry, channel, network>>

\* send_client_stream_init.
StreamInit(c) ==
    /\ At("stream", c, "init")
    /\ Goto("stream", c, IF open[c] THEN "get" ELSE "close")
    /\ UNCHANGED <<record, registry, channel, network>>

\* Mutant: the stream looks its client up by host, not by id.
StreamGetByHost(c) ==
    /\ At("stream", c, "get")
    /\ Goto("stream", c, IF HoldsHost(c) THEN "read" ELSE "off")
    /\ UNCHANGED <<record, registry, channel, network>>

\* The stream ends when its client is no longer registered.
StreamGet(c) ==
    /\ At("stream", c, "get")
    /\ Goto("stream", c, IF Registered(c) THEN "read" ELSE "off")
    /\ UNCHANGED <<record, registry, channel, network>>

\* Data was read from the visitor: forwarded, or the client is dropped.
StreamForward(c) ==
    /\ At("stream", c, "read")
    /\ Goto("stream", c, IF open[c] THEN "get" ELSE "close")
    /\ UNCHANGED <<record, registry, channel, network>>

\* The visitor's socket ends or fails.
StreamEnds(c) ==
    /\ At("stream", c, "read")
    /\ Goto("stream", c, "off")
    /\ UNCHANGED <<record, registry, channel, network>>

(***************************************************************************)
(* Specification.                                                          *)
(***************************************************************************)

Handshake(c) ==
    \/ \E h \in Hosts, w \in Flags : Hello(c, h, w)
    \/ RefuseHello(c)
    \/ CheckWildcard(c)
    \/ Authenticate(c)
    \/ Greet(c)
    \/ GreetFails(c)

Add(c) ==
    \/ \E t \in {"conn", "reader"} : AddClient(t, c)
    \/ AddHostAndSpawn(c)
    \/ AddHostAgain(c)

Remove(t, c) ==
    \/ CloseChannel(t, c)
    \/ MatchHost(t, c)
    \/ RemoveHost(t, c)
    \/ RemoveClient(t, c)

Writer(c) == WriterSend(c) \/ WriterFails(c) \/ WriterEnds(c)
Reader(c) == ReaderPong(c) \/ ReaderEnds(c)
Ping(c)   == PingSend(c) \/ PingFails(c)
Stream(c) ==
    StreamOpen(c) \/ StreamInit(c) \/ StreamGet(c) \/ StreamForward(c)
                  \/ StreamEnds(c)

Next ==
    \E c \in Conns :
        \/ Handshake(c)
        \/ Add(c)
        \/ \E t \in Removers : Remove(t, c)
        \/ Writer(c)
        \/ Reader(c)
        \/ Ping(c)
        \/ Stream(c)
        \/ Drop(c)
        \/ TcpTimeout(c)

Spec == Init /\ [][Next]_vars

\* The runtime polls every task that can go on and the kernel's timers run.
\* Nothing is assumed of the hello, of a visitor or of the peer's going.
Fairness ==
    \A c \in Conns :
        /\ WF_vars(CheckWildcard(c))
        /\ WF_vars(Authenticate(c))
        /\ WF_vars(Greet(c) \/ GreetFails(c))
        /\ WF_vars(Add(c))
        /\ \A t \in Removers : WF_vars(Remove(t, c))
        /\ WF_vars(Writer(c))
        /\ WF_vars(Reader(c))
        /\ WF_vars(Ping(c))
        /\ WF_vars(StreamInit(c) \/ StreamGet(c))
        /\ WF_vars(TcpTimeout(c))

FairSpec == Spec /\ Fairness

(***************************************************************************)
(* Properties.                                                             *)
(***************************************************************************)

\* c was told ServerHello::Success and its reader has not finished.
Serving(c) ==
    /\ pc["conn"][c] \in {"addClient", "addHost", "done"}
    /\ pc["reader"][c] # "done"

Unlisted(c) == ~Registered(c) /\ \A h \in Hosts : hosts[h] # c

\* Once the reader of a connection has ended nothing lists the connection:
\* neither a pong that arrived after another task had removed the client, nor
\* an add interleaved with a remove, leaves a ghost in either map (remove is
\* idempotent and the reader's own comes after every add of the connection).
NoGhost == \A c \in Conns : At("reader", c, "done") => Unlisted(c)

\* While the channel of a started connection is open its record is in
\* clients: process_tcp_stream never answers 404 on behalf of a client that
\* is still being written to.
OpenIsRegistered ==
    \A c \in Conns :
        open[c] /\ pc["conn"][c] \in {"addHost", "done"} => Registered(c)

\* An open connection is found under its host unless another connection was
\* started under the same name: remove, called by tasks of any number of
\* connections, takes no other name away.
SoleClaimantListed ==
    \A c \in Conns :
        open[c] /\ At("conn", c, "done") =>
            \/ hosts[claim[c]] = c
            \/ \E d \in Conns \ {c} :
                  claim[d] = claim[c] /\ pc["conn"][d] = "done"

\* The two maps and the tasks implement the promise about names: a claim is
\* accepted only for an unanswered host, a host leads only to a live session
\* that claimed it, a finished session answers for nothing.
phase == [c \in Conns |->
            IF pc["conn"][c] = "hello" THEN "new"
            ELSE IF At("conn", c, "refused") \/ At("reader", c, "done")
                    THEN "ended" ELSE "live"]

NS == INSTANCE NameService WITH name <- claim, route <- hosts

ImplementsNameService == NS!Spec

\* The tasks of a connection give the streams that are led to it a client as
\* module ClientLink describes it, and RemoteStream assumes: never unregistered
\* under an open channel, and, once its reader has ended, never registered by a
\* pong again, whichever of its tasks remove it.
Started(c) == pc["conn"][c] \in {"addHost", "done"}

Link(c) ==
    INSTANCE ClientLink WITH
        registered <- Started(c) => Registered(c),
        chanOpen   <- Started(c) => open[c],
        reader     <- pc["reader"][c] # "done"

ImplementsClientLink ==
    /\ \A c \in Conns : Link(c)!Init
    /\ [][\A c \in Conns : Link(c)!Next \/ UNCHANGED Link(c)!vars]_vars

\* A peer that goes away after its hello, silently or not, is forgotten:
\* its tasks end and nothing lists it.  Only the pings make this true of a
\* peer that vanishes, as no TCP keepalive is set.
Gone(c) ==
    /\ Unlisted(c)
    /\ pc["conn"][c] \in {"done", "refused"}
    /\ \A t \in {"reader", "writer", "ping"} : pc[t][c] \in {"off", "done"}

Reclaimed ==
    \A c \in Conns : ws[c] # "up" /\ ~At("conn", c, "hello") ~> Gone(c)

\* A client that stays connected is found under its host again and again,
\* even when the removal of another connection took the entry away or a rival
\* overwrote it: each pong re-adds it.
Relisted ==
    \A c \in Conns :
        <>[](ws[c] = "up" /\ At("conn", c, "done"))
            => []<>(At("conn", c, "done") /\ hosts[claim[c]] = c)

\* A visitor is told that there is no tunnel, and the stream is given up, only
\* when the control channel of its client is closed.
NotFoundOnlyIfClosed ==
    [][\A c \in Conns :
          At("stream", c, "get") /\ pc'["stream"][c] = "off" => ~open[c]]_vars

(* Statements of the repository that the code does not keep. *)

\* README.md: "Subdomains are first-come, first-served. If a subdomain is
\* currently in use by another connected client, you will be unable to claim
\* it until they disconnect."
FirstComeFirstServed ==
    \A c, d \in Conns :
        Serving(c) /\ Serving(d) /\ ws[c] = "up" /\ ws[d] = "up"
            /\ claim[c] = claim[d] => c = d

\* connected_clients.rs, in remove: "ensure another client isn't using this
\* host".  An entry is only withdrawn when the channel of the client it
\* names is closed.
RemoveSparesOthers ==
    [][\A h \in Hosts :
          hosts[h] # NoConn /\ hosts'[h] = NoConn => ~open[hosts[h]]]_vars

(***************************************************************************)
(* The inductive invariant behind the safety properties.                   *)
(***************************************************************************)

Unpublished == {"hello", "wild", "auth", "greet", "addClient", "refused"}

\* A connection that has passed its hello has a name.
Named ==
    \A c \in Conns :
        pc["conn"][c] \notin {"hello", "refused"} => claim[c] \in Hosts

\* Until the conn task has published a connection no other task of it runs
\* and nothing lists it; its channel is open from the greeting on.
Handshaking ==
    \A c \in Conns :
        /\ pc["conn"][c] # "done" =>
              \A t \in {"reader", "writer", "ping"} : At(t, c, "off")
        /\ pc["conn"][c] \in Unpublished =>
              At("stream", c, "off") /\ Unlisted(c)
        /\ pc["conn"][c] \in Unpublished \ {"addClient"} => ~open[c]
        /\ pc["conn"][c] \in {"addClient", "addHost"} => open[c]

\* An entry names a connection that claimed that host.
OwnName == \A h \in Hosts : hosts[h] # NoConn => claim[hosts[h]] = h

\* Whoever is inside remove has closed the channel, and a stream only calls
\* remove on a channel it has seen closed.
RemoversClosed ==
    \A c \in Conns :
        /\ \A t \in Removers :
              pc[t][c] \in {"match", "unhost", "unclient"} => ~open[c]
        /\ \A t \in {"reader", "writer", "ping"} : At(t, c, "done") => ~open[c]
        /\ At("stream", c, "close") => ~open[c]

\* The last step of the reader's remove leaves nothing behind.
ReaderCleans ==
    \A c \in Conns :
        /\ pc["reader"][c] \in {"unclient", "done"} => \A h \in Hosts : hosts[h] # c
        /\ At("reader", c, "done") => ~Registered(c)

IInv ==
    /\ TypeOK
    /\ Named
    /\ Handshaking
    /\ OwnName
    /\ RemoversClosed
    /\ OpenIsRegistered
    /\ ReaderCleans
    /\ SoleClaimantListed
=============================================================================
