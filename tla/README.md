# Neutun in TLA+

A model of the neutun tunnel, written from its Rust source: TLA+ modules for the
control server, for host names, for visitors' streams on the server, for the
client, for both joined by a websocket, and for the client's files (background
tunnels, settings and saved sessions), TLC instances that check them, and TLAPS
proofs of the safety properties of every part for every number of connections,
names, streams, chunks, commands and pids.

    tlc -config ControlServer_safety.cfg MCControlServer     (and the other runs)
    tlapm ControlServerProofs.tla
    tlapm RoutingProofs.tla
    tlapm RemoteStreamProofs.tla
    tlapm ClientProofs.tla
    tlapm PacketProofs.tla
    tlapm DaemonsProofs.tla
    tlapm SessionsProofs.tla
    tlapm TunnelProofs.tla

## 1. The system

A **client** (`neutun`) opens one websocket to the **server** (`neutun_server`)
and claims a host name. A **visitor** opens a TCP connection to the server with
that name in its Host header. The server gives the connection a stream id and
relays its bytes in packets (`Init`, `Data`, `End`) over the client's websocket;
the client opens a connection to the **local service** for the stream and relays
the answers back (`Data`, `Refused`).

| Component | State | Operations | Talks to |
|---|---|---|---|
| Registry, `connected_clients.rs` | two concurrent maps, `clients` by id and `hosts` by full host name | `add`, `remove`, lookups | every server task |
| Control server, `control_server.rs` | per connection: channel, websocket, three tasks | handshake, `process_client_messages`, `tunnel_client`, ping loop | registry, streams, client |
| Client authentication, `auth/` | none of its own | checks of a hello | registry |
| Remote streams, `remote.rs`, `active_stream.rs` | `ACTIVE_STREAMS`, per stream: queue and two tasks | `accept_connection`, `process_tcp_stream`, `neutun_stream` | registry, channel of the client, visitor |
| Client tunnel loop, `neutun/src/main.rs` | state of `run_tunnel`, tunnel channel | dial, retry, read and dispatch packets | server, local streams |
| Local streams, `local.rs` | the client's `ACTIVE_STREAMS`, per connection two tasks | `setup_new_stream`, `process_local_tcp`, `forward_to_local_tcp` | local service, tunnel channel |
| Daemon tracking, `daemon.rs`, `saved_config.rs` | `~/.neutun/daemons/<pid>.json` | start, list, stop, stop-all | other neutun processes |
| Settings and sessions, `config.rs`, `saved_config.rs` | `config.json`, `last_session.json`, `saves/` | load, save, migrate, resolve | file system |
| Introspection, `introspect/` | a map of recorded requests | collect, show, replay | local streams |
| Packets, `neutun_lib` | none | encode, decode | both sides |

What is hard here:

* **Two maps, no common lock.** `add` writes `clients` then `hosts`; `remove`
  closes the channel, compares, deletes from `hosts`, deletes from `clients`.
  Any of four tasks of a connection, and any number of streams, may be inside
  `remove` while the reader, on a pong, is inside `add`.
* **Check, then publish.** A name is checked when the hello arrives and
  published after the answer has been sent.
* **Silent peers.** No TCP keepalive is set. A peer that vanishes is found only
  through an unacknowledged write.
* **A visitor's socket is split between two tasks** that end on their own, and a
  third task, the client's reader, reaches the stream through a map.
* **The client's tasks outlive the websocket** they were started under.
* **`End` acts five seconds later** than it arrives.
* **Panics as error handling** in the client's stream tasks.
* **Files as shared memory.** Several neutun processes read, check and rewrite
  the files under `~/.neutun` without a lock, and may be stopped in between.

* **Names are cut and joined in different places**: a client's sub-domain and
  domain are joined, a visitor's Host header is cut at the first allowed host
  that fits, the list of taken names uses a third form.

What makes each component correct is stated in sections 3 to 9, the list of
hazards with the properties that cover them is in `PROJECT.json`.

## 2. Modules

| Module | Models | Depends on |
|---|---|---|
| `NameService` | abstract: what the server promises about names | |
| `Connections` | the registry: one operator per access to one map | |
| `ClientLink` | abstract: what streams may rely on of a client | |
| `ControlServer` | all tasks of all client connections | `Connections`, `NameService`, `ClientLink` |
| `RemoteStream` | a visitor's stream on the server | |
| `Client` | the client's tunnel loop and local streams | `Pipes` |
| `Packet` | the encoding of the websocket's messages | |
| `Pipes` | abstract: what a tunnel promises for one stream | |
| `Tunnel` | a stream from visitor to local service | `RemoteStream`, `Client`, `Packet`, `Pipes` |
| `Routing` | checks of a hello, list of taken names, way of a Host header | |
| `Daemons` | background tunnels and their tracking files | |
| `Sessions` | settings, saved sessions, how a tunnel is configured | |
| `MC...` | instances for TLC (symmetry sets) | the module they name |
| `ControlServerProofs`, `RoutingProofs`, `RemoteStreamProofs`, `ClientProofs`, `PacketProofs`, `TunnelProofs`, `DaemonsProofs`, `SessionsProofs` | the theorems | the module they name |

How they fit together. `ControlServer` has the registry in full and a stream only
as far as it touches the registry (it looks its client up, and it may call
`remove`). `RemoteStream` has the stream in full and the client only as far as a
stream can see it: registered or not, channel open or not, reader running or
not. What a client may do to these three is module `ClientLink`, and both sides
are proved against it: `ControlServer` implements it for every connection
(`LinkRefinement`), and `RemoteStream` allows its client every move of it
(`LinkIsAllowed`) and makes none of its own that it forbids (`KeepsLink`). That a
client whose channel is closed is removed for good in the end is `Reclaimed`.
`Client` in turn assumes of the server what `RemoteStream` proves of it
(`ProtocolOrder`): a stream is announced, then come its chunks, then at most one
end. `RemoteStream` assumes of the client only that it answers streams it was
told of. `Tunnel` joins the two, so that what each assumes becomes an obligation
of the other; there each side is proved to be a behaviour of its own module
(`ServerSide`, `ClientSide`), so whatever is proved of a side alone holds of the
two together. `Routing` and `ControlServer` share the
registry: the former has names in full and handlers that run to their end, the
latter the interleavings and a pair of sub-domain and domain for a name, which
loses nothing (`FullHostInjective`). `Sessions` ends where `Client` begins: with the
configuration a tunnel dials with. `Daemons` takes a daemon for a process that
runs until it ends.

## 3. The control server

### State and steps

A member of `Conns` is a websocket connection with its freshly drawn id and its
record (`claim`, the full host, and `wild`). `pc[t][c]` is the next access of
task `t` of connection `c`. One step is one access to one of the maps or to the
channel, so an `add` is two steps and a `remove` four; everything between two
accesses is local to the task. The connection's own task (`conn`) carries out
handshake, greeting and first `add`, and then starts `reader`, `writer` and
`ping`. The checks of the handshake that do not depend on the registry
(characters, block lists, the key) are one nondeterministic refusal here; they
are spelled out in `Routing`.

`ws[c]` abstracts TCP: `lost` means the peer is silently gone, `unacked` that
something was written since, and only then can the connection be found `down`
without the peer's help. `pongs` counts the pongs under way, `queue` the pings
in the channel. Data packets in the channel would change nothing the module
tells apart (the writer treats them as it treats pings), so the channel holds
pings only. One stream is followed per connection; a stream that ends may be
opened again, so removals by streams recur.

### Properties

* `NoGhost`: after the reader of a connection has ended nothing lists it.
* `ImplementsClientLink`: every started connection is, to the streams that are
  led to it, a client as `ClientLink` describes it: registered while its channel
  is open (the invariant `OpenIsRegistered`), and never registered again by a
  pong once its reader has ended, though any of its tasks may remove it and a
  pong may be read at any point.
* `SoleClaimantListed`: an open connection is in `hosts` unless another one was
  started under its name.
* `ImplementsNameService`: the maps and tasks implement `NameService` with the
  reader's end as the end of a session and `hosts` as the routes.
* `NotFoundOnlyIfClosed`: a stream is given up only when its own client's
  channel is closed, whoever holds the host name by then.
* `Reclaimed` and `Relisted`, under fairness: a peer that goes is forgotten, a
  client that stays is found again and again.

Two statements of the repository are shown not to hold: `FirstComeFirstServed`
(README.md:484; `ImplementsNameService` says what is true instead: a name is
never claimed while somebody is *published* under it) and `RemoveSparesOthers`
(connected_clients.rs:54; `Relisted` and `SoleClaimantListed` bound the damage:
the entry comes back with the next pong, and only a connection that shares its
name can lose it, by `OnlyNamesakes` to a namesake that is added or removed).

### Runs

| Run | Instance | States |
|---|---|---|
| `control_safety` | 2 connections, wildcard flags, one mortal, one with a stream | 1.1 M |
| `control_liveness` | 2 connections, one mortal, fairness | 27 k |
| `control_first_come`, `control_spares_others` | 2 connections, to a counterexample | |

Why the bounds are enough to be interesting. Everything that goes wrong between
connections goes wrong between two that want one name; with two, each can be
anywhere in its handshake, its pongs and its removals while the other is
anywhere in its own. One domain suffices as hosts of different domains never
meet except in `find_wildcard`, which a second connection with the wildcard flag
exercises. `MaxQueue` and `MaxPongs` (1) bound how many pings are buffered and
how many pongs are under way: one of each is what it takes for a pong to be
read after any given removal. `Mortal` and `Streaming` restrict which connection
may be lost or be visited, to keep the run small: either of the two may be the
earlier or the later one, and since nothing distinguishes them a second mortal
connection adds two removals at one time, which the proofs cover; they have no
such bound. The runs do not check for deadlock since a finite set of connections
comes to an end.

### Fairness

Each task that can take a step eventually does (the tokio runtime polls woken
tasks), `TcpTimeout` happens (the kernel's retransmission timer). Nothing is
assumed of hellos, visitors or the peer's going. `Add` and each task's `Remove`
are weakly fair separately, as they run in separate tasks.

### Proofs

`ControlServerProofs` proves each safety property above, and the refinement, for
all `Conns`, `Subs`, `Domains` and all values of the bounds that satisfy
`RegistryAssumption` and `BoundsAssumption`. The inductive invariant `IInv` is

* `TypeOK` and `Named` (a connection past its hello has a claim);
* `Handshaking`: before a connection is published none of its other tasks runs
  and nothing lists it;
* `OwnName`: an entry in `hosts` names a connection that claimed that host;
* `RemoversClosed`: whoever is inside `remove` behind its first step has closed
  the channel, and a stream calls `remove` only on a closed channel;
* `ReaderCleans`: the reader's own `remove`, the last thing it does, leaves
  nothing behind;
* `OpenIsRegistered` and `SoleClaimantListed` themselves.

`NoGhost` alone is not inductive: that no pong can come after it needs to know
that the reader is the only task that adds, and that its own removal has gone
through both maps (`ReaderCleans`). `SoleClaimantListed` needs `OwnName` to know
that nobody else's removal touches the entry, and `RemoversClosed` to know that
the connection's own removal has closed its channel. The step lemmas go action
by action; `FrameLemma`, `HandshakeLemma` and `MoveLemma` take the actions that
disturb little together. The refinement maps each access to a step of
`NameService` or to a stutter: an accepted hello is `Claim`, `InsertHost` is
`Publish`, `DeleteHost` is `Withdraw` and the end of a handshake or of a reader
is `End`.

`LinkRefinement` maps each connection to a `ClientLink` of its own. A connection
that is not started counts as a client that is there, as no stream can have been
led to it (`Started`). Most steps leave the three facts of a link alone, for
whatever connection (`LinkFrame`, `LinkQuiet`, `LinkIdle`); what is left are the
four accesses of `remove`, the first of `add`, which needs a running reader, and
the reader's end, which `ReaderCleans` makes an unregistration at the latest.

`OnlyNamesakes` is an action property of all behaviours: an entry of `hosts`
changes only when a started connection of that very name adds itself, or, its
channel closed, takes the entry away. It rests on `Handshaking` (a connection
that adds itself is accepted and has a claim) and `RemoversClosed`, and is as
much of "ensure another client isn't using this host" as the code keeps.

## 4. Remote streams

### State and steps

For each stream: the two tasks (`tcp`, `sink`), the queue between the client's
reader and `sink`, what was put into the client's channel (`sent`), what was
written to the visitor (`page`), and the visitor's socket. The n-th answer of
the client carries n, so order and gaps are visible. Of a message only its kind
is kept. The three ways in which the tasks end are kept apart as in the code:
`ReadEof` and `WriteFails` return without a word to the other task or to
`ACTIVE_STREAMS`, only `ErrorPage` (and the shutdown behind it) forgets the
stream. That the client is gone is told in two steps (remote.rs:264-265): the
message is queued (`CheckClient`), then the queue is closed (`CloseQueue`), and the
client's reader may queue an answer between them. The branch of `neutun_stream`
for an ended queue cannot be reached: a closed queue has a `NoClientTunnel`
message in it until the sink has come to that and stopped, and while the stream
is in `ACTIVE_STREAMS` the map itself holds a sender.

### Properties

* `ProtocolOrder`: `Init` first, `End` at most once and last.
* `Gapless`, `ErrorPageEnds`: the visitor gets the answers in order without a
  gap; an error page is the last thing it gets.
* `ClosedQueueSpeaks`: a closed queue has the message that ends the stream in it,
  though not always as its last (a part of `IInv`, and a theorem).
* `AnswersKept`: no entry goes while the sink of its stream still waits, whatever
  the visitor does with its own side, and until the loss of the client is
  announced every answer received for the stream is written or queued. That an
  entry goes in the end is no property: a stream that was answered normally
  stays in `ACTIVE_STREAMS` for the life of the server.
* `NextRequestAnswered`, `RefusalReachesVisitor`, under fairness.
* `ClientLossClosesStream` does not hold (remote.rs:261-263): the check for the
  client is made before a read, not during it.

The run `remote_live` (45 k states) has one stream, three chunks of the visitor and
three answers. Streams do not share state except the client, whose moves are
nondeterministic already, so a second stream adds nothing to a per-stream
property; the proofs are for any set of streams. Fairness: each of the two tasks
is polled, and the client's reader ends once its channel is closed (this is
`Reclaimed`). Nothing is assumed of what the client answers, or of when the
visitor sends, half-closes or goes. One thing is assumed of the visitor: as long
as it is there it takes what is written to it. The sink calls `write_all`
(remote.rs:326 and 347), which waits once the kernel's buffers are full, and weak
fairness of `SinkTask` passes over that wait. The code has no timeout there, so a
visitor that stays open and never reads holds its sink, and nothing that is
queued behind the write is ever handled. The messages of the run fit in the
buffers; of longer answers `NextRequestAnswered` and `RefusalReachesVisitor` say
something only for visitors that read.

### Proofs

`RemoteStreamProofs` proves the six safety properties from `IInv`, the
conjunction of `TypeOK` and, per stream, `NotAccepted`, `SentSoFar`, `Closing` and
`InOrder`. The heart is `InOrder`: while the sink waits, the page and the queue
behind it, up to the first message that the client is gone, are together the
client's answers so far, which makes `Gapless` inductive. What may lie behind
that message is not in order with the rest, and the sink never comes to it.
`Closing` says that the queue is closed only by the task that has announced the
loss, so that the announcement is in a closed queue (`Announced`). Each action
has a `...Kept` lemma.

`LinkIsAllowed` and `KeepsLink` are the two halves of the contract with the
control server. The first says that the environment of the module is not too
narrow: any move of `ClientLink`, at any moment, is one that `Next` allows. The
second that the streams themselves, which call `Connections::remove` when a send
into the client's channel fails, do nothing to the client but unregister it
behind a closed channel.

## 5. Host names

### State and steps

`Routing` has the registry again, with names instead of pairs: a name is the
sequence of its labels, the most specific first, so `<sub>.<domain>` is one
label in front of a domain and "ends with" is "lies under". A hello is a record
of what the server looks at; `Checks` are the checks of `client_auth.rs` in the
order of the code, each with what is answered if it fails, so `Answer` is that
of the first that fails. `Connect` and `Leave` are the handlers from end to end.
`accept_connection` is the way of a Host header: `Matched` takes the first
allowed host the name lies under, not the longest, `find_by_host` looks up the
whole name, `find_wildcard` the matched domain. Its result is the set of places
it may lead to, more than one only where `find_wildcard` has a choice (it walks
a map).

### Properties

* `OwnHostLeadsHome`: what a client was told leads to it. Allowed hosts may lie
  under one another and be listed in any order, so the visitor's name may be cut
  elsewhere than the client's was joined. Two kinds of names are `OutOfReach`:
  an allowed host itself (client `b` of `ex` where `b.ex` is allowed) and
  `wormhole`. The code gives both out and never leads anybody there.
* `WildcardAnswersDomain`: a wildcard client gets every visitor of its domain
  whom no client has claimed by name, as far as the domain is where the name is
  cut.
* `NoStranger`: nobody else gets a visitor, and there never is a choice.
* `TakenTellsAnswer`: the list of taken names and the answer to a hello agree,
  except for what the list cannot tell: restricted names, and a wildcard
  client's own sub-domain, which is taken and not listed.

`routing` (three connections) has the allowed hosts `ex`, `b.ex`, `b.org`, `org`
in this order: a shorter host listed before and one listed behind the host that
lies under it. There are two domains of each kind, sub-domains that are equal
but for their case, restricted, `wormhole`, or of two labels, plain and wildcard
hellos, one hello for every other refusal, and visitors for all names of up to
two labels over an allowed host.

### Proofs

`RoutingProofs` proves them for all labels, hellos, visitors and lists of
allowed hosts. `IInv` says that `hosts` has exactly the full hosts of the
registered clients, no two of which share one, or a domain as wildcard clients.
Behind the four properties are `FullHostInjective` (a name tells its sub-domain
and its domain) and facts about the first allowed host of a name; that the
first failing check exists is the least element of a set of numbers.

Two more theorems relate `Routing` to `ControlServer`. `KeyCheckFindsNobody`: the
collision check of `auth_sub_domain` looks a bare sub-domain up where only full
hosts are entered, so it never finds anybody; this is why `Authenticate` of
`ControlServer` does not look at the registry. `FirstComeHolds`: as long as hellos
and removals run from end to end a name passes on only through the leaving of
the client that has it. The README of the repository is right about that much;
`control_first_come` shows the interleaving that it does not cover.

## 6. The client

### State and steps

`tunnel` is where `run_tunnel` stands; a websocket is an era. `at` and `cur` are
the reader's place in the handling of one `Data` packet: it looks the stream up
(`Look`), connects to the local service, spawns the connection's source,
*then* enters the stream (`Connect`, `Insert`), and looks it up again to deliver
the chunk (`Deliver`, `Refuse`, `SendFails`). The lookups are separate steps as
other tasks remove entries meanwhile. A local connection has its own `source`
and `fwd` task; `SourcePanics` and `FwdPanics` are the `expect` calls of
`local.rs`, which end one task and leave its entry. The task of an `End` packet
takes three steps, holding a sender of the stream's queue between the first and
the last. When the writer of the current era fails, `Restart` drops the reader
wherever it awaits something, and only there. When `tunnel` is `"exited"` the
process is gone and nothing moves. `log` is what `collect_stream` of
`introspect/mod.rs` records of a local connection once both its tasks have
dropped their ends of the copies (`Collect`).

### Properties

* `OneSource`: one local connection of a stream is read at a time.
* `StreamsArePipes`: every stream is, step by step, what `Pipes` promises, as far
  as the client goes: a local connection is written the visitor's chunks in
  order and without a gap, a later one only later chunks (the invariant
  `ChunksInOrder`), and connections answer in turn.
* `RefusedOnlyWithoutSource`: no chunk is refused while a connection of its
  stream is being read.
* `OnlyBrokenSocketsKill`: a client that is up ends only over a broken socket,
  the websocket or the local one of the stream at hand; no orderly close ever
  ends it. (A send that fails while a packet is handled does: it is taken for a
  malformed packet, which is fatal, main.rs:183.)
* `RecordsWhole`: a record of a connection is made of all it was written and all
  it answered.
* `EndReachesLocal`, `LossNoticed`, under fairness.

`client_streams` (375 k states) has one stream with two local connections, two
chunks, one answer per connection and a ping, enough for a second connection to
be opened while anything of the first is left. One websocket is enough there:
tasks of the era before belong to streams of the era before, and with one
stream a second era shares nothing with the first. The invariant and the safety
properties were also explored with two eras (3.1 M states) and with two streams
(12 M), which is too long for a run kept beside the code. `MaxEras`, `MaxConns`,
`MaxChunks`, `MaxReplies` and `MaxPackets` are the bounds. Fairness: tasks are
polled, connecting to the local service succeeds or fails, TCP gives up on
unacknowledged bytes, and a local service that keeps its connection open reads
from it: `forward_to_local_tcp` waits in `write_all` (local.rs:157) for as long as
the service's buffers are full, and weak fairness of `Fwd` passes over that wait.
The chunks of the run fit in the buffers. `EndReachesLocal` claims nothing for a
service that stays open and never reads. Dialling is not assumed to succeed.

### Proofs

`ClientProofs` proves the five safety properties for any streams and bounds.
The invariant has four parts. `LoopInv`: the reader is in a packet only of a
stream it was told of. `Entered` and `Tasks`: `ACTIVE_STREAMS` has the last
connection of a stream or none, none while one is being made, and a source that
runs is that of the last connection, which is entered unless the stream has
ended; this gives `OneSource`. `Recorded`: a record is made behind both tasks.
`Chunks` and `Earlier`: what a connection was written and what waits in its
queue are one run of numbers, which for the entered connection goes up to the
last chunk the reader is done with, and later connections have later numbers;
the close stands last in a queue and only an `End` task puts it there. Only the
last two together make `ChunksInOrder` inductive, as a chunk is delivered to
whatever connection is entered at that moment. `Next` is split by the task that
steps, and the lemmas `...Kept` and `...Elsewhere` say what a step leaves alone.

`StreamsStayPipes` holds for every stream of every era and for any number of
lost websockets: a stream that has lost its tunnel still has tasks that
read and write, and they keep to the order. `PipeCases` sorts the steps by what
`Pipes` sees of them: a chunk taken, a chunk written, an answer, a connection
made, or nothing. A chunk that is written is the next in turn by `Chunks` and
`Earlier` (`WriteHears`); that no answer names a connection not made yet is an
invariant of its own (`AlwaysSpoken`).

## 7. The tunnel

### State and steps

`Tunnel` instantiates `RemoteStream` and `Client` for one stream and joins them:
the server's `sent` is what the client reads, the client's `out` what the server
reads, and every packet between them is serialized and read back by `Packet`.
`down` and `up` count the packets that have been put on the websocket. A step is
one of a side alone (`Server`, `Client`), or of the websocket: `Relay` and
`ClientReads`, `ClientWrites` and `ServerReads`. There is one websocket, which
holds until the client's process ends (`Stopped`, or `SendFails`); how a side
takes the loss of a websocket is checked in the modules of the sides, for every
point at which it may happen.

`Packet` is `ControlPacket` with `serialize` and `deserialize`, as sequences of
bytes: the kind, eight bytes of stream id, the data. `MCTunnel` states the round
trip and the refusal of malformed messages for the ids that pings use as well.

`Pipes` is what a tunnel promises, in four variables: the chunks asked, what each
local connection heard, what they said, what the visitor has seen. Chunks are
heard in order, each by one connection at most; what is said is seen in order
without a gap, until an error page.

### Properties

* `PacketsUnderstood`: what arrives is what the reader of the other side takes
  for granted: a stream is announced first, chunks come without a gap, nothing
  comes behind the end, and the server gets no packet of a stream it has not
  announced. In the modules of the sides these are assumptions.
* `ImplementsPipes`: both sides and the websocket implement `Pipes`.
* `RequestArrives`, `AnswerArrives`, under fairness: what the server has read of
  the request reaches the service, and what the service has answered reaches the
  visitor, also when one of the two has closed its side, unless something is
  reset, an error page comes first, or the client ends. `RequestArrives` claims
  nothing further once one chunk was refused (`HasRefused`): the refusal ends the
  stream for its visitor, with an error page, and whether a later chunk still
  reaches a local connection is left open.

`tunnel` (438 k states) has one chunk besides the close of the request, one local
connection and one answer (`MaxReads`, `MaxConns`, `MaxReplies`). Each of the
tasks and queues a packet passes can then be ahead of or behind any other.
Explored beyond: two local connections (1.9 M states, safety), two chunks (750 k
states, without answers). Fairness: every task that moves packets or bytes is
polled, and visitor and service, as long as they are there, take what is written
to them (sections 4 and 6: `write_all` in remote.rs and local.rs waits without a
timeout for a peer that does not read). When they send, close or go is left
open, and so is the end of the client. The two sides keep their fairness from
their own modules.

### Proofs

`PacketProofs` proves `RoundTrip` for every stream id and all data: a packet is
read back as it was written. `ReadAnything` goes the other way, from any bytes:
`deserialize` fails exactly on messages shorter than nine bytes or of an unknown
code, and what it takes for a packet of a stream is read back from its own
serialization. Bytes behind an `Init`, `Refused` or `End` are dropped, so the
message itself need not come back. Pings are left out there, since a token that
is not UTF-8 is replaced by another (`String::from_utf8_lossy`).

`TunnelProofs` proves `PacketsUnderstood` and `ImplementsPipes` for every number
of chunks, local connections and answers (`TunnelBounds`). It instantiates
`RemoteStreamProofs` and `ClientProofs`: a step of the composition is one of a
side or leaves both alone, so the invariants of the sides are kept by the
theorems proved there (`ServerStep`, `ClientStep`; `ServerNames` and
`ClientNames` say that the instances are of the same modules). What is new in
`IInv` is what lies between the sides:

* `Downward`: the client has read the first packets of the server, no more than
  were written to the websocket, and knows of the end exactly if it has read it.
  From it and `ProtocolOrder`'s invariant comes what the next packet can be.
* `Upward`: every answer is behind the server's reader, on the websocket, or in
  the writer's channel; it is of a connection made so far; and nothing is made
  for a stream the client was not told of. Without the last part the server
  could be answered before it has asked.
* `Answers`: a message in the queue of the visitor or on its page is an answer
  that has reached the server, of the kind that was sent, or `NotFound`.

The refinement takes the steps of each side apart by what `Pipes` sees of them.
A chunk is asked when it enters the control channel (`SendsAsk`), and the client
has never taken more than that (`TakenAreAsked`), so a chunk that is heard was
asked; that it is the next one comes from `Chunks` and `Earlier` of the client
(`WriteHears`). An answer is seen in turn by `InOrder` of the server and as what
it was by `Answers` (`ShowsView`). The rest goes unseen, because what was said
and seen stays (`OutStays`, `SeenKept`).

`ServerSide` and `ClientSide` say that each side of the composition is a behaviour
of its own module, which made assumptions of the other: `RemoteStream` lets its
client answer anything in turn, and covers what the real client, its writer and
the websocket do; `Client` lets the server send anything in order, and `Downward`
says that what arrives is such. So the theorems about a side hold of the
composition without being proved again (`ServerPromises`, `ClientPromises`), and
the composition's client is one of `ClientLink` (`LinkEverywhere`), which
`ControlServer` provides. `ClientSide` allows one step that `Client` does not have,
the end of the process from outside.

## 8. Background tunnels

### State and steps

A step of `Daemons` is one access to the directory of tracking files or one
question to, or order for, the operating system. `file[p]` is `<pid>.json`,
`proc[p]` who has the pid. A command `c` scans (`ReadEntry`, file by file), asks
of every entry whether its process is alive (`CheckAlive`) and removes the file
when it is not (`Unlink`, a step later); a start then spawns its daemon and
saves the entry (`Create` truncates, `Write` writes). `neutun stop <pid>` takes any
pid its user types, tracked or not (`BeginStop`). Any command may be
interrupted anywhere, daemons die and leave their file behind (nothing in the
code removes it, although the specification of the redesign, line 282, says the
file is cleaned up on exit), and pids in `Recycled` may be given out again, to a
daemon or to another program; another program may have any free pid (`Taken`).

The calls fail as in the code, which looks at the outcome of none of them:

* `is_pid_alive` is `.map(|s| s.success()).unwrap_or(false)` (saved_config.rs:297-304):
  when `kill -0` cannot be run or is denied, a running process is taken for dead
  (`FoundDead`), and a listing removes its file;
* the outcome of `kill` is discarded (daemon.rs:203), so a command may have sent no
  signal (`kill_process`), and removes the file all the same;
* a file may not be readable (`ReadEntry`) or removable (`Unlink`, `Forget`,
  saved_config.rs:258).

A running process about which a call has failed is `astray` (a history variable):
its entry may go, and the code has no means to find it again. So is a process
that is given a pid while a command is about to remove an entry of that pid
(`Doomed`): a `neutun stop` of a free pid that is slow, say, and a start meanwhile.

### Properties

* `RunningIsTracked`: a running daemon that is not astray keeps its entry, except
  while or after its own start has not got to the end.
* `CollisionSeen`: a start does not overlook a daemon that was tracked when it
  began, is still running and has not gone astray, and whose file it could read.
* `StaleRemoved`: a completed scan leaves no entry that was stale at its start and
  that it could read and remove.

They are claimed for pids that are not given out twice. With a recycled
pid they do not hold: a listing that found the old process dead removes the
entry of the new one. Two starts whose scans both precede the first entry both
spawn a daemon; `CollisionSeen` is what remains of the collision check.

Without the exception for `astray` the first two are false of the code: where no
`kill` can be run, as in a slim image, every listing removes the files of all
running daemons, and every start of a tunnel that runs spawns a second one.

`tracked` and `stale` are history variables too, of what was so when a command
began. The run `daemons_tracking` (3.1 M states) has three commands of any kind,
two tunnels and two pids, one of which is recycled: enough for a listing, a stop
and a start to meet over one pid, with any of the failures. Commands end, so
deadlock is not checked. Pid 0, which stands for a process group, and negative
numbers are not modelled.

### Proofs

`DaemonsProofs` proves the three properties for any `Cmds`, `Keys`, `Pids` and
`Recycled` that satisfy `DaemonAssumption`. None of them is inductive alone: that
a removal hits no running daemon needs to know what the command found out
before (`Removes`: the process is dead for good, since its pid is not given out
again, has been sent a signal, or is astray), that a save hits nobody else's
entry needs `Fresh` (the pid was handed to this start, no other start saves it, and no scan
has seen a file of it), and that a scan misses nothing needs `TrackedStays` and
`StaleStays`, which say for each place in a scan where the entry is: still to be
read, read, about to be removed. `Given` ties all of it to the pids the kernel
has handed out. `IInv` is their conjunction with `TypeOK` and
`RunningIsTracked`; there is one lemma per action.

Two more theorems are about the other direction, what a command does on the word
of an entry that may be old by then. `EntriesStayTrue`: a tracking file, and an
entry in a scan, names the tunnel that its process runs, or a process that has
ended; a spawn cannot make an old entry wrong, as its pid has never been in one
(`Given`), and a save is of the start's own daemon (`Fresh`). So a start is turned
down, and a tunnel is listed, only for a daemon of that tunnel that ran when it
was asked for (`ListsWhatRuns`), and `stop-all` sends a signal to nobody but
daemons it has listed; every other signal is that of a `neutun stop`, for the pid
that was typed, whoever has it (`SignalsWhatIsAsked`). Both are `ActsAsListed`. All
of this is for pids given out once; it is what tracking by pid costs that it
fails for the others.

## 9. Settings and saved sessions

### State and steps

A process of `Sessions` carries out one command after another. Files are
truncated and written in two steps; a write over what another process wrote
since the truncation may leave a file that does not parse. Reading a file is one
step. `neutun config` loads, changes and saves (`ConfigSet`); a bare neutun asks
whether there is a `config.json`, migrates the legacy files or starts the
onboarding if not, loads the settings, asks what to do, and loads them once more
(`Interactive`, `Menu`, `Prompt`); `neutun -p` and `saves restore` resolve the
tunnel's configuration from the command line, the session and the settings. A
tunnel that connects saves its session, at every reconnect again. Of the fields
that are treated alike one is kept: `sub_domain` stands also for `local_host` and
`dashboard_port`, `wildcard` for `use_tls`.

### Properties

* `RestoreKeepsTunnel`: a restored tunnel is, in all that the command line leaves
  open, the tunnel that was saved, whatever happened to the settings and to
  `last_session.json` since.
* `OnlyAskedChanges`: a write of the settings changes the fields that its command
  was asked to change, and every other field stays as it was last written to the
  end, by whatever process. A write is excused when its process met settings
  that do not parse, or when another process has touched them since it read
  them: then an update is lost, as nothing in the code keeps it. The excuse is
  for that one write; the next reader is held to what is in the file by then.
* `PanicsOnlyTorn`: the `expect` behind the migration fails only on settings in
  the middle of a write.
* `RestoreKeepsServer` does not hold: sessions are saved with control port 0 and
  no control host (main.rs:471-472), so no restored tunnel can connect.

`saved`, `from`, `whole` and `may` are history variables: of the last two, the one
has the settings last written to their end, the other, per process, the fields
its write may change. `sessions_restore` (0.8 M states) has two processes and four
commands, which is what it takes to start, save, change the settings and restore
while something else is running; two domains, two ports, one key, one
sub-domain, one name. Commands are bounded by `MaxCommands`, so deadlock is not
checked.

The migration is another disagreement between document and code, which no run
states. The specification of the redesign
(docs/superpowers/specs/2026-04-01-cli-redesign-design.md) says of `key.token`,
`domain.txt` and `port.txt` "migrated to config.json on first run" (lines 120-122)
and "On first run, if `config.json` does not exist: 1. Check for old config files"
(lines 294-296). In the code only the bare `neutun` migrates
(interactive.rs:145-147). Whoever runs a config command first gets the defaults
with one field changed (`load_config().unwrap_or_default()`, main.rs:262-296), and
as there is a `config.json` from then on the legacy files are never read again;
`neutun -p` runs on the defaults and leaves the question open (config.rs:216).
`ConfigSet`, `Direct` and `Interactive` model exactly this, and from `Init` with a
legacy key three steps reach it: a `ConfigSet` of the host, its `Truncate` and its
`Write` leave settings whose key is none. `OnlyAskedChanges` compares with settings and defaults, never with
legacy files, so that it holds is no statement about the migration.

### Proofs

`SessionsProofs` proves the first three for any processes, names, hosts, ports,
keys and bound that satisfy `SessionAssumption`. `IInv` has, besides the types,

* `Memory`: what a process holds where it stands (a process behind the menu's
  check has seen a `config.json`, and none is ever removed: this is
  `PanicsOnlyTorn`);
* `Copied` and `Kept`: a session in memory, on its way to a file, or in a file
  that can be read is the session of the tunnel the history names. `saves add`
  copies a session that other tunnels overwrite meanwhile, so both have to hold
  at once;
* `LastWritten`: the settings in the file, unless they are cut off, are the last
  that were written to their end;
* `Informed`: a writer that nobody has overtaken has these in its buffer, but for
  the fields it may change, and the file is torn in the middle of its write. A
  write makes everybody else overtaken, which is why the two are inductive
  without counting writers.

That options, session and settings go into the restored tunnel as they should is
one lemma, `ResolvedKeeps`, about `from_opts_and_session`. A step is split into
its own process (`MemoryStep`), the others (`Elsewhere`, `OthersKeep`), the files
(`KeptStep`) and the settings (`LastWrittenStep`, `InformedStep`).

`RestoredNeverUp` turns the counterexample to `RestoreKeepsServer` into a theorem: no
restored tunnel of any behaviour comes up. Its invariant `NoServerSaved` says that
port 0 is in every session that is saved, read or written, and that a process
that has read one stands before its dial, which needs a port.

## 10. The theorems

| Module | Theorem | Property of the runs |
|---|---|---|
| `ControlServerProofs` | `InductiveInvariant` | `IInv` |
| `ControlServerProofs` | `TypeCorrect` |  |
| `ControlServerProofs` | `NoGhostEver` | `NoGhost` |
| `ControlServerProofs` | `OpenClientsRegistered` |  |
| `ControlServerProofs` | `SoleClaimantFound` | `SoleClaimantListed` |
| `ControlServerProofs` | `NotFoundJustified` | `NotFoundOnlyIfClosed` |
| `ControlServerProofs` | `StepRefines` |  |
| `ControlServerProofs` | `Refinement` | `ImplementsNameService` |
| `ControlServerProofs` | `LinkRefinement` | `ImplementsClientLink` |
| `ControlServerProofs` | `OnlyNamesakes` |  |
| `RemoteStreamProofs` | `InductiveInvariant` | `IInv` |
| `RemoteStreamProofs` | `TypeCorrect` |  |
| `RemoteStreamProofs` | `ProtocolOrderHolds` | `ProtocolOrder` |
| `RemoteStreamProofs` | `GaplessHolds` | `Gapless` |
| `RemoteStreamProofs` | `ErrorPageIsLast` | `ErrorPageEnds` |
| `RemoteStreamProofs` | `ClosedQueueHasNotFound` |  |
| `RemoteStreamProofs` | `NoAnswerDropped` | `AnswersKept` |
| `RemoteStreamProofs` | `LinkIsAllowed` |  |
| `RemoteStreamProofs` | `KeepsLink` |  |
| `DaemonsProofs` | `InductiveInvariant` | `IInv` |
| `DaemonsProofs` | `TypeCorrect` |  |
| `DaemonsProofs` | `RunningTracked` | `RunningIsTracked` |
| `DaemonsProofs` | `CollisionsSeen` | `CollisionSeen` |
| `DaemonsProofs` | `StaleGone` | `StaleRemoved` |
| `DaemonsProofs` | `EntriesStayTrue` |  |
| `DaemonsProofs` | `ActsAsListed` |  |
| `ClientProofs` | `InductiveInvariant` | `IInv` |
| `ClientProofs` | `TypeCorrect` |  |
| `ClientProofs` | `SingleSource` | `OneSource` |
| `ClientProofs` | `InOrder` |  |
| `ClientProofs` | `WholeRecords` | `RecordsWhole` |
| `ClientProofs` | `HonestRefusals` | `RefusedOnlyWithoutSource` |
| `ClientProofs` | `BrokenSocketsOnly` | `OnlyBrokenSocketsKill` |
| `ClientProofs` | `AlwaysSpoken` |  |
| `ClientProofs` | `StreamsStayPipes` | `StreamsArePipes` |
| `PacketProofs` | `RoundTrip` |  |
| `PacketProofs` | `ReadAnything` |  |
| `TunnelProofs` | `InductiveInvariant` |  |
| `TunnelProofs` | `EveryPacketUnderstood` | `PacketsUnderstood` |
| `TunnelProofs` | `TunnelIsPipes` | `ImplementsPipes` |
| `TunnelProofs` | `ServerSide` |  |
| `TunnelProofs` | `ServerPromises` |  |
| `TunnelProofs` | `LinkEverywhere` |  |
| `TunnelProofs` | `ClientSide` |  |
| `TunnelProofs` | `ClientPromises` |  |
| `RoutingProofs` | `FullHostInjective` |  |
| `RoutingProofs` | `InductiveInvariant` | `IInv` |
| `RoutingProofs` | `TypeCorrect` |  |
| `RoutingProofs` | `OwnHostHome` | `OwnHostLeadsHome` |
| `RoutingProofs` | `NobodyElseAnswers` | `NoStranger` |
| `RoutingProofs` | `WildcardComplete` | `WildcardAnswersDomain` |
| `RoutingProofs` | `TakenIsHonest` | `TakenTellsAnswer` |
| `RoutingProofs` | `KeyCheckFindsNobody` |  |
| `RoutingProofs` | `FirstComeHolds` |  |
| `SessionsProofs` | `InductiveInvariant` | `IInv` |
| `SessionsProofs` | `TypeCorrect` |  |
| `SessionsProofs` | `RestoredFaithfully` | `RestoreKeepsTunnel` |
| `SessionsProofs` | `SettingsChangeAsAsked` | `OnlyAskedChanges` |
| `SessionsProofs` | `PanicMeansTorn` | `PanicsOnlyTorn` |
| `SessionsProofs` | `RestoredNeverUp` |  |

## 11. Only model-checked

* Liveness (`Reclaimed`, `Relisted`, `NextRequestAnswered`,
  `RefusalReachesVisitor`, `EndReachesLocal`, `LossNoticed`, `RequestArrives`,
  `AnswerArrives`) is beyond the proof system, which has no rule for fairness,
  and rests on TLC's instances.
* The statements that do not hold, by their counterexamples. What holds instead
  is proved: `OnlyNamesakes` and `Refinement` for the registry, `FirstComeHolds` for
  handlers that do not interleave, `RestoredNeverUp` for restored sessions.

## 12. Not modelled

* Replay of a recorded request (`introspect/mod.rs`). Its stream is one more user
  of the tasks that `Client` has, with a channel that nobody reads; it would
  take a second stream in a run that one stream fills. The hazard is listed.
* Reconnect tokens: the server issues them to anonymous clients only and refuses
  every anonymous hello, so no client holds one.
* The instance network: `instance_for_host` is stubbed to `DoesNotServeHost`, so
  the code behind it is not reached.
* Display, dashboard pages, logging, version check, prompts, start-up and
  configuration of the server: input and output without state of their own.
* The Windows and macOS branches of `daemon.rs`, which ask other programs the same
  questions.

`PROJECT.json` has the complete list with sources.

## 13. Plan

1. The reconnecting client composed with `ControlServer`: how long a name stays
   refused to its own owner.
2. Replay as a second stream of `Client`, with a smaller instance of its own.
3. `Tunnel` with more than one websocket, so that the loss of one under a client
   that lives on is part of the composition.

## 14. The runs

| Run | Configuration | Expected | What it shows |
|---|---|---|---|
| `control_safety` | `ControlServer_safety.cfg` | pass | Two connections want one name, as plain or wildcard clients, one of them may go away at any point and a visitor's stream is a further remover: the registry maps, accessed one step at a time by all tasks, never keep a ghost, give the streams of visitors the link to every client that module ClientLink describes, and implement the abstract name service. |
| `control_liveness` | `ControlServer_liveness.cfg` | pass | Under fair scheduling a peer that goes away, silently or not, is forgotten completely, and a client that stays is found under its host again and again although a rival's add and remove take the entry from it. |
| `control_first_come` | `ControlServer_first_come.cfg` | violation | Two hellos for one name whose checks both precede the first add are both accepted. |
| `control_spares_others` | `ControlServer_spares_others.cfg` | violation | The removal of a dead connection withdraws the host entry of another connection, published between the id comparison and hosts.remove. |
| `remote_live` | `RemoteStream_live.cfg` | pass | A visitor's stream whose client may be lost at any point: order of what the client is told, order and gaplessness of what the visitor gets, error pages that end the stream, no entry that goes and no answer that is dropped while there is somebody to write it, and the answers a visitor is owed. |
| `remote_client_loss` | `RemoteStream_client_loss.cfg` | violation | A visitor that waits for its answer while the client is lost is not told: process_tcp_stream waits in read and the stream stays open. |
| `client_streams` | `Client_streams.cfg` | pass | A stream in the client with up to two local connections: the reader, the tasks of the local connections and of the End packet race for ACTIVE_STREAMS while the local service and the websocket fail at any point; what a local connection is given are the visitor's chunks as module Pipes says; the end of the stream is carried out and recorded whatever becomes of the tunnel, and a lost server is noticed once something was written to it. |
| `tunnel` | `Tunnel_stream.cfg` | pass | Server and client joined by a websocket, with packets serialized and read back: each side gets the packets it expects, both together implement the pipes of module Pipes, and under fair scheduling requests and answers arrive while the service, the visitor and the client's process may end at any point. |
| `routing` | `Routing_names.cfg` | pass | Up to three clients claim names under allowed hosts that lie under one another: every Host header leads to the client that has claimed it, to the wildcard client of its domain, or to an error page, and the list of taken names agrees with what hellos are answered. |
| `daemons_tracking` | `Daemons_tracking.cfg` | pass | Up to three daemon commands (start, ls, stop, stop-all) run at the same time over the directory of tracking files, any of them may be interrupted, daemons die, a pid is given out again, any pid may be typed, and kill -0, kill, the reading and the removal of a file may fail: no running daemon about which no call failed loses its entry, a scan misses no entry that stays, and stale entries go. |
| `sessions_restore` | `Sessions_restore.cfg` | pass | Two neutun processes at a time run settings commands, the first-run menu, tunnels and saves commands over the same files, and may be stopped at any point: a restored tunnel is the one that was saved, and a write of the settings changes what its command was asked to change and nothing else, unless it was overtaken by another or met settings that do not parse. |
| `sessions_server` | `Sessions_server.cfg` | violation | A tunnel restored from a session that saves add made dials port 0 of a control server derived from the settings. |
