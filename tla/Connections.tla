----------------------------- MODULE Connections -----------------------------
(***************************************************************************)
(* The server's registry of tunnels, connected_clients.rs.                 *)
(*                                                                         *)
(* Connections holds two concurrent maps that no lock covers together:     *)
(*   clients : ClientId -> record of a connected client                    *)
(*   hosts   : full host name -> record of the client that answers for it  *)
(* Each operator below is ONE access to ONE of the maps, the unit that is  *)
(* atomic in the code (a DashMap call).  add and remove are sequences of   *)
(* such accesses; the modules that call them take the accesses one at a    *)
(* time, as tasks of a multi-threaded runtime do.                          *)
(*                                                                         *)
(* A connection draws a fresh random ClientId, so a member of Conns stands *)
(* for a websocket connection, its id and its record at once.  The record  *)
(* never changes: claim is its full host, wild its wildcard flag.          *)
(***************************************************************************)
CONSTANTS
    Conns,      \* websocket connections (and their ClientIds)
    Subs,       \* sub-domains
    Domains,    \* CONFIG.allowed_hosts
    NoConn,     \* "None" of a lookup in hosts
    NoHost      \* the claim of a connection whose hello was not accepted

Hosts == Subs \X Domains        \* full_host: sub-domain and root domain
DomainOf(h) == h[2]

ASSUME RegistryAssumption ==
    /\ NoConn \notin Conns
    /\ NoHost \notin Hosts

VARIABLES
    claim,      \* claim[c]: full_host of c's record, or NoHost
    wild,       \* wild[c]: the wildcard flag of c's record
    clients,    \* the ids registered in Connections.clients
    hosts       \* Connections.hosts; NoConn where there is no entry

record   == <<claim, wild>>
registry == <<clients, hosts>>

RegistryTypeOK ==
    /\ claim \in [Conns -> Hosts \cup {NoHost}]
    /\ wild \in [Conns -> BOOLEAN]
    /\ clients \in SUBSET Conns
    /\ hosts \in [Hosts -> Conns \cup {NoConn}]

RegistryInit ==
    /\ claim = [c \in Conns |-> NoHost]
    /\ wild = [c \in Conns |-> FALSE]
    /\ clients = {}
    /\ hosts = [h \in Hosts |-> NoConn]

(* Lookups. *)

find_by_host(h) == hosts[h]

\* The iteration order of the map is arbitrary: any member may be returned.
find_wildcard(d) == {c \in clients : wild[c] /\ DomainOf(claim[c]) = d}

Registered(c) == c \in clients

\* The id comparison of remove.
HoldsHost(c) == hosts[claim[c]] = c

(* Single updates. *)

InsertClient(c) == clients' = clients \cup {c}
InsertHost(c)   == hosts' = [hosts EXCEPT ![claim[c]] = c]
DeleteClient(c) == clients' = clients \ {c}
DeleteHost(c)   == hosts' = [hosts EXCEPT ![claim[c]] = NoConn]
=============================================================================
