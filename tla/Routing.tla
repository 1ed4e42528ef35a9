------------------------------- MODULE Routing -------------------------------
(***************************************************************************)
(* Names: how a hello comes to hold one (auth/client_auth.rs,              *)
(* auth/simple_auth.rs), what the control server lists of them             *)
(* (control_server.rs), and which client a visitor's Host header leads to  *)
(* (remote.rs).                                                            *)
(*                                                                         *)
(* A host name is the sequence of its labels, the most specific first:     *)
(* <<"a", "ex", "org">> stands for a.ex.org.  Each action is one handler   *)
(* run to its end; what happens to the registry when the accesses of       *)
(* several connections interleave is module ControlServer's.  There the    *)
(* keys of hosts are pairs of sub-domain and domain, here they are the     *)
(* names themselves: that the pairs lose nothing is FullHostInjective in   *)
(* RoutingProofs.                                                          *)
(***************************************************************************)
EXTENDS Naturals, Sequences, Functions

CONSTANTS
    Conns,          \* websocket connections; an id is drawn anew for each
    Labels,         \* labels a hello may carry; no name has a label "*"
    Lower,          \* Lower[l]: to_lowercase of a label
    AllowedHosts,   \* CONFIG.allowed_hosts, in the order of the setting
    Restricted,     \* CONFIG.blocked_sub_domains
    Wormhole,       \* the label "wormhole"
    Hellos,         \* the hellos that arrive
    VisitorHosts,   \* the Host headers of visitors, without the port
    NoClaim,        \* the record of a connection that is not registered
    NoName          \* a domain or sub-domain that a hello leaves out

Names   == Seq(Labels) \ {<<>>}
Domains == Range(AllowedHosts)

\* A hello.  sub holds the labels of the sub-domain it asks for: more than one
\* if it contains dots, which here stand for every character that is neither
\* alphanumeric nor a hyphen.  random is what random_domain would draw.  No
\* reconnect token verifies: tokens are issued to anonymous clients, and there
\* are none.
Hello == [blocked   : BOOLEAN,              \* its address is
          parses    : BOOLEAN,
          domain    : Names \cup {NoName},
          anonymous : BOOLEAN,
          sub       : Names \cup {NoName},
          random    : Labels,
          token     : BOOLEAN,              \* it carries a reconnect token
          wild      : BOOLEAN,
          key       : BOOLEAN]              \* the auth service accepts its key

\* A server without allowed hosts refuses every hello and leads no visitor on.
ASSUME RoutingAssumption ==
    /\ Lower \in [Labels -> Labels]
    /\ AllowedHosts \in Seq(Names) /\ AllowedHosts # <<>>
    /\ "*" \notin Labels
    /\ Restricted \subseteq Labels
    /\ Wormhole \in Labels
    /\ Hellos \subseteq Hello
    /\ VisitorHosts \subseteq Names
    /\ NoName \notin Names

\* What of a ConnectedClient names it.
Claim == [sub : Labels, domain : Domains, wild : BOOLEAN]

ASSUME NoClaimAssumption == NoClaim \notin Claim

VARIABLES
    claim,      \* claim[c]: the record of c, or NoClaim
    clients,    \* the ids in Connections.clients
    hosts       \* Connections.hosts, as pairs of a name and an id

vars == <<claim, clients, hosts>>

TypeOK ==
    /\ claim \in [Conns -> Claim \cup {NoClaim}]
    /\ clients \in SUBSET Conns
    /\ hosts \in SUBSET (Names \X Conns)

Init ==
    /\ claim = [c \in Conns |-> NoClaim]
    /\ clients = {}
    /\ hosts = {}

(***************************************************************************)
(* The registry.                                                           *)
(***************************************************************************)

full_host(r) == <<r.sub>> \o r.domain

\* Mutant: the domain is not looked at.
AnyWildcard(d) == {c \in clients : claim[c].wild}

find_by_host(n)  == {c \in Conns : <<n, c>> \in hosts}
find_wildcard(d) == {c \in clients : claim[c].wild /\ claim[c].domain = d}

\* Mutant: a wildcard client is listed by its own name.
TakenHosts == {full_host(claim[c]) : c \in clients}

\* GET /api/taken: of a wildcard client only its domain is listed.
Taken == {IF claim[c].wild THEN <<"*">> \o claim[c].domain
                           ELSE full_host(claim[c]) : c \in clients}

(***************************************************************************)
(* The answer to a hello.                                                  *)
(***************************************************************************)

\* What a hello asks for, with what the server fills in.
Requested(h) ==
    [sub    |-> Lower[IF h.sub = NoName THEN h.random ELSE Head(h.sub)],
     domain |-> IF h.domain = NoName THEN Head(AllowedHosts) ELSE h.domain,
     wild   |-> h.wild]

\* The checks of a hello in the order of the code, each with what is answered
\* if it fails.
HelloChecks(h) ==
    << [fails |-> h.blocked, answer |-> "Closed"],
       [fails |-> ~h.parses, answer |-> "AuthFailed"],
       [fails |-> Requested(h).domain \notin Domains,
          answer |-> "InvalidSubDomain"],
       [fails |-> h.anonymous, answer |-> "AuthFailed"],
       [fails |-> h.sub = NoName /\ h.token, answer |-> "AuthFailed"] >>

NameChecks(h) ==
    LET r == Requested(h) IN
    << [fails |-> h.sub # NoName /\ Len(h.sub) > 1,
          answer |-> "InvalidSubDomain"],
       [fails |-> r.sub \in Restricted, answer |-> "SubDomainInUse"],
       [fails |-> find_by_host(full_host(r)) # {},
          answer |-> "SubDomainInUse"],
       [fails |-> r.wild /\ find_wildcard(r.domain) # {},
          answer |-> "SubDomainInUse"] >>

\* auth_sub_domain looks up the sub-domain without its domain.
KeyChecks(h) ==
    << [fails |-> ~h.key, answer |-> "AuthFailed"],
       [fails |-> find_by_host(<<Requested(h).sub>>) # {},
          answer |-> "SubDomainInUse"] >>

Checks(h) == HelloChecks(h) \o NameChecks(h) \o KeyChecks(h)

Failing(h) == {i \in DOMAIN Checks(h) : Checks(h)[i].fails}

Answer(h) ==
    IF Failing(h) = {}
       THEN "Success"
       ELSE LET i == CHOOSE i \in Failing(h) : \A j \in Failing(h) : i <= j
            IN  Checks(h)[i].answer

(***************************************************************************)
(* Connections come and go.                                                *)
(***************************************************************************)

\* handle_new_connection; a hello that is refused changes nothing.
Connect(c, h) ==
    /\ c \notin clients
    /\ Answer(h) = "Success"
    /\ LET r == Requested(h) IN
          /\ claim' = [claim EXCEPT ![c] = r]
          /\ hosts' = {e \in hosts : e[1] # full_host(r)}
                      \cup {<<full_host(r), c>>}
    /\ clients' = clients \cup {c}

\* Mutant: the host is not withdrawn.
LeaveHost(c) ==
    /\ c \in clients
    /\ clients' = clients \ {c}
    /\ claim' = [claim EXCEPT ![c] = NoClaim]
    /\ UNCHANGED hosts

\* Connections::remove.
Leave(c) ==
    /\ c \in clients
    /\ hosts' = hosts \ {<<full_host(claim[c]), c>>}
    /\ clients' = clients \ {c}
    /\ claim' = [claim EXCEPT ![c] = NoClaim]

Next == \E c \in Conns : Leave(c) \/ \E h \in Hellos : Connect(c, h)

Spec == Init /\ [][Next]_vars

(***************************************************************************)
(* A visitor: accept_connection.                                           *)
(***************************************************************************)

\* ends_with, with a dot before what it ends with.
Under(n, d) ==
    /\ Len(d) < Len(n)
    /\ SubSeq(n, Len(n) - Len(d) + 1, Len(n)) = d

\* The allowed hosts that n lies under, by their places in the list.
Above(n) == {i \in DOMAIN AllowedHosts : Under(n, AllowedHosts[i])}

\* Mutant: the last one that matches is taken.
MatchedLast(n) ==
    AllowedHosts[CHOOSE i \in Above(n) : \A j \in Above(n) : j <= i]

\* validate_host_prefix takes the first.
Matched(n) == AllowedHosts[CHOOSE i \in Above(n) : \A j \in Above(n) : i <= j]
Prefix(n)  == SubSeq(n, 1, Len(n) - Len(Matched(n)))

\* Where a visitor ends up.
Page(p)   == <<"page", p>>
Client(c) == <<"client", c>>

\* Mutant: a wildcard client goes before the client of that very name.
WildcardFirst(n, d) ==
    IF find_wildcard(d) # {} THEN find_wildcard(d) ELSE find_by_host(n)

\* The clients that answer for the name n under the domain d.
Answering(n, d) ==
    IF find_by_host(n) # {} THEN find_by_host(n) ELSE find_wildcard(d)

\* The places a visitor of host n may be led to; more than one only if
\* find_wildcard has a choice.
accept_connection(n) ==
    CASE n \in Domains -> {Page("hello world")}
      [] n \notin Domains /\ Above(n) = {} -> {Page("invalid hostname")}
      [] n \notin Domains /\ Above(n) # {} /\ Prefix(n) = <<Wormhole>> ->
            {Page("control server")}
      [] OTHER ->
            LET found == Answering(Prefix(n) \o Matched(n), Matched(n)) IN
            IF found = {} THEN {Page("tunnel not found")}
                          ELSE {Client(c) : c \in found}

(***************************************************************************)
(* Properties.                                                             *)
(***************************************************************************)

\* Names that never lead to a tunnel, whoever has claimed them: the allowed
\* hosts themselves, and "wormhole" under the first of them that matches.
\* Neither is refused to a client that asks for it.
OutOfReach(n) == n \in Domains \/ Prefix(n) = <<Wormhole>>

\* A client's own full host, which it is told unless it is a wildcard client,
\* leads to this client and to no other, also where allowed hosts lie under
\* one another and the visitor's name is cut at another place than the
\* client's was joined.
OwnHostLeadsHome ==
    \A c \in clients :
        LET n == full_host(claim[c]) IN
        OutOfReach(n) \/ accept_connection(n) = {Client(c)}

\* The first allowed host a name lies under is the domain d.
CutAt(n, d) ==
    Under(n, d) /\ \A i \in Above(n) : \E j \in 1 .. i : AllowedHosts[j] = d

\* A wildcard client gets every visitor of its domain that no client has
\* claimed by name, but for those whose name is out of reach or lies under
\* an allowed host that is listed before the domain.
WildcardAnswersDomain ==
    \A c \in clients : \A n \in VisitorHosts :
        claim[c].wild /\ CutAt(n, claim[c].domain) =>
            \/ accept_connection(n) = {Client(c)}
            \/ OutOfReach(n)
            \/ \E e \in clients : full_host(claim[e]) = n

\* A visitor is led to a client only if this client has claimed the visitor's
\* host, or is the wildcard client of a domain over it while nobody has; and
\* never is there a choice between two.
NoStranger ==
    \A n \in VisitorHosts : \A c \in Conns :
        Client(c) \in accept_connection(n) =>
            /\ accept_connection(n) = {Client(c)}
            /\ c \in clients
            /\ \/ full_host(claim[c]) = n
               \/ /\ claim[c].wild /\ Under(n, claim[c].domain)
                  /\ \A e \in clients : full_host(claim[e]) # n

\* The name, or the domain, a hello asks for is on the list of taken names.
IsListed(r) ==
    full_host(r) \in Taken \/ (r.wild /\ <<"*">> \o r.domain \in Taken)

\* What GET /api/taken lists is not given out again, and a well-formed request
\* with the right key for a name that is not listed is refused only if the
\* sub-domain is restricted or is the one a wildcard client has behind its
\* "*": that one is taken and never listed.
TakenTellsAnswer ==
    \A h \in Hellos :
        LET r == Requested(h) IN
        /\ IsListed(r) => Answer(h) # "Success"
        /\ Answer(h) = "SubDomainInUse" =>
              \/ IsListed(r) \/ r.sub \in Restricted
              \/ \E c \in clients :
                    claim[c].wild /\ full_host(claim[c]) = full_host(r)

(***************************************************************************)
(* The inductive invariant behind them.                                    *)
(***************************************************************************)

\* Every registered client holds the entry of its full host, the map has no
\* other entries, no two clients share a full host, and no two wildcard
\* clients a domain.
IInv ==
    /\ TypeOK
    /\ \A c \in Conns : c \in clients <=> claim[c] # NoClaim
    /\ hosts = {<<full_host(claim[c]), c>> : c \in clients}
    /\ \A c, e \in clients :
          c # e => /\ full_host(claim[c]) # full_host(claim[e])
                   /\ claim[c].wild /\ claim[e].wild =>
                         claim[c].domain # claim[e].domain
=============================================================================
