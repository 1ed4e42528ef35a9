---------------------------- MODULE RoutingProofs ----------------------------
(* Proofs about Routing, for any connections, labels, allowed hosts, hellos  *)
(* and visitors.                                                             *)
EXTENDS Routing, SequenceTheorems, WellFoundedInduction, TLAPS

-----------------------------------------------------------------------------
(* Names and how they are joined and cut.                                   *)

LEMMA NameFacts ==
    /\ Names = {n \in Seq(Labels) : Len(n) > 0}
    /\ Domains \subseteq Names
    /\ DOMAIN AllowedHosts = 1 .. Len(AllowedHosts)
    /\ Len(AllowedHosts) \in Nat
    /\ \A i \in DOMAIN AllowedHosts :
          AllowedHosts[i] \in Names /\ AllowedHosts[i] \in Domains
    /\ \A d \in Domains : \E i \in DOMAIN AllowedHosts : AllowedHosts[i] = d
<1>1. Names = {n \in Seq(Labels) : Len(n) > 0}
  BY DEF Names
<1>2. DOMAIN AllowedHosts = 1 .. Len(AllowedHosts) /\ Len(AllowedHosts) \in Nat
  BY RoutingAssumption
<1>3. \A i \in DOMAIN AllowedHosts : AllowedHosts[i] \in Names
  BY RoutingAssumption, <1>2
<1> QED
  BY <1>1, <1>2, <1>3 DEF Domains, Range

\* Two names with the same first label are one only if the rest is one.
LEMMA SameTail ==
  ASSUME NEW x, NEW d \in Seq(Labels), NEW e \in Seq(Labels),
         <<x>> \o d = <<x>> \o e
  PROVE  d = e
<1>1. Len(d) = Len(e)
  <2>1. Len(<<x>> \o d) = 1 + Len(d) /\ Len(<<x>> \o e) = 1 + Len(e)
    OBVIOUS
  <2> QED
    BY <2>1
<1>2. ASSUME NEW i \in 1 .. Len(d)
      PROVE  d[i] = e[i]
  <2>1. (<<x>> \o d)[i + 1] = d[i] /\ (<<x>> \o e)[i + 1] = e[i]
    BY <1>1
  <2> QED
    BY <2>1
<1> QED
  BY <1>1, <1>2

\* The keys of ControlServer, pairs of a sub-domain and a domain, stand for the
\* host names of the code: full_host joins the two, and different pairs give
\* different names as long as a sub-domain is one label.
THEOREM FullHostInjective ==
  ASSUME NEW r \in Claim, NEW q \in Claim, full_host(r) = full_host(q)
  PROVE  r.sub = q.sub /\ r.domain = q.domain
<1>1. /\ r.sub \in Labels /\ q.sub \in Labels
      /\ r.domain \in Seq(Labels) /\ q.domain \in Seq(Labels)
  BY NameFacts DEF Claim
<1>2. full_host(r)[1] = r.sub /\ full_host(q)[1] = q.sub
  BY <1>1 DEF full_host
<1>3. r.sub = q.sub
  BY <1>2
<1>4. r.domain = q.domain
  BY <1>1, <1>3, SameTail DEF full_host
<1> QED
  BY <1>3, <1>4

\* A full host is a name.
LEMMA FullHostIsName ==
  ASSUME NEW r \in Claim
  PROVE  /\ full_host(r) \in Names
         /\ Under(full_host(r), r.domain)
<1>1. r.sub \in Labels /\ r.domain \in Seq(Labels) /\ r.domain \in Domains
      /\ Len(r.domain) > 0
  BY NameFacts DEF Claim
<1>2. /\ full_host(r) \in Seq(Labels)
      /\ Len(full_host(r)) = 1 + Len(r.domain)
  BY <1>1 DEF full_host
<1>3. SubSeq(full_host(r), 2, 1 + Len(r.domain)) = r.domain
  BY <1>1 DEF full_host
<1> QED
  BY <1>1, <1>2, <1>3, NameFacts DEF Under

\* A set of numbers has a least one.
LEMMA LeastNat ==
  ASSUME NEW T, T \subseteq Nat, T # {}
  PROVE  \E i \in T : \A j \in T : i <= j
<1>1. PICK i \in T : \A j \in T : <<j, i>> \notin OpToRel(<, Nat)
  BY WFMin, NatLessThanWellFounded
<1>2. OpToRel(<, Nat) = {ss \in Nat \X Nat : ss[1] < ss[2]}
  BY Zenon DEF OpToRel
<1>3. ASSUME NEW j \in T, j < i
      PROVE  FALSE
  <2>1. <<j, i>> \in {ss \in Nat \X Nat : ss[1] < ss[2]}
    BY <1>3
  <2> QED
    BY <1>1, <1>2, <2>1
<1> QED
  BY <1>3

\* Of the allowed hosts a name lies under there is a first one.
LEMMA FirstAbove ==
  ASSUME NEW n, Above(n) # {}
  PROVE  \E i \in Above(n) : /\ \A j \in Above(n) : i <= j
                             /\ Matched(n) = AllowedHosts[i]
<1>1. Above(n) \subseteq Nat
  BY NameFacts DEF Above
<1>2. PICK i \in Above(n) : \A j \in Above(n) : i <= j
  BY <1>1, LeastNat
<1>3. \A k \in Above(n) : (\A j \in Above(n) : k <= j) => k = i
  BY <1>1, <1>2
<1> QED
  BY <1>2, <1>3 DEF Matched

\* What a visitor's host is cut into gives the host again.
LEMMA CutIsWhole ==
  ASSUME NEW n \in Names, Above(n) # {}
  PROVE  /\ Matched(n) \in Domains
         /\ Under(n, Matched(n))
         /\ Prefix(n) \o Matched(n) = n
<1>1. PICK i \in Above(n) : Matched(n) = AllowedHosts[i]
  BY FirstAbove
<1>2. Matched(n) \in Domains /\ Matched(n) \in Seq(Labels) /\ Under(n, Matched(n))
  BY <1>1, NameFacts DEF Above
<1> DEFINE k == Len(n) - Len(Matched(n))
<1>3. /\ n \in Seq(Labels) /\ k \in Nat /\ k < Len(n)
      /\ Matched(n) = SubSeq(n, k + 1, Len(n))
      /\ Len(Matched(n)) = Len(n) - k
  BY <1>2, NameFacts DEF Under
<1>4. SubSeq(n, 1, k) \o SubSeq(n, k + 1, Len(n)) = n
  <2>1. Len(n) \in Nat
    BY <1>3
  <2>2. SubSeq(n, 1, k) \o SubSeq(n, k + 1, Len(n)) = SubSeq(n, 1, Len(n))
    <3> HIDE DEF k
    <3>1. /\ 1 \in 1 .. Len(n) + 1
          /\ k \in 1 - 1 .. Len(n)
          /\ Len(n) \in k .. Len(n)
      BY <1>3, <2>1
    <3> QED
      BY <1>3, <3>1, ConcatAdjacentSubSeq, Zenon
  <2> QED
    BY <1>3, <2>2, SubSeqFull
<1> QED
  BY <1>2, <1>3, <1>4 DEF Prefix

-----------------------------------------------------------------------------
(* What is known of a hello that is answered with Success.                  *)

\* A check that fails is found, and none of them is answered with Success.
LEMMA NoneFails ==
  ASSUME NEW h, Answer(h) = "Success"
  PROVE  Failing(h) = {}
<1> SUFFICES ASSUME Failing(h) # {} PROVE FALSE
  OBVIOUS
<1>1. /\ DOMAIN Checks(h) = 1 .. 11
      /\ \A i \in 1 .. 11 : Checks(h)[i].answer # "Success"
  BY DEF Checks, HelloChecks, NameChecks, KeyChecks
<1>2. PICK i \in Failing(h) : \A j \in Failing(h) : i <= j
  <2>1. Failing(h) \subseteq Nat
    BY <1>1 DEF Failing
  <2> QED
    BY <2>1, LeastNat
<1> QED
  BY <1>1, <1>2 DEF Answer, Failing

\* What is known of a hello that is answered with success.
LEMMA Accepted ==
  ASSUME NEW h \in Hellos, Answer(h) = "Success"
  PROVE  /\ Requested(h) \in Claim
         /\ find_by_host(full_host(Requested(h))) = {}
         /\ Requested(h).wild => find_wildcard(Requested(h).domain) = {}
<1> DEFINE r == Requested(h)
<1>1. \A i \in DOMAIN Checks(h) : ~Checks(h)[i].fails
  BY NoneFails DEF Failing
<1>2. /\ DOMAIN Checks(h) = 1 .. 11
      /\ Checks(h)[3].fails <=> r.domain \notin Domains
      /\ Checks(h)[8].fails <=> find_by_host(full_host(r)) # {}
      /\ Checks(h)[9].fails <=> r.wild /\ find_wildcard(r.domain) # {}
  <2>1. /\ DOMAIN Checks(h) = 1 .. 11
        /\ Checks(h)[3] = HelloChecks(h)[3]
        /\ Checks(h)[8] = NameChecks(h)[3]
        /\ Checks(h)[9] = NameChecks(h)[4]
    BY DEF Checks, HelloChecks, NameChecks, KeyChecks
  <2>2. HelloChecks(h)[3].fails = (r.domain \notin Domains)
    BY DEF HelloChecks
  <2>3. NameChecks(h)[3].fails = (find_by_host(full_host(r)) # {})
    BY DEF NameChecks
  <2>4. NameChecks(h)[4].fails = (r.wild /\ find_wildcard(r.domain) # {})
    BY DEF NameChecks
  <2> QED
    BY <2>1, <2>2, <2>3, <2>4, Zenon
<1>3. r.sub \in Labels /\ r.wild \in BOOLEAN
  BY RoutingAssumption, NameFacts DEF Requested, Hello
<1> QED
  BY <1>1, <1>2, <1>3 DEF Claim, Requested

-----------------------------------------------------------------------------
(* The inductive invariant.                                                 *)

\* At the start nobody is registered.
THEOREM InitIInv == Init => IInv
  BY DEF Init, IInv, TypeOK

\* A hello that is accepted adds one entry: its name was free, and its domain
\* if it asks for the wildcard.
LEMMA ConnectKept ==
  ASSUME IInv, NEW c \in Conns, NEW h \in Hellos, Connect(c, h)
  PROVE  IInv'
<1> DEFINE r == Requested(h)
<1>1. /\ r \in Claim /\ full_host(r) \in Names
      /\ find_by_host(full_host(r)) = {}
      /\ r.wild => find_wildcard(r.domain) = {}
  BY Accepted, FullHostIsName DEF Connect
<1>2. /\ claim' = [claim EXCEPT ![c] = r]
      /\ clients' = clients \cup {c}
      /\ hosts' = {e \in hosts : e[1] # full_host(r)} \cup {<<full_host(r), c>>}
      /\ c \notin clients
  BY DEF Connect
<1>3. /\ claim \in [Conns -> Claim \cup {NoClaim}] /\ clients \subseteq Conns
      /\ hosts \subseteq Names \X Conns
      /\ hosts = {<<full_host(claim[e]), e>> : e \in clients}
      /\ \A e \in Conns : e \in clients <=> claim[e] # NoClaim
  BY DEF IInv, TypeOK
<1> HIDE DEF r
<1>4. /\ claim'[c] = r
      /\ \A e \in clients : claim'[e] = claim[e] /\ claim[e] \in Claim /\ e # c
  BY <1>2, <1>3
<1>5. \A e \in clients : full_host(claim[e]) # full_host(r)
  BY <1>1, <1>3 DEF find_by_host
<1>6. TypeOK'
  BY <1>1, <1>2, <1>3 DEF TypeOK
<1>7. \A e \in Conns : e \in clients' <=> claim'[e] # NoClaim
  BY <1>1, <1>2, <1>3, NoClaimAssumption
<1>8. hosts' = {<<full_host(claim'[e]), e>> : e \in clients'}
  <2>1. {e \in hosts : e[1] # full_host(r)} = hosts
    BY <1>3, <1>5
  <2>2. {<<full_host(claim'[e]), e>> : e \in clients} = hosts
    BY <1>3, <1>4
  <2> QED
    BY <1>2, <1>4, <2>1, <2>2
<1>9. ASSUME NEW d \in clients', NEW e \in clients', d # e
      PROVE  /\ full_host(claim'[d]) # full_host(claim'[e])
             /\ claim'[d].wild /\ claim'[e].wild =>
                   claim'[d].domain # claim'[e].domain
  <2>1. CASE d \in clients /\ e \in clients
    BY <1>4, <1>9, <2>1 DEF IInv
  <2>2. CASE d = c
    <3>1. e \in clients
      BY <1>2, <1>9, <2>2
    <3>2. ~(r.wild /\ claim[e].wild /\ claim[e].domain = r.domain)
      BY <1>1, <3>1 DEF find_wildcard
    <3> QED
      BY <1>4, <1>5, <2>2, <3>1, <3>2
  <2>3. CASE e = c
    <3>1. d \in clients
      BY <1>2, <1>9, <2>3
    <3>2. ~(r.wild /\ claim[d].wild /\ claim[d].domain = r.domain)
      BY <1>1, <3>1 DEF find_wildcard
    <3> QED
      BY <1>4, <1>5, <2>3, <3>1, <3>2
  <2> QED
    BY <1>2, <2>1, <2>2, <2>3
<1> QED
  BY <1>6, <1>7, <1>8, <1>9 DEF IInv

\* What leaves takes its own entry along and nobody else's.
LEMMA LeaveKept ==
  ASSUME IInv, NEW c \in Conns, Leave(c)
  PROVE  IInv'
<1>1. /\ claim' = [claim EXCEPT ![c] = NoClaim]
      /\ clients' = clients \ {c}
      /\ hosts' = hosts \ {<<full_host(claim[c]), c>>}
      /\ c \in clients
  BY DEF Leave
<1>2. /\ claim \in [Conns -> Claim \cup {NoClaim}] /\ clients \subseteq Conns
      /\ hosts \subseteq Names \X Conns
      /\ hosts = {<<full_host(claim[e]), e>> : e \in clients}
      /\ \A e \in Conns : e \in clients <=> claim[e] # NoClaim
  BY DEF IInv, TypeOK
<1>3. \A e \in clients' : claim'[e] = claim[e] /\ e \in clients /\ e # c
  BY <1>1, <1>2
<1>4. TypeOK'
  BY <1>1, <1>2 DEF TypeOK
<1>5. \A e \in Conns : e \in clients' <=> claim'[e] # NoClaim
  BY <1>1, <1>2
<1>6. hosts' = {<<full_host(claim'[e]), e>> : e \in clients'}
  BY <1>1, <1>2, <1>3
<1>7. \A d, e \in clients' :
         d # e => /\ full_host(claim'[d]) # full_host(claim'[e])
                  /\ claim'[d].wild /\ claim'[e].wild =>
                        claim'[d].domain # claim'[e].domain
  BY <1>3 DEF IInv
<1> QED
  BY <1>4, <1>5, <1>6, <1>7 DEF IInv

\* A hello that is accepted, and a client that leaves, preserve it.
THEOREM StepIInv == IInv /\ [Next]_vars => IInv'
<1> SUFFICES ASSUME IInv, [Next]_vars PROVE IInv'
  OBVIOUS
<1>1. CASE UNCHANGED vars
  BY <1>1 DEF vars, IInv, TypeOK
<1>2. ASSUME NEW c \in Conns, Leave(c) PROVE IInv'
  BY <1>2, LeaveKept
<1>3. ASSUME NEW c \in Conns, NEW h \in Hellos, Connect(c, h) PROVE IInv'
  BY <1>3, ConnectKept
<1> QED
  BY <1>1, <1>2, <1>3 DEF Next

\* The map of hosts has the entries of the registered clients and no others,
\* and no two clients hold one name, or one domain as wildcard clients.
THEOREM InductiveInvariant == Spec => []IInv
  BY InitIInv, StepIInv, PTL DEF Spec

\* The records, the ids and the entries stay in their ranges.
THEOREM TypeCorrect == Spec => []TypeOK
<1>1. IInv => TypeOK
  BY DEF IInv
<1> QED
  BY <1>1, InductiveInvariant, PTL

-----------------------------------------------------------------------------
(* What the invariant says of lookups.                                      *)

LEMMA Lookup ==
  ASSUME IInv
  PROVE  /\ \A c \in clients : c \in Conns /\ claim[c] \in Claim
         /\ \A n : find_by_host(n) = {c \in clients : full_host(claim[c]) = n}
         /\ \A n : \A c, e \in find_by_host(n) : c = e
         /\ \A d : \A c, e \in find_wildcard(d) : c = e
<1>1. /\ claim \in [Conns -> Claim \cup {NoClaim}] /\ clients \subseteq Conns
      /\ hosts = {<<full_host(claim[e]), e>> : e \in clients}
      /\ \A e \in Conns : e \in clients <=> claim[e] # NoClaim
      /\ \A c, e \in clients :
            c # e => /\ full_host(claim[c]) # full_host(claim[e])
                     /\ claim[c].wild /\ claim[e].wild =>
                           claim[c].domain # claim[e].domain
  BY DEF IInv, TypeOK
<1>2. \A c \in clients : c \in Conns /\ claim[c] \in Claim
  BY <1>1
<1>3. ASSUME NEW n
      PROVE  find_by_host(n) = {c \in clients : full_host(claim[c]) = n}
  <2>1. \A c \in Conns : <<n, c>> \in hosts <=>
                             c \in clients /\ full_host(claim[c]) = n
    BY <1>1
  <2> QED
    BY <1>1, <2>1 DEF find_by_host
<1>4. \A n : \A c, e \in find_by_host(n) : c = e
  BY <1>1, <1>3
<1>5. \A d : \A c, e \in find_wildcard(d) : c = e
  BY <1>1 DEF find_wildcard
<1> QED
  BY <1>2, <1>3, <1>4, <1>5

\* A visitor is led to the clients that answer for its host, unless the host
\* is an allowed one, lies under none, or is the control server's.
LEMMA LedTo ==
  ASSUME NEW n \in Names, NEW c
  PROVE  /\ Client(c) \in accept_connection(n) =>
               /\ ~OutOfReach(n) /\ Above(n) # {}
               /\ c \in Answering(n, Matched(n))
         /\ ~OutOfReach(n) /\ Above(n) # {} /\ Answering(n, Matched(n)) = {c} =>
               accept_connection(n) = {Client(c)}
<1> DEFINE A == Answering(n, Matched(n))
<1>1. Above(n) # {} => Prefix(n) \o Matched(n) = n
  BY CutIsWhole
<1>2. \A p : Client(c) # Page(p)
  BY DEF Client, Page
<1>3. ~OutOfReach(n) /\ Above(n) # {} =>
         accept_connection(n) = IF A = {} THEN {Page("tunnel not found")}
                                          ELSE {Client(e) : e \in A}
  BY <1>1, Zenon DEF accept_connection, OutOfReach
<1>4. Client(c) \in accept_connection(n) => ~OutOfReach(n) /\ Above(n) # {}
  BY <1>2, Zenon DEF accept_connection, OutOfReach
<1>5. \A e : Client(c) = Client(e) => c = e
  BY DEF Client
<1> HIDE DEF A
<1>6. ASSUME Client(c) \in accept_connection(n)
      PROVE  c \in A
  <2>1. Client(c) \in {Client(e) : e \in A}
    BY <1>2, <1>3, <1>4, <1>6
  <2> QED
    BY <1>5, <2>1
<1>7. A = {c} => {Client(e) : e \in A} = {Client(c)} /\ A # {}
  OBVIOUS
<1> QED
  BY <1>3, <1>4, <1>6, <1>7 DEF A

-----------------------------------------------------------------------------
(* The properties.                                                          *)

\* A client's own host leads to it and to nobody else, however the allowed
\* hosts lie under one another.
THEOREM OwnHostHome == Spec => []OwnHostLeadsHome
<1>1. IInv => OwnHostLeadsHome
  <2> SUFFICES ASSUME IInv, NEW c \in clients, ~OutOfReach(full_host(claim[c]))
               PROVE  accept_connection(full_host(claim[c])) = {Client(c)}
    BY DEF OwnHostLeadsHome
  <2> DEFINE n == full_host(claim[c])
  <2>1. claim[c] \in Claim /\ n \in Names
    BY Lookup, FullHostIsName
  <2>2. Above(n) # {}
    <3>1. Under(n, claim[c].domain) /\ claim[c].domain \in Domains
      BY <2>1, FullHostIsName DEF Claim
    <3>2. PICK i \in DOMAIN AllowedHosts : AllowedHosts[i] = claim[c].domain
      BY <3>1, NameFacts
    <3> QED
      BY <3>1, <3>2 DEF Above
  <2>3. Answering(n, Matched(n)) = {c}
    <3>1. c \in find_by_host(n) /\ \A e \in find_by_host(n) : e = c
      BY Lookup
    <3> QED
      BY <3>1 DEF Answering
  <2> QED
    BY <2>1, <2>2, <2>3, LedTo
<1> QED
  BY <1>1, InductiveInvariant, PTL

\* A visitor reaches a client only by the client's name or, when nobody has
\* the name, as a guest of the one wildcard client of a domain over it.
THEOREM NobodyElseAnswers == Spec => []NoStranger
<1>1. IInv => NoStranger
  <2> SUFFICES ASSUME IInv, NEW n \in VisitorHosts, NEW c \in Conns,
                      Client(c) \in accept_connection(n)
               PROVE  /\ accept_connection(n) = {Client(c)}
                      /\ c \in clients
                      /\ \/ full_host(claim[c]) = n
                         \/ /\ claim[c].wild /\ Under(n, claim[c].domain)
                            /\ \A e \in clients : full_host(claim[e]) # n
    BY DEF NoStranger
  <2>1. n \in Names
    BY RoutingAssumption
  <2>2. /\ ~OutOfReach(n) /\ Above(n) # {} /\ c \in Answering(n, Matched(n))
        /\ Under(n, Matched(n))
    BY <2>1, LedTo, CutIsWhole
  <2>3. \A e \in Answering(n, Matched(n)) : e = c
    BY <2>2, Lookup DEF Answering
  <2>4. accept_connection(n) = {Client(c)}
    BY <2>1, <2>2, <2>3, LedTo
  <2>5. CASE find_by_host(n) # {}
    BY <2>2, <2>4, <2>5, Lookup DEF Answering
  <2>6. CASE find_by_host(n) = {}
    <3>1. c \in clients /\ claim[c].wild /\ claim[c].domain = Matched(n)
      BY <2>2, <2>6 DEF Answering, find_wildcard
    <3>2. \A e \in clients : full_host(claim[e]) # n
      BY <2>6, Lookup
    <3> QED
      BY <2>2, <2>4, <3>1, <3>2
  <2> QED
    BY <2>5, <2>6
<1> QED
  BY <1>1, InductiveInvariant, PTL

\* A wildcard client misses none of the visitors its domain promises it.
THEOREM WildcardComplete == Spec => []WildcardAnswersDomain
<1>1. IInv => WildcardAnswersDomain
  <2> SUFFICES ASSUME IInv, NEW c \in clients, NEW n \in VisitorHosts,
                      claim[c].wild, CutAt(n, claim[c].domain),
                      ~OutOfReach(n),
                      ~\E e \in clients : full_host(claim[e]) = n
               PROVE  accept_connection(n) = {Client(c)}
    BY DEF WildcardAnswersDomain
  <2> DEFINE d == claim[c].domain
  <2>1. n \in Names /\ d \in Domains /\ Under(n, d)
    BY RoutingAssumption, Lookup DEF Claim, CutAt
  <2>2. Above(n) # {}
    BY <2>1, NameFacts DEF Above
  <2>3. Matched(n) = d
    <3>1. PICK i \in Above(n) : /\ \A j \in Above(n) : i <= j
                                /\ Matched(n) = AllowedHosts[i]
      BY <2>2, FirstAbove
    <3>2. PICK j \in 1 .. i : AllowedHosts[j] = d
      BY <3>1 DEF CutAt
    <3>3. i \in 1 .. Len(AllowedHosts) /\ Len(AllowedHosts) \in Nat
      BY <3>1, NameFacts DEF Above
    <3>4. j \in Above(n)
      BY <2>1, <3>2, <3>3, NameFacts DEF Above
    <3> QED
      BY <3>1, <3>2, <3>3, <3>4
  <2>4. find_by_host(n) = {} /\ c \in find_wildcard(d)
    BY Lookup DEF find_wildcard
  <2>5. Answering(n, Matched(n)) = {c}
    BY <2>3, <2>4, Lookup DEF Answering
  <2> QED
    BY <2>1, <2>2, <2>5, LedTo
<1> QED
  BY <1>1, InductiveInvariant, PTL

\* No entry is under a bare sub-domain: a full host has a domain behind it.
LEMMA BareSubUnlisted ==
  ASSUME IInv
  PROVE  \A l : find_by_host(<<l>>) = {}
<1>1. \A c \in clients : claim[c].domain \in Seq(Labels) /\ Len(claim[c].domain) > 0
  BY Lookup, NameFacts DEF Claim
<1>2. \A c \in clients : Len(full_host(claim[c])) # 1
  BY <1>1 DEF full_host
<1>3. ASSUME NEW l, NEW c \in clients
      PROVE  full_host(claim[c]) # <<l>>
  <2>1. PICK t : t = <<l>>
    OBVIOUS
  <2>2. Len(t) = 1
    BY <2>1
  <2>3. Len(full_host(claim[c])) # 1
    BY <1>2
  <2> QED
    BY <2>1, <2>2, <2>3, Zenon
<1> QED
  BY <1>3, Lookup

\* The registry check of auth_sub_domain, which looks the bare sub-domain up,
\* never finds anybody: whether a name is free is decided before the key is
\* looked at.
THEOREM KeyCheckFindsNobody ==
    Spec => [](\A h \in Hellos : find_by_host(<<Requested(h).sub>>) = {})
<1>1. IInv => \A h \in Hellos : find_by_host(<<Requested(h).sub>>) = {}
  BY BareSubUnlisted
<1> QED
  BY <1>1, InductiveInvariant, PTL

\* A name is in use exactly for the reasons the list of taken names gives,
\* but for restricted names and the ones behind a "*".
LEMMA InUse ==
  ASSUME IInv, NEW h \in Hellos, Answer(h) = "SubDomainInUse"
  PROVE  LET r == Requested(h) IN
         \/ r.sub \in Restricted
         \/ \E c \in clients : full_host(claim[c]) = full_host(r)
         \/ r.wild /\ \E c \in clients : claim[c].wild /\ claim[c].domain = r.domain
<1> DEFINE r == Requested(h)
<1>1. PICK i \in Failing(h) : Checks(h)[i].answer = "SubDomainInUse"
  <2>1. Failing(h) # {} /\ Failing(h) \subseteq Nat
    <3>1. DOMAIN Checks(h) = 1 .. 11
      BY DEF Checks, HelloChecks, NameChecks, KeyChecks
    <3>2. Failing(h) # {}
      BY DEF Answer
    <3> QED
      BY <3>1, <3>2 DEF Failing
  <2>2. \E i \in Failing(h) : \A j \in Failing(h) : i <= j
    BY <2>1, LeastNat
  <2> QED
    BY <2>1, <2>2 DEF Answer
<1>2. /\ DOMAIN Checks(h) = 1 .. 11
      /\ \A j \in 1 .. 11 : Checks(h)[j].answer = "SubDomainInUse" =>
                               j \in {7, 8, 9, 11}
      /\ Checks(h)[7] = NameChecks(h)[2] /\ Checks(h)[8] = NameChecks(h)[3]
      /\ Checks(h)[9] = NameChecks(h)[4] /\ Checks(h)[11] = KeyChecks(h)[2]
  BY DEF Checks, HelloChecks, NameChecks, KeyChecks
<1>3. i \in {7, 8, 9, 11} /\ Checks(h)[i].fails
  BY <1>1, <1>2 DEF Failing
<1>4. NameChecks(h)[2].fails = (r.sub \in Restricted)
  BY DEF NameChecks
<1>5. NameChecks(h)[3].fails = (find_by_host(full_host(r)) # {})
  BY DEF NameChecks
<1>6. NameChecks(h)[4].fails = (r.wild /\ find_wildcard(r.domain) # {})
  BY DEF NameChecks
<1>7. KeyChecks(h)[2].fails = (find_by_host(<<r.sub>>) # {})
  BY DEF KeyChecks
<1>8. find_by_host(<<r.sub>>) = {}
  BY BareSubUnlisted
<1>9. find_by_host(full_host(r)) # {} =>
         \E c \in clients : full_host(claim[c]) = full_host(r)
  BY Lookup
<1>10. find_wildcard(r.domain) # {} =>
         \E c \in clients : claim[c].wild /\ claim[c].domain = r.domain
  BY DEF find_wildcard
<1>11. CASE i = 7
  BY <1>2, <1>3, <1>4, <1>11
<1>12. CASE i = 8
  BY <1>2, <1>3, <1>5, <1>9, <1>12
<1>13. CASE i = 9
  BY <1>2, <1>3, <1>6, <1>10, <1>13
<1>14. CASE i = 11
  BY <1>2, <1>3, <1>7, <1>8, <1>14
<1> QED
  BY <1>3, <1>11, <1>12, <1>13, <1>14

\* No listed name is given out, and a name that is refused although it is not
\* listed is restricted or a wildcard client's own.
THEOREM TakenIsHonest == Spec => []TakenTellsAnswer
<1>1. IInv => TakenTellsAnswer
  <2> SUFFICES ASSUME IInv, NEW h \in Hellos
               PROVE  LET r == Requested(h) IN
                      /\ IsListed(r) => Answer(h) # "Success"
                      /\ Answer(h) = "SubDomainInUse" =>
                            \/ IsListed(r) \/ r.sub \in Restricted
                            \/ \E c \in clients :
                                  claim[c].wild /\ full_host(claim[c]) = full_host(r)
    BY DEF TakenTellsAnswer
  <2> DEFINE r == Requested(h)
  <2>1. ASSUME Answer(h) = "Success", IsListed(r)
        PROVE  FALSE
    <3>1. /\ r \in Claim /\ find_by_host(full_host(r)) = {}
          /\ r.wild => find_wildcard(r.domain) = {}
      BY <2>1, Accepted
    <3> DEFINE Star(d) == <<"*">> \o d
    <3>2. \A q \in Claim : \A p \in Claim : full_host(q) # Star(p.domain)
      <4> SUFFICES ASSUME NEW q \in Claim, NEW p \in Claim,
                          full_host(q) = Star(p.domain)
                   PROVE  FALSE
        OBVIOUS
      <4>1. /\ q.sub \in Labels /\ q.domain \in Seq(Labels)
            /\ p.domain \in Seq(Labels) /\ "*" \notin Labels
        BY NameFacts, RoutingAssumption DEF Claim
      <4>2. full_host(q)[1] = q.sub
        BY <4>1 DEF full_host
      <4>3. Star(p.domain)[1] = "*"
        BY <4>1
      <4> QED
        BY <4>1, <4>2, <4>3
    <3>3. \A p \in Claim : Star(p.domain) = Star(r.domain) => p.domain = r.domain
      <4> SUFFICES ASSUME NEW p \in Claim, Star(p.domain) = Star(r.domain)
                   PROVE  p.domain = r.domain
        OBVIOUS
      <4>1. p.domain \in Seq(Labels) /\ r.domain \in Seq(Labels)
        BY <3>1, NameFacts DEF Claim
      <4> QED
        BY <4>1, SameTail
    <3>4. CASE full_host(r) \in Taken
      <4>1. PICK c \in clients :
               full_host(r) = IF claim[c].wild THEN Star(claim[c].domain)
                                               ELSE full_host(claim[c])
        BY <3>4 DEF Taken
      <4>2. claim[c] \in Claim
        BY Lookup
      <4>3. full_host(r) = full_host(claim[c])
        BY <3>1, <3>2, <4>1, <4>2
      <4> QED
        BY <3>1, <4>3, Lookup
    <3>5. CASE r.wild /\ Star(r.domain) \in Taken
      <4>1. PICK c \in clients :
               Star(r.domain) = IF claim[c].wild THEN Star(claim[c].domain)
                                                 ELSE full_host(claim[c])
        BY <3>5 DEF Taken
      <4>2. claim[c] \in Claim
        BY Lookup
      <4>3. claim[c].wild /\ claim[c].domain = r.domain
        BY <3>1, <3>2, <3>3, <4>1, <4>2
      <4>4. c \in find_wildcard(r.domain)
        BY <4>3 DEF find_wildcard
      <4> QED
        BY <3>1, <3>5, <4>4
    <3> QED
      BY <2>1, <3>4, <3>5 DEF IsListed
  <2>2. ASSUME Answer(h) = "SubDomainInUse"
        PROVE  \/ IsListed(r) \/ r.sub \in Restricted
               \/ \E c \in clients :
                     claim[c].wild /\ full_host(claim[c]) = full_host(r)
    <3>1. \A c \in clients : ~claim[c].wild => full_host(claim[c]) \in Taken
      BY DEF Taken
    <3>2. \A c \in clients : claim[c].wild => <<"*">> \o claim[c].domain \in Taken
      BY DEF Taken
    <3> QED
      BY <2>2, <3>1, <3>2, InUse DEF IsListed
  <2> QED
    BY <2>1, <2>2
<1> QED
  BY <1>1, InductiveInvariant, PTL

\* A name passes to another client only through the leaving of the one that has
\* it: when handlers do not interleave, sub-domains are first come, first
\* served, as the README of the repository has it.
PassedOnByLeaving ==
    [][\A n \in Names : \A c \in Conns :
          c \in find_by_host(n) =>
              /\ find_by_host(n)' \subseteq {c}
              /\ c \in clients' => c \in find_by_host(n)']_vars

\* Hello by hello and removal by removal, nobody takes a name from its holder;
\* only the interleaving of ControlServer lets that happen.
THEOREM FirstComeHolds == Spec => PassedOnByLeaving
<1> DEFINE Passed ==
      \A n \in Names : \A c \in Conns :
          c \in find_by_host(n) =>
              /\ find_by_host(n)' \subseteq {c}
              /\ c \in clients' => c \in find_by_host(n)'
<1>1. ASSUME IInv, Next, NEW n \in Names, NEW c \in Conns, c \in find_by_host(n)
      PROVE  /\ find_by_host(n)' \subseteq {c}
             /\ c \in clients' => c \in find_by_host(n)'
  <2>1. \A e \in Conns : <<n, e>> \in hosts => e = c
    BY <1>1, Lookup DEF find_by_host
  <2>2. <<n, c>> \in hosts /\ c \in clients /\ full_host(claim[c]) = n
    BY <1>1, Lookup DEF find_by_host
  <2>3. ASSUME NEW d \in Conns, NEW h \in Hellos, Connect(d, h)
        PROVE  \A e \in Conns : <<n, e>> \in hosts' <=> <<n, e>> \in hosts
    <3>1. find_by_host(full_host(Requested(h))) = {}
      BY <2>3, Accepted DEF Connect
    <3>2. full_host(Requested(h)) # n
      BY <1>1, <3>1
    <3>3. hosts' = {e \in hosts : e[1] # full_host(Requested(h))}
                   \cup {<<full_host(Requested(h)), d>>}
      BY <2>3 DEF Connect
    <3> QED
      BY <3>2, <3>3
  <2>4. ASSUME NEW d \in Conns, Leave(d)
        PROVE  /\ \A e \in Conns : <<n, e>> \in hosts' => <<n, e>> \in hosts
               /\ d # c => <<n, c>> \in hosts'
               /\ d = c => c \notin clients'
    BY <2>2, <2>4 DEF Leave
  <2>5. /\ \A e \in Conns : <<n, e>> \in hosts' => <<n, e>> \in hosts
        /\ c \in clients' => <<n, c>> \in hosts'
    BY <1>1, <2>2, <2>3, <2>4 DEF Next
  <2> QED
    BY <1>1, <2>1, <2>5 DEF find_by_host
<1>2. IInv /\ [Next]_vars => [Passed]_vars
  BY <1>1
<1> QED
  BY <1>2, InductiveInvariant, PTL DEF Spec, PassedOnByLeaving
=============================================================================
