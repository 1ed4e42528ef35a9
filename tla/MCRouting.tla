------------------------------ MODULE MCRouting ------------------------------
(* A small instance of Routing for TLC: allowed hosts that lie under one   *)
(* another, listed in either order.                                        *)
EXTENDS Routing, TLC

LabelSet == {"a", "A", "b", "ex", "org", "wormhole", "admin"}
LowerMap == [l \in LabelSet |-> IF l = "A" THEN "a" ELSE l]

Ex    == <<"ex">>
BEx   == <<"b", "ex">>
Org   == <<"org">>
BOrg  == <<"b", "org">>
Hosts == <<Ex, BEx, BOrg, Org>>

Admin == {"admin"}

AskedSubs == {<<"a">>, <<"A">>, <<"b">>, <<"wormhole">>, <<"admin">>,
              <<"a", "b">>}

\* Hellos that get as far as the names, and one for every other refusal.
Plain == [blocked |-> FALSE, parses |-> TRUE, domain |-> Ex,
          anonymous |-> FALSE, sub |-> <<"a">>, random |-> "a",
          token |-> FALSE, wild |-> FALSE, key |-> TRUE]

MCHellos ==
    {[Plain EXCEPT !.domain = d, !.sub = s, !.wild = w] :
        d \in {Ex, BEx, BOrg, Org}, s \in AskedSubs, w \in BOOLEAN}
    \cup {[Plain EXCEPT !.domain = NoName], [Plain EXCEPT !.sub = NoName],
          [Plain EXCEPT !.domain = <<"b">>], [Plain EXCEPT !.blocked = TRUE],
          [Plain EXCEPT !.parses = FALSE], [Plain EXCEPT !.anonymous = TRUE],
          [Plain EXCEPT !.sub = NoName, !.token = TRUE],
          [Plain EXCEPT !.key = FALSE]}

\* Every name of up to two labels under every allowed host, the allowed hosts,
\* and a name that lies under none.
MCVisitorHosts ==
    LET Under1 == {<<l>> : l \in LabelSet}
        Under2 == {<<l, m>> : l, m \in LabelSet}
    IN  {p \o d : p \in {<<>>} \cup Under1 \cup Under2, d \in {Ex, Org}}
        \cup {p \o d : p \in Under1, d \in {BEx, BOrg}}
        \cup {<<"a", "b">>}

Symmetry == Permutations(Conns)
=============================================================================
