-------------------------------- MODULE Pipes --------------------------------
(***************************************************************************)
(* What a tunnel promises for one visitor's stream.  The visitor's request *)
(* is cut into chunks, numbered from 1; the client opens local connections *)
(* for it, numbered in turn.  Each chunk is heard by at most one           *)
(* connection, in order and without gaps, later connections hear later     *)
(* chunks; what the connections say goes to the visitor in one order,      *)
(* connection after connection; and the visitor sees that from its start   *)
(* on, until an error page ends it.  Either end may be cut off at any      *)
(* point: nothing here must happen.                                        *)
(***************************************************************************)
EXTENDS Naturals, Sequences

CONSTANTS
    MaxConns    \* bound on the local connections of the stream

Locals  == 1 .. MaxConns
Refused == 0        \* the connection number of an answer "refused"

VARIABLES
    asked,      \* chunks of the request that have entered the tunnel
    heard,      \* heard[k]: the chunks that local connection k was written
    said,       \* connection numbers of the answers, or Refused
    seen        \* what the visitor was written, see See and GiveUp

vars == <<asked, heard, said, seen>>

Init ==
    /\ asked = 0
    /\ heard = [k \in Locals |-> <<>>]
    /\ said = <<>>
    /\ seen = <<>>

Ask ==
    /\ asked' = asked + 1
    /\ UNCHANGED <<heard, said, seen>>

Heard(k) == {heard[k][i] : i \in 1 .. Len(heard[k])}

Hear(k, n) ==
    /\ n \in 1 .. asked
    /\ heard[k] # <<>> => n = heard[k][Len(heard[k])] + 1
    /\ \A j \in Locals : \A m \in Heard(j) : (j < k => m < n) /\ (k < j => n < m)
    /\ heard' = [heard EXCEPT ![k] = Append(@, n)]
    /\ UNCHANGED <<asked, said, seen>>

Say(k) ==
    /\ k # Refused => \A i \in 1 .. Len(said) : said[i] <= k
    /\ said' = Append(said, k)
    /\ UNCHANGED <<asked, heard, seen>>

\* The visitor has seen an error page.
Over == \E i \in 1 .. Len(seen) : seen[i].page

\* The next answer: the bytes of a connection, or the page for a refusal.
See ==
    /\ ~Over
    /\ Len(seen) < Len(said)
    /\ LET k == said[Len(seen) + 1] IN
          seen' = Append(seen, [page |-> k = Refused, from |-> k])
    /\ UNCHANGED <<asked, heard, said>>

\* The page for a client that is gone.
GiveUp ==
    /\ ~Over
    /\ seen' = Append(seen, [page |-> TRUE, from |-> Refused])
    /\ UNCHANGED <<asked, heard, said>>

Next ==
    \/ Ask
    \/ \E k \in Locals : \E n \in 1 .. asked : Hear(k, n)
    \/ \E k \in Locals \cup {Refused} : Say(k)
    \/ See
    \/ GiveUp

Spec == Init /\ [][Next]_vars
=============================================================================
