----------------------------- MODULE NameService -----------------------------
(***************************************************************************)
(* What the control server promises about names: a session claims one full *)
(* host once, only while nobody answers for that host; a host is answered  *)
(* for only by a live session that claimed it; and a session that has      *)
(* ended answers for nothing, ever.  A name may be withdrawn and published *)
(* again while its sessions live.                                          *)
(***************************************************************************)
CONSTANTS Conns, Hosts, NoConn, NoHost

VARIABLES
    name,       \* name[c]: the host session c claimed, or NoHost
    phase,      \* phase[c]: "new", "live" or "ended"
    route       \* route[h]: the session that answers for h, or NoConn

vars == <<name, phase, route>>

Init ==
    /\ name = [c \in Conns |-> NoHost]
    /\ phase = [c \in Conns |-> "new"]
    /\ route = [h \in Hosts |-> NoConn]

Claim(c, h) ==
    /\ phase[c] = "new"
    /\ route[h] = NoConn
    /\ name' = [name EXCEPT ![c] = h]
    /\ phase' = [phase EXCEPT ![c] = "live"]
    /\ UNCHANGED route

\* A session ends, or is refused, only when it answers for nothing.
End(c) ==
    /\ phase[c] \in {"new", "live"}
    /\ \A h \in Hosts : route[h] # c
    /\ phase' = [phase EXCEPT ![c] = "ended"]
    /\ UNCHANGED <<name, route>>

Publish(c) ==
    /\ phase[c] = "live"
    /\ route' = [route EXCEPT ![name[c]] = c]
    /\ UNCHANGED <<name, phase>>

\* A host is withdrawn on behalf of a session, dead or not, that claimed it.
Withdraw(c) ==
    /\ phase[c] # "new"
    /\ name[c] \in Hosts
    /\ route' = [route EXCEPT ![name[c]] = NoConn]
    /\ UNCHANGED <<name, phase>>

Next ==
    \E c \in Conns :
        \/ \E h \in Hosts : Claim(c, h)
        \/ End(c)
        \/ Publish(c)
        \/ Withdraw(c)

Spec == Init /\ [][Next]_vars
=============================================================================
