------------------------------ MODULE ClientLink ------------------------------
(***************************************************************************)
(* What the streams of visitors may rely on of a client that the control   *)
(* server has started.  The client is registered as long as its control    *)
(* channel is open; the channel is closed once; behind that the client may *)
(* be unregistered, and registered again by a late pong, but not when its  *)
(* reader has ended.  Nothing here must happen.                            *)
(***************************************************************************)
VARIABLES
    registered, \* the client is in Connections.clients
    chanOpen,   \* its control channel is open
    reader      \* its process_client_messages has not ended

vars == <<registered, chanOpen, reader>>

Init ==
    /\ registered
    /\ chanOpen
    /\ reader

Close ==
    /\ chanOpen
    /\ ~chanOpen'
    /\ UNCHANGED <<registered, reader>>

Unregister ==
    /\ ~chanOpen /\ registered
    /\ ~registered'
    /\ UNCHANGED <<chanOpen, reader>>

Register ==
    /\ reader /\ ~registered
    /\ registered'
    /\ UNCHANGED <<chanOpen, reader>>

End ==
    /\ reader /\ ~chanOpen
    /\ ~reader'
    /\ ~registered'
    /\ UNCHANGED chanOpen

Next == Close \/ Unregister \/ Register \/ End

Spec == Init /\ [][Next]_vars
=============================================================================
