-------------------------- MODULE MCRemoteStream --------------------------
(* Small instances of RemoteStream for TLC. *)
EXTENDS RemoteStream, TLC

Symmetry == Permutations(Streams)
=============================================================================
