-------------------------- MODULE MCControlServer --------------------------
(* Small instances of ControlServer for TLC. *)
EXTENDS ControlServer, TLC

Symmetry == Permutations(Conns) \cup Permutations(Subs)
=============================================================================
