----------------------------- MODULE MCDaemons -----------------------------
(* Small instances of Daemons for TLC. *)
EXTENDS Daemons, TLC

Symmetry == Permutations(Cmds) \cup Permutations(Keys)
=============================================================================
