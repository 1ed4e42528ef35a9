----------------------------- MODULE MCSessions -----------------------------
(* Small instances of Sessions for TLC. *)
EXTENDS Sessions, TLC

CONSTANTS h1, h2, k1, s1, n1

MCHosts == {h1, h2}
MCEdits == {[host |-> h2], [key |-> k1]}

\* Nothing typed; a port; a port and a sub-domain.
Plain == [port |-> None, sub_domain |-> None, domain |-> None, key |-> None,
          wildcard |-> FALSE]
MCInvocations == {Plain,
                  [Plain EXCEPT !.port = 2],
                  [Plain EXCEPT !.port = 2, !.sub_domain = s1, !.wildcard = TRUE]}

\* No legacy file, or a key.token.
MCLegacy == {<<>>, [key |-> k1]}

Symmetry == Permutations(Procs)
=============================================================================
