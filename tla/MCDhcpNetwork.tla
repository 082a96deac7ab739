--------------------------- MODULE MCDhcpNetwork ----------------------------
(* Constants for model-checking DhcpNetwork. *)
EXTENDS DhcpNetwork, TLC

CONSTANTS a, b

Symmetry == Permutations(MAC)

\* No guard and no invariant of the network looks at the last step's output.
View == <<leases, offset, blocked, srv, contested, late, netVars>>
=============================================================================
