--------------------------- MODULE MCRouterFlows ---------------------------
(* An instance of RouterFlows for TLC. *)
EXTENDS RouterFlows

CONSTANTS v4, v6

\* Two remotes, of which the first has an IPv4 and an IPv6 address; the second is not a
\* member yet.
DualStack == [p \in Peers |-> IF p = 1 THEN {v4, v6} ELSE {}]
=============================================================================
