--------------------------- MODULE MCTunnelService ---------------------------
EXTENDS TunnelService

\* Relays 1, 2 and 3, the target 4 and the node 5 itself.
Seed(i)   == [id |-> i, hop |-> FALSE, connected |-> FALSE, tier |-> 0]
Member(i) == [id |-> i, hop |-> i > 2, connected |-> i = 2, tier |-> 1]

\* Two seeds; one member; a seed that is a member too, among more nodes than are tried.
Known == {{Seed(1), Seed(2)}, {Member(2)}, {Member(4), Seed(2), Member(2), Member(1), Member(3)}}
=============================================================================
