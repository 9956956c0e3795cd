---------------------------- MODULE MCSeedExchange ----------------------------
EXTENDS SeedExchange

\* One of the two scopes; they share the gate, and have a table each.
OneScope == <<"group">>
===============================================================================
