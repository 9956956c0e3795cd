------------------------------ MODULE MCGateway ------------------------------
EXTENDS Gateway

CONSTANTS c1, c2, n1, n2

\* Two clients that want the same name, the second also as the service.
SameName == {<<c1, n1>>, <<c2, n1>>}
OtherService == {<<c2, n2>>}
=============================================================================
