----------------------------- MODULE MCClientNode -----------------------------
EXTENDS ClientNode

\* The node starts without a state file: the one it writes is its own.
NoFile == {None}
=============================================================================
