---------------------------- MODULE MCMemberLife ----------------------------
(* An instance of MemberLife for TLC. *)
EXTENDS MemberLife

CONSTANTS x, y

TwoAddresses == {x, y}

\* Every pair, but for the names of the addresses, and for the salted address of the
\* least peer, which always keeps its base.
UpToNames ==
  {d \in [Ids -> TwoAddresses] \X [Others -> [Salts -> TwoAddresses]] :
     d[1][1] = x /\ \A s \in Salts : d[2][1][s] = x}
=============================================================================
