----------------------------- MODULE VirtualIPs -----------------------------
(***************************************************************************)
(* Who has which virtual IPv4 (pkg/serverless/vaddr_conflict.go).          *)
(*                                                                         *)
(* A node's address is a hash of its peer ID into a small range, so that   *)
(* two members may derive the same one.  Of those, the least ID keeps it,  *)
(* and each of the others tries salted hashes until one is not taken.  The *)
(* table of leases is brought in line with the member table whenever that  *)
(* changes, in the same critical section of d.mu; only what differs is     *)
(* written, to the leases, to the indexes over them and to the members.    *)
(*                                                                         *)
(* Peer IDs are numbers in the order of the strings.  The hash is any      *)
(* function: base and salted are chosen in TableInit and never change.     *)
(***************************************************************************)
EXTENDS Naturals, FiniteSets

CONSTANTS
  MaxId,      \* peer IDs are 1 .. MaxId
  Self,       \* the node that keeps the table; never its own member
  Addresses,  \* the range of the hash
  SaltMax     \* VirtualIPv4SaltMax

Ids    == 1 .. MaxId
Others == Ids \ {Self}
Salts  == 1 .. SaltMax

ASSUME VirtualIPsAssumption == MaxId \in Nat /\ SaltMax \in Nat /\ Self \in Nat

VARIABLES
  base, salted,  \* DeriveVirtualIP and deriveVirtualIPSalted
  shown,         \* d.members: the VirtualIP of each member
  lea,           \* t.lea: the lease of each peer in the table
  ipOwners, conflicts, unresolved   \* the other fields of t

tableVars == <<base, salted, shown, lea, ipOwners, conflicts, unresolved>>

Members == DOMAIN shown

Least(S) == CHOOSE x \in S : \A y \in S : x <= y

-----------------------------------------------------------------------------
(* decideVirtualIPs *)

Group(i, ids) == {j \in ids : base[j] = base[i]}

Reassigned(i, ids) == i \in ids /\ i # Least(Group(i, ids))

\* Mutant of Kept: the address that the least ID keeps is not taken.
KeptNone(ids) == {}

\* What is taken before the first salt is tried: the addresses that conflict.
Kept(ids) == {base[i] : i \in {j \in ids : Reassigned(j, ids)}}

Free(i, taken) == {s \in Salts : salted[i][s] \notin taken}

\* What is taken once the peers up to i have chosen, one after the other.
Taken(ids) ==
  LET taken[i \in 0 .. MaxId] ==
        IF i = 0 THEN Kept(ids)
        ELSE LET before == taken[i - 1]
                 free   == Free(i, before)
             IN IF Reassigned(i, ids) /\ free # {} THEN before \cup {salted[i][Least(free)]}
                ELSE before
  IN taken

\* Without a free salt the peer stays where it is, and is marked.
Decide(ids) ==
  LET taken == Taken(ids)
      Salt(i) == LET free == Free(i, taken[i - 1])
                 IN IF Reassigned(i, ids) /\ free # {} THEN Least(free) ELSE 0
  IN [i \in ids |->
       LET salt == Salt(i)
       IN [base       |-> base[i],
           ip         |-> IF salt = 0 THEN base[i] ELSE salted[i][salt],
           salt       |-> salt,
           losers     |-> IF Reassigned(i, ids) THEN {} ELSE Group(i, ids) \ {i},
           unresolved |-> Reassigned(i, ids) /\ salt = 0]]

-----------------------------------------------------------------------------
(* claimVirtualIPsLocked, with syncLocked *)

\* The peers whose lease is new or not what it should be.
Stale(desired) == {i \in DOMAIN desired : i \in DOMAIN lea => lea[i] # desired[i]}

\* Mutant of Dropped: the leases of members that left stay.
DroppedNothing(desired) == {}

\* The peers in the table that are members no more.
Dropped(desired) == DOMAIN lea \ DOMAIN desired

\* dropLocked: the index of the owners without these peers.
Without(peers) == [a \in Addresses |->
  {i \in ipOwners[a] : ~(i \in peers /\ lea[i].ip = a)}]

Unresolved(leases, peers) == Cardinality({i \in peers \cap DOMAIN leases : leases[i].unresolved})

\* How many of those that are dropped were unresolved.
Dropping(peers) == Unresolved(lea, peers)

\* The members are these now, and each enters with the address that aligned gives it.
\* First what left is dropped, and conflicts of addresses that nobody has; then
\* what is stale is taken out and entered anew, and the members are told.
Claim(aligned) ==
  LET desired == Decide(DOMAIN aligned)
      gone    == Dropped(desired)
      stale   == Stale(desired)
  IN /\ lea' = [i \in DOMAIN desired \cup (DOMAIN lea \ gone) |->
                  IF i \in stale THEN desired[i] ELSE lea[i]]
     /\ ipOwners' = [a \in Addresses |->
          Without(gone \cup stale)[a] \cup {i \in stale : desired[i].ip = a}]
     /\ conflicts' = {a \in conflicts : Without(gone)[a] # {}} \cup
          {desired[i].base : i \in {j \in stale : desired[j].losers # {} \/ desired[j].salt > 0}}
     /\ unresolved' = unresolved - Dropping(gone \cup stale) + Unresolved(desired, stale)
     /\ shown' = [i \in DOMAIN aligned |->
          IF i \in stale /\ (i \in DOMAIN lea => lea[i].ip # desired[i].ip)
          THEN desired[i].ip ELSE aligned[i]]

\* VirtualIPConflicts: one record for each address that conflicts, under the peer that keeps
\* it; without such a peer there is none.
Records ==
  {[ip |-> lea[i].base, winner |-> i, losers |-> lea[i].losers,
    resolved |-> \A j \in lea[i].losers \cap DOMAIN lea : ~lea[j].unresolved] :
   i \in {h \in DOMAIN lea : /\ lea[h].losers # {} /\ lea[h].base \in conflicts
                            /\ h \in ipOwners[lea[h].base]}}

-----------------------------------------------------------------------------
(* Routing *)

Sole(S) == IF Cardinality(S) = 1 THEN S ELSE {}

\* To whom a packet for the address goes: nobody, if two members claim it.
Resolve(a) == Sole({i \in Members : shown[i] = a})

-----------------------------------------------------------------------------

TableInit ==
  /\ base \in [Ids -> Addresses] /\ salted \in [Others -> [Salts -> Addresses]]
  /\ shown = <<>> /\ lea = <<>>
  /\ ipOwners = [a \in Addresses |-> {}] /\ conflicts = {} /\ unresolved = 0

\* A member is inserted (addMember, RequestConnect, Reconnect, handleInfo,
\* verifiedMemberLocked), with alignedVirtualIP for a start.
Insert(i) ==
  /\ i \in Others \ Members
  /\ Claim([j \in Members \cup {i} |->
       IF j \in Members THEN shown[j] ELSE IF i \in DOMAIN lea THEN lea[i].ip ELSE base[i]])
  /\ UNCHANGED <<base, salted>>

\* Members leave: one that is deleted or refused, or all that expired.
Remove(S) ==
  /\ S \subseteq Members /\ S # {}
  /\ Claim([j \in Members \ S |-> shown[j]])
  /\ UNCHANGED <<base, salted>>

TableNext == (\E i \in Others : Insert(i)) \/ (\E S \in SUBSET Others : Remove(S))

TableSpec == TableInit /\ [][TableNext]_tableVars

-----------------------------------------------------------------------------
(* Properties *)

Lease == [base : Addresses, ip : Addresses, salt : 0 .. SaltMax, losers : SUBSET Others,
          unresolved : BOOLEAN]

\* Every variable has its type; in particular the counter is never negative.
TableTypes ==
  /\ Members \subseteq Others /\ \A i \in Members : shown[i] \in Addresses
  /\ DOMAIN lea \subseteq Others /\ \A i \in DOMAIN lea : lea[i] \in Lease
  /\ ipOwners \in [Addresses -> SUBSET Others]
  /\ conflicts \subseteq Addresses /\ unresolved \in Nat

\* Whatever members came and went, the table is what the decision gives for the members
\* that are there now, and packets go where the decision says, so that two nodes with the
\* same members agree.
HistoryDoesNotMatter ==
  LET decided == Decide(Members)
  IN  /\ lea = decided
      /\ \A a \in Addresses : Resolve(a) = Sole({i \in Members : decided[i].ip = a})

\* The indexes and the counter follow the leases, and so do the addresses of the members.
IndexesFollow ==
  /\ \A a \in Addresses : ipOwners[a] = {i \in DOMAIN lea : lea[i].ip = a}
  /\ unresolved = Unresolved(lea, DOMAIN lea)
  /\ \A i \in Members : i \in DOMAIN lea /\ shown[i] = lea[i].ip

\* What is reported is so: there is one record for each address that two members derive,
\* under the least of them and with all the others; and a peer of one record shares its
\* address with a peer of any record only where one of the two is said not to be resolved.
ConflictsAreSettled ==
  /\ {<<r.ip, {r.winner} \cup r.losers>> : r \in Records} =
       {<<base[i], Group(i, Members)>> :
        i \in {j \in Members : Cardinality(Group(j, Members)) > 1}}
  /\ \A r \in Records : r.winner = Least({r.winner} \cup r.losers)
  /\ \A q, r \in Records : \A i \in {q.winner} \cup q.losers, j \in {r.winner} \cup r.losers :
       i # j /\ shown[i] = shown[j] => ~q.resolved \/ ~r.resolved

\* An address belongs to one member, or the conflict is marked.
UniqueAddresses ==
  \A i, j \in Members :
    i # j /\ shown[i] = shown[j] => lea[i].unresolved \/ lea[j].unresolved

=============================================================================
