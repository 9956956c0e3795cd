------------------------------ MODULE MemberLife ------------------------------
(***************************************************************************)
(* How members come and go at one node (pkg/serverless: addMember,         *)
(* connectAndIdentifyContext, handleInfo, reapExpired and                  *)
(* member_quarantine.go), over the table of virtual addresses that every   *)
(* such change brings in line.                                             *)
(*                                                                         *)
(* A member without communication for memberTTL is removed.  Its provider  *)
(* records and the summaries of other nodes go on naming it, though, and   *)
(* for how long is not up to this node: so an expired ID is remembered,    *)
(* and only a handshake lets it in again.  When no more can be remembered, *)
(* that goes for every ID.                                                 *)
(*                                                                         *)
(* All peers here are friends of the same group (Friendship is about those *)
(* who are not).  The scheduler of the handshakes is a module of its own;  *)
(* here a handshake takes two steps, the answer of the peer and the        *)
(* critical section that uses it.                                          *)
(***************************************************************************)
EXTENDS VirtualIPs

CONSTANTS
  ExpiredMemberLimit,  \* expiredMemberLimit
  MaxHeard,            \* answers in hand at a time, at most the workers (bound)
  Derivations          \* the pairs of base and salted that are looked at (bound)

ASSUME MemberLifeAssumption == {ExpiredMemberLimit, MaxHeard} \subseteq Nat

VARIABLES
  up,     \* peers that run and can be reached
  old,    \* members whose freshness is past memberTTL
  heard,  \* peers whose answer a worker has in hand
  ids, full  \* memberQuarantine

quarantine == <<ids, full>>
lifeVars   == <<tableVars, up, old, heard, quarantine>>

LifeInit ==
  /\ TableInit /\ <<base, salted>> \in Derivations
  /\ up = Others /\ old = {} /\ heard = {} /\ ids = {} /\ full = FALSE

RequiresHandshake(i) == full \/ i \in ids

\* A member is fresh when it enters and after each handshake.
Refreshes(i) ==
  /\ old' = old \ {i}
  /\ IF i \in Members THEN UNCHANGED tableVars ELSE Insert(i)

\* The first half of connectAndIdentifyContext: the peer answers.
Answers(i) ==
  /\ i \in up \ heard /\ Cardinality(heard) < MaxHeard
  /\ heard' = heard \union {i}

-----------------------------------------------------------------------------

\* A member, or one that is let in, and a handshake is scheduled, which comes about or not.
AddMember(i) ==
  /\ Answers(i) \/ UNCHANGED heard
  /\ IF i \in Members \/ RequiresHandshake(i) THEN UNCHANGED <<tableVars, old>> ELSE Refreshes(i)
  /\ UNCHANGED <<up, quarantine>>

\* A round of discovery comes upon a provider record, of whatever age.
Found(i) == AddMember(i)

\* What a node that is up may send along of its own table, or of those it remembers: anybody.
PexSnapshot  == IF up = {} THEN {} ELSE Others
ControlHints == IF up = {} THEN {} ELSE Others

\* The summary that came with a handshake names the peer.
Hinted(i) == i \in PexSnapshot /\ AddMember(i)

\* What the control channel names is only to be called.
ControlHinted(i) ==
  /\ i \in ControlHints /\ Answers(i)
  /\ UNCHANGED <<tableVars, up, old, quarantine>>

\* The peer refuses, or closes the stream without an answer.
Refuses(i) ==
  /\ i \in Members \intersect up /\ Remove({i}) /\ old' = old \ {i}
  /\ UNCHANGED <<up, heard, quarantine>>

\* Mutant of Verified: the answer only updates a member that is in the table.
VerifiedMember(i) ==
  /\ i \in heard /\ heard' = heard \ {i}
  /\ IF i \in Members THEN Refreshes(i) /\ ids' = ids \ {i} ELSE UNCHANGED <<tableVars, old, ids>>
  /\ UNCHANGED <<up, full>>

\* verifiedMemberLocked: also from an empty table.
Verified(i) ==
  /\ i \in heard /\ heard' = heard \ {i}
  /\ Refreshes(i) /\ ids' = ids \ {i}
  /\ UNCHANGED <<up, full>>

\* handleInfo: the peer calls.
Inbound(i) ==
  /\ i \in up /\ Refreshes(i) /\ ids' = ids \ {i}
  /\ UNCHANGED <<up, heard, full>>

-----------------------------------------------------------------------------
(* Time, and the peers *)

\* memberTTL has passed since the last communication, or the first discovery.
Ages(i) ==
  /\ i \in Members \ old /\ old' = old \union {i}
  /\ UNCHANGED <<tableVars, up, heard, quarantine>>

\* Mutant of Remembers: what does not fit is forgotten, and nothing tells.
RemembersSome(S) ==
  \E T \in SUBSET (S \ ids) :
    /\ Cardinality(T) + Cardinality(ids) <= ExpiredMemberLimit
    /\ T # S \ ids => Cardinality(T) + Cardinality(ids) = ExpiredMemberLimit
    /\ ids' = ids \union T /\ UNCHANGED full

\* remember, for each that expired, in any order.
Remembers(S) ==
  \E T \in SUBSET (S \ ids) :
    /\ Cardinality(T) + Cardinality(ids) <= ExpiredMemberLimit
    /\ T # S \ ids => Cardinality(T) + Cardinality(ids) = ExpiredMemberLimit
    /\ ids' = ids \union T /\ full' = (full \/ T # S \ ids)

ReapExpired ==
  /\ old # {} /\ Remove(old) /\ Remembers(old) /\ old' = {}
  /\ UNCHANGED <<up, heard>>

\* A peer stops, or cannot be reached any more; or comes back.
Turns(i) ==
  /\ up' = IF i \in up THEN up \ {i} ELSE up \union {i}
  /\ UNCHANGED <<tableVars, old, heard, quarantine>>

-----------------------------------------------------------------------------

LifeNext ==
  \/ ReapExpired
  \/ \E i \in Others :
       \/ Found(i) \/ Hinted(i) \/ ControlHinted(i)
       \/ Refuses(i) \/ Verified(i) \/ Inbound(i) \/ Ages(i) \/ Turns(i)

\* Time passes, and expired members are reaped every round; a round of discovery finds
\* whoever has a record, and a handshake succeeds, if not at the first attempt.  (Each
\* condition names the variable that its action alone changes in that way.)
LifeFairness ==
  /\ WF_old(old # {} /\ old' = {})
  /\ \A i \in Others :
       /\ WF_old(i \in Members \ old /\ old' = old \union {i})
       /\ WF_heard(i \in heard /\ heard' = heard \ {i})
       /\ SF_heard(i \notin heard /\ Answers(i))

LifeSpec == LifeInit /\ [][LifeNext]_lifeVars
FairLifeSpec == LifeSpec /\ LifeFairness

-----------------------------------------------------------------------------
(* Properties *)

\* Who is gone for good leaves the table for good, though others go on naming it, and
\* though more expire than can be remembered ("what is evicted from the quarantine must
\* not make nodes look as if they were there again").
DeadStayDead == \A i \in Others : <>[](i \notin up) => <>[](i \notin Members)

\* The quarantine bans nobody: who is up, and found, is a member again and again,
\* whatever expired meanwhile.
IsolationIsNoBan == \A i \in Others : <>[](i \in up) => []<>(i \in Members)

===============================================================================
