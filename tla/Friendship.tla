----------------------------- MODULE Friendship -----------------------------
(***************************************************************************)
(* Adding and deleting a friend (pkg/serverless/serverless.go,             *)
(* sdk/go/lanet/peers.go, pkg/peersdb/store.go).                           *)
(*                                                                         *)
(* Two nodes of one network each keep an address book (the database:       *)
(* trust, the tombstone of a deletion, the pending request) and a member   *)
(* table in memory; a node only routes to members.  Friendship is granted  *)
(* by both users and taken away by either: a deletion is told to the other *)
(* side once, pushed if it is online or in the answer to its next          *)
(* handshake, so that it deletes as well.                                  *)
(*                                                                         *)
(* A step is one database transaction, one critical section of d.mu, or    *)
(* the start or end of an exchange.  At most one handshake per direction   *)
(* is under way (the discovery scheduler joins calls for the same peer),   *)
(* and one console operation of a kind per node; everything else overlaps. *)
(* Approval is required (RequireApproval).  The two transactions of a      *)
(* restoration are one step, and so are the queries that ask for a         *)
(* tombstone and whether it was told.  The expiry of members and the data  *)
(* of a member are left out.                                               *)
(***************************************************************************)
EXTENDS Naturals, FiniteSets

CONSTANTS
  Nodes,       \* the two nodes
  AutoAccept,  \* those configured to accept every request
  Lossy,       \* the nodes whose exchanges with the other may break off half-way
  Warm,        \* the nodes that may have just started
  Users,       \* the nodes at which somebody is at the console
  Patient,     \* users who wait for a console operation to return before the next
  MaxOrders    \* bound: console operations (add, approve, delete) of both users, and warm-ups

ASSUME FriendshipAssumption ==
  /\ IsFiniteSet(Nodes) /\ Cardinality(Nodes) = 2 /\ AutoAccept \subseteq Nodes
  /\ Users \subseteq Nodes /\ Patient \subseteq Users
  /\ Warm \subseteq Nodes /\ Lossy \subseteq Nodes
  /\ MaxOrders \in Nat /\ Cardinality(Warm) <= MaxOrders

Other(n) == CHOOSE m \in Nodes : m # n

VARIABLES
  trusted,     \* peers.trusted of the other node
  tomb,        \* the unfriended row: "none", "owed" (notified = 0) or "told" (1)
  pending,     \* the pending_requests row
  member,      \* the other node is in d.members
  guard,       \* d.unfriendedAt holds the other node
  call,        \* the handshake this node makes: where it is
  explicit,    \* ... and whether it carries the connect request of the user
  answer,      \* ... and what comes back, while it is on its way
  serve,       \* handleInfo for the other's handshake: where it is
  asked,       \* that handshake's ConnectRequest, as the handler has read it
  adding, deleting, approving, discovering,   \* console operations and discovery
  wanted,      \* an explicit request waits for the scheduler
  toPush, toMark,   \* RemovePeer's goroutines: before NotifyUnfriend, after it
  push,        \* unfriend notices on their way to this node
  callback,    \* onUnfriendReceived is running
  orders       \* counter of the bound

book   == <<trusted, tomb, pending>>
table  == <<member, guard>>
dialer == <<call, explicit, answer>>
server == <<serve, asked>>
ops    == <<adding, deleting, approving, discovering, wanted>>
notice == <<toPush, toMark, push, callback>>
vars   == <<book, table, dialer, server, ops, notice, orders>>

\* The warm-up of a node that has just started reconnects to the friends its address book
\* lists: PickWarmupTargets has chosen, Reconnect has yet to look.
PickWarmupTargets(n, friends) == n \in Warm /\ friends
StartWarmup(friends) ==
  \E W \in SUBSET {n \in Nodes : PickWarmupTargets(n, friends)} :
    /\ approving = [n \in Nodes |-> IF n \in W THEN "check" ELSE "no"]
    /\ orders = Cardinality(W)

Init ==
  /\ \E t \in BOOLEAN :
       /\ trusted = [n \in Nodes |-> t] /\ StartWarmup(t)
       /\ member = [n \in Nodes |-> t /\ approving[n] = "no"]
  /\ tomb = [n \in Nodes |-> "none"]
  /\ pending = [n \in Nodes |-> FALSE] /\ guard = [n \in Nodes |-> FALSE]
  /\ call = [n \in Nodes |-> "none"] /\ explicit = [n \in Nodes |-> FALSE]
  /\ answer = [n \in Nodes |-> "none"]
  /\ serve = [n \in Nodes |-> "none"] /\ asked = [n \in Nodes |-> FALSE]
  /\ adding = [n \in Nodes |-> "no"] /\ deleting = [n \in Nodes |-> "no"]
  /\ discovering = [n \in Nodes |-> FALSE]
  /\ wanted = [n \in Nodes |-> FALSE]
  /\ toPush = [n \in Nodes |-> 0] /\ toMark = [n \in Nodes |-> 0]
  /\ push = [n \in Nodes |-> 0] /\ callback = [n \in Nodes |-> FALSE]

Set(f, n, v) == [f EXCEPT ![n] = v]

-----------------------------------------------------------------------------
(* The address book: one transaction each, and what is asked of it *)

IsTrusted(n)      == trusted[n]
IsUnfriended(n)   == tomb[n] # "none"
IsOwed(n)         == tomb[n] = "owed"    \* IsUnfriendedNotified says no
ClearUnfriended(n) == tomb' = Set(tomb, n, "none")

\* It updates the row that is there by then.
MarkUnfriendedNotified(n) == tomb' = Set(tomb, n, IF IsUnfriended(n) THEN "told" ELSE "none")

\* Granted or revoked, the request is settled.
SetTrusted(n, t) == trusted' = Set(trusted, n, t) /\ pending' = Set(pending, n, FALSE)

\* A passive write never restores who was deleted (checkUnfriendedTx).
MayUpsert(n) == ~IsUnfriended(n)

\* The tombstone, and neither trust nor request.
RemovePeer(n) == tomb' = Set(tomb, n, "owed") /\ SetTrusted(n, FALSE)

AddPending(n) == pending' = Set(pending, n, TRUE)

\* onPendingRequest: also of a node that was deleted, whose row it leaves alone.
OnPendingRequest(n) == AddPending(n)

\* What the console shows, and lets the user decide on.
TrustedPeers(n) == IsTrusted(n)
PendingList(n)  == pending[n]

\* isTrustedPeer, and trustPolicyPassive over it.
Trusts(n) == IsTrusted(n) /\ ~IsUnfriended(n)

\* What the policies answer the explicit request of a node: maybeAutoAccept to one that
\* is new, maybeAutoReaccept to one that was deleted.
AutoAccepts(n)   == asked[n] /\ n \in AutoAccept /\ ~IsUnfriended(n)
AutoReaccepts(n) == asked[n] /\ n \in AutoAccept /\ IsUnfriended(n)

\* A user gives an order; one who is patient has seen the last one end.
Order(n) ==
  /\ n \in Users /\ orders < MaxOrders /\ orders' = orders + 1
  /\ n \in Patient =>
       adding[n] = "no" /\ deleting[n] = "no" /\ ~wanted[n] /\ ~explicit[n]

-----------------------------------------------------------------------------
(* The console: adding *)

\* restorePeer: ClearUnfriended, then rememberPeer with trust, which a deletion that
\* comes between the two transactions refuses: as if it had come after both.
Restore(n) == ClearUnfriended(n) /\ SetTrusted(n, TRUE)

\* findPeer, over the addresses of the node, then the private DHT: found or not.
FindPeer == {"request", "no"}

\* connectByID: an address is known or found, or discovery is left to find one.
ConnectByID(n) == \E way \in FindPeer : adding' = Set(adding, n, way)

\* A multiaddr is dialled as a seed, whichever field of the console it comes from.
ConnectSeed(n) == adding' = Set(adding, n, "seed")

\* connectPeerInner, ConnectSeed: a multiaddr is dialled; a connection code with
\* an address asks to connect, one without goes the way of an ID.
Add(n) ==
  /\ adding[n] = "no" /\ Order(n)
  /\ Restore(n)
  /\ ConnectSeed(n) \/ ConnectByID(n)
  /\ UNCHANGED <<table, dialer, server, deleting, approving, discovering, wanted, notice>>

\* RequestConnect asks for trust before it takes the lock.
AddCheck(n) ==
  /\ adding[n] = "request"
  /\ adding' = Set(adding, n, IF Trusts(n) THEN "admit" ELSE "no")
  /\ UNCHANGED <<book, table, dialer, server, deleting, approving, discovering, wanted,
                 notice, orders>>

\* RequestConnect under the lock: the guard is lifted, the member inserted; then the
\* explicit handshake is asked for.
AddAdmit(n) ==
  /\ adding[n] = "admit"
  /\ guard' = Set(guard, n, FALSE)
  /\ member' = Set(member, n, TRUE)
  /\ wanted' = Set(wanted, n, TRUE)
  /\ adding' = Set(adding, n, "no")
  /\ UNCHANGED <<book, dialer, server, deleting, approving, discovering, notice, orders>>

\* DialSeed only asks for the explicit handshake.
AddSeed(n) ==
  /\ adding[n] = "seed"
  /\ wanted' = Set(wanted, n, TRUE)
  /\ adding' = Set(adding, n, "no")
  /\ UNCHANGED <<book, table, dialer, server, deleting, approving, discovering, notice, orders>>

\* ApprovePeer of a pending request; ClearUnfriended and SetTrusted as in Restore.
Approve(n) ==
  /\ PendingList(n) /\ approving[n] = "no" /\ Order(n)
  /\ Restore(n)
  /\ approving' = Set(approving, n, "check")
  /\ UNCHANGED <<table, dialer, server, adding, deleting, discovering, wanted, notice>>

\* The address book has it as a friend.
IsKnownMember(n) == IsTrusted(n)

\* Its goroutine, or that of the warm-up: isKnownMember, isUnfriendedPeer, and Reconnect's own check of trust.
ApproveCheck(n) ==
  /\ approving[n] = "check"
  /\ approving' = Set(approving, n, IF IsKnownMember(n) /\ Trusts(n) THEN "admit" ELSE "no")
  /\ UNCHANGED <<book, table, dialer, server, adding, deleting, discovering, wanted,
                 notice, orders>>

\* Reconnect under the lock: a guarded peer is refused.
ApproveAdmit(n) ==
  /\ approving[n] = "admit"
  /\ approving' = Set(approving, n, "no")
  /\ member' = IF guard[n] THEN member ELSE Set(member, n, TRUE)
  /\ UNCHANGED <<book, guard, dialer, server, adding, deleting, discovering, wanted,
                 notice, orders>>

-----------------------------------------------------------------------------
(* The console: deleting *)

\* Mutant of Delete: the row of the peer keeps its trust.
DeleteKeepsTrust(n, how) ==
  /\ deleting[n] = "no" /\ Order(n)
  /\ tomb' = Set(tomb, n, "owed")
  /\ pending' = Set(pending, n, FALSE)
  /\ how = "remove" => trusted[n]
  /\ how = "reject" => pending[n]
  /\ deleting' = Set(deleting, n, how)
  /\ UNCHANGED <<trusted, table, dialer, server, adding, approving, discovering, wanted,
                 notice>>

\* peersdb.RemovePeer, one transaction, for RemovePeer and for RejectPeer (of a request).
Delete(n, how) ==
  /\ deleting[n] = "no" /\ Order(n)
  /\ RemovePeer(n)
  /\ how = "remove" => TrustedPeers(n)
  /\ how = "reject" => PendingList(n)
  /\ deleting' = Set(deleting, n, how)
  /\ UNCHANGED <<table, dialer, server, adding, approving, discovering, wanted, notice>>

\* Mutant of Forget: the guard is not set with the removal.
ForgetUnguarded(n) ==
  /\ deleting[n] # "no"
  /\ member' = Set(member, n, FALSE)
  /\ toPush' = Set(toPush, n, toPush[n] + IF deleting[n] = "remove" THEN 1 ELSE 0)
  /\ deleting' = Set(deleting, n, "no")
  /\ UNCHANGED <<book, guard, dialer, server, adding, approving, discovering, wanted,
                 toMark, push, callback, orders>>

\* Forget: out of the table and guarded in one critical section.  RemovePeer starts the
\* goroutine of the notice, RejectPeer does not.
Forget(n) ==
  /\ deleting[n] # "no"
  /\ member' = Set(member, n, FALSE)
  /\ guard' = Set(guard, n, TRUE)
  /\ toPush' = Set(toPush, n, toPush[n] + IF deleting[n] = "remove" THEN 1 ELSE 0)
  /\ deleting' = Set(deleting, n, "no")
  /\ UNCHANGED <<book, dialer, server, adding, approving, discovering, wanted,
                 toMark, push, callback, orders>>

\* NotifyUnfriend writes the notice, or finds the other node offline.
Push(n) ==
  /\ toPush[n] > 0
  /\ toPush' = Set(toPush, n, toPush[n] - 1)
  /\ \/ /\ push' = Set(push, Other(n), push[Other(n)] + 1)
        /\ toMark' = Set(toMark, n, toMark[n] + 1)
     \/ n \in Lossy /\ UNCHANGED <<push, toMark>>
  /\ UNCHANGED <<book, table, dialer, server, ops, callback, orders>>

\* ... and then marks the deletion as told.
Mark(n) ==
  /\ toMark[n] > 0
  /\ toMark' = Set(toMark, n, toMark[n] - 1)
  /\ MarkUnfriendedNotified(n)
  /\ UNCHANGED <<trusted, pending, table, dialer, server, ops, toPush, push, callback, orders>>

\* handleUnfriend: out of the table and guarded at once; the address book follows.
Noticed(n) ==
  /\ push[n] > 0
  /\ push' = Set(push, n, push[n] - 1)
  /\ member' = Set(member, n, FALSE)
  /\ guard' = Set(guard, n, TRUE)
  /\ callback' = Set(callback, n, TRUE)
  /\ UNCHANGED <<book, dialer, server, ops, toPush, toMark, orders>>

\* The notice was written and never arrives.
NoticeLost(n) ==
  /\ Other(n) \in Lossy /\ push[n] > 0
  /\ push' = Set(push, n, push[n] - 1)
  /\ UNCHANGED <<book, table, dialer, server, ops, toPush, toMark, callback, orders>>

\* Mutant of Callback: the row is left trusted.
CallbackKeepsTrust(n) ==
  /\ callback[n]
  /\ callback' = Set(callback, n, FALSE)
  /\ pending' = Set(pending, n, FALSE)
  /\ UNCHANGED <<trusted, tomb, table, dialer, server, ops, toPush, toMark, push, orders>>

\* onUnfriendReceived: SetTrusted(false) and DeletePeer; no tombstone.
Callback(n) ==
  /\ callback[n]
  /\ callback' = Set(callback, n, FALSE)
  /\ SetTrusted(n, FALSE)
  /\ UNCHANGED <<tomb, table, dialer, server, ops, toPush, toMark, push, orders>>

\* Mutant of GuardExpires: the age of the guard is not looked at.
GuardStays(n) == guard[n] /\ ~guard[n] /\ UNCHANGED vars

\* The guard expires after five minutes, when what could have overlapped the deletion is
\* over: a handshake takes at most 10 s, a connect or a discovery at most 25 s.
GuardExpires(n) ==
  /\ guard[n] /\ serve[n] = "none" /\ call[n] = "none" /\ ~callback[n]
  /\ deleting[n] = "no" /\ adding[n] = "no" /\ approving[n] = "no" /\ ~discovering[n]
  /\ guard' = Set(guard, n, FALSE)
  /\ UNCHANGED <<book, member, dialer, server, ops, notice, orders>>

-----------------------------------------------------------------------------
(* Discovery: addMember *)

Discover(n) ==
  /\ ~discovering[n] /\ Trusts(n)
  /\ discovering' = Set(discovering, n, TRUE)
  /\ UNCHANGED <<book, table, dialer, server, adding, deleting, approving, wanted,
                 notice, orders>>

DiscoverAdmit(n) ==
  /\ discovering[n]
  /\ discovering' = Set(discovering, n, FALSE)
  /\ member' = Set(member, n, member[n] \/ ~guard[n])
  /\ UNCHANGED <<book, guard, dialer, server, adding, deleting, approving, wanted,
                 notice, orders>>

-----------------------------------------------------------------------------
(* A handshake, the side that makes it: connectAndIdentifyContext *)

CallEnds(n) ==
  /\ call' = Set(call, n, "none")
  /\ answer' = Set(answer, n, "none")
  /\ explicit' = Set(explicit, n, FALSE)

\* The scheduler takes it up: in the background for a trusted node that was discovered
\* (addMember, Reconnect, the control channel), or for the user.
CallStarts(n) ==
  /\ call[n] = "none"
  /\ \/ wanted[n] /\ explicit' = Set(explicit, n, TRUE) /\ wanted' = Set(wanted, n, FALSE)
     \/ Trusts(n) /\ UNCHANGED <<explicit, wanted>>
  /\ call' = Set(call, n, "check")
  /\ UNCHANGED <<book, table, answer, server, adding, deleting, approving, discovering,
                 notice, orders>>

\* By then the node is not trusted any more: it is dropped from the table instead.
CallUntrusted(n) ==
  /\ call[n] = "check" /\ ~Trusts(n)
  /\ member' = Set(member, n, FALSE)
  /\ CallEnds(n)
  /\ UNCHANGED <<book, guard, server, ops, notice, orders>>

\* The connection is up and the request written: the other node's handler reads it.
CallSends(n) ==
  /\ call[n] = "check" /\ Trusts(n)
  /\ serve[Other(n)] = "none"
  /\ call' = Set(call, n, "sent")
  /\ serve' = Set(serve, Other(n), "tomb")
  /\ asked' = Set(asked, Other(n), explicit[n])
  /\ UNCHANGED <<book, table, explicit, answer, ops, notice, orders>>

\* The exchange breaks off: not reached, reset, timed out.  Nothing is learnt from it,
\* and ConnectPeer may try an address that the DHT knows.
CallBreaks(n) ==
  /\ n \in Lossy /\ call[n] \in {"check", "sent"}
  /\ CallEnds(n)
  /\ \/ explicit[n] /\ adding[n] = "no" /\ adding' = Set(adding, n, "request")
     \/ UNCHANGED adding
  /\ UNCHANGED <<book, table, server, deleting, approving, discovering, wanted, notice,
                 orders>>

\* The answer is a rejection, or an end of stream that is taken for another network.
CallRejected(n) ==
  /\ call[n] = "sent" /\ answer[n] \in {"not_approved", "unfriended", "silence"}
  /\ member' = Set(member, n, FALSE)
  /\ callback' = Set(callback, n, callback[n] \/ answer[n] = "unfriended")
  /\ CallEnds(n)
  /\ UNCHANGED <<book, guard, server, ops, toPush, toMark, push, orders>>

\* verifiedMemberLocked: trust and guard are asked again, under the lock.
CallAccepted(n) ==
  /\ call[n] = "sent" /\ answer[n] = "welcome"
  /\ member' = Set(member, n, member[n] \/ (Trusts(n) /\ ~guard[n]))
  /\ CallEnds(n)
  /\ UNCHANGED <<book, guard, server, ops, notice, orders>>

-----------------------------------------------------------------------------
(* A handshake, the side that answers: handleInfo *)

\* The answer reaches the caller, unless the caller has given up on the exchange.
Reply(n, what) ==
  /\ serve' = Set(serve, n, "none") /\ asked' = Set(asked, n, FALSE)
  /\ answer' = IF call[Other(n)] = "sent" THEN Set(answer, Other(n), what) ELSE answer

\* The explicit request of a deleted node, where requests are accepted unasked:
\* AutoReaccept clears the tombstone, and goes on to remember the node as trusted.
ServeReaccept(n) ==
  /\ serve[n] = "tomb"
  /\ AutoReaccepts(n) /\ ClearUnfriended(n)
  /\ serve' = Set(serve, n, "reaccept")
  /\ UNCHANGED <<trusted, pending, table, dialer, asked, ops, notice, orders>>

\* rememberPeer, which a deletion in between refuses.
ServeRemember(n) ==
  /\ serve[n] = "reaccept"
  /\ IF MayUpsert(n)
     THEN serve' = Set(serve, n, "unguard") /\ SetTrusted(n, TRUE)
     ELSE serve' = Set(serve, n, "told") /\ UNCHANGED <<trusted, pending>>
  /\ UNCHANGED <<tomb, table, dialer, asked, ops, notice, orders>>

\* The guard is lifted, and the policy is not asked again.
ServeUnguard(n) ==
  /\ serve[n] = "unguard"
  /\ guard' = Set(guard, n, FALSE)
  /\ serve' = Set(serve, n, "insert")
  /\ UNCHANGED <<book, member, dialer, asked, ops, notice, orders>>

\* The tombstone comes first: the deletion is told once, and marked before it is.
ServeTomb(n) ==
  /\ \/ serve[n] = "tomb" /\ ~AutoReaccepts(n)
     \/ serve[n] = "told"
  /\ IF IsOwed(n)
     THEN MarkUnfriendedNotified(n) /\ Reply(n, "unfriended")
     ELSE serve' = Set(serve, n, "trust") /\ UNCHANGED <<tomb, asked, answer>>
  /\ UNCHANGED <<trusted, pending, table, call, explicit, ops, notice, orders>>

\* trustPolicy for an explicit request, trustPolicyPassive for any other.
ServeTrust(n) ==
  /\ serve[n] = "trust"
  /\ \/ Trusts(n) /\ serve' = Set(serve, n, "insert") /\ UNCHANGED <<book, asked, answer>>
     \/ /\ ~Trusts(n) /\ AutoAccepts(n)
        /\ SetTrusted(n, TRUE) /\ serve' = Set(serve, n, "insert")
        /\ UNCHANGED <<tomb, asked, answer>>
     \/ /\ ~Trusts(n) /\ ~AutoAccepts(n)
        /\ IF asked[n] /\ ~IsOwed(n) THEN OnPendingRequest(n) ELSE UNCHANGED pending
        /\ Reply(n, "not_approved")
        /\ UNCHANGED <<trusted, tomb>>
  /\ UNCHANGED <<table, call, explicit, ops, notice, orders>>

\* Under the lock: a guarded node is not inserted, and gets no answer at all.
ServeInsert(n) ==
  /\ serve[n] = "insert"
  /\ IF ~member[n] /\ guard[n]
     THEN Reply(n, "silence") /\ UNCHANGED member
     ELSE Reply(n, "welcome") /\ member' = Set(member, n, TRUE)
  /\ UNCHANGED <<book, guard, call, explicit, ops, notice, orders>>

-----------------------------------------------------------------------------

\* What the user can ask for.
ConnectPeer(n)    == Add(n)
ResolvePending(n) == Approve(n) \/ Delete(n, "reject")
ApiRemovePeer(n)  == Delete(n, "remove")

Console(n) == ConnectPeer(n) \/ ResolvePending(n) \/ ApiRemovePeer(n)

Adding(n)  == AddCheck(n) \/ AddAdmit(n) \/ AddSeed(n) \/ ApproveCheck(n) \/ ApproveAdmit(n)

Deleting(n) == Forget(n) \/ Push(n) \/ Mark(n) \/ Noticed(n) \/ Callback(n)

Calling(n) == CallUntrusted(n) \/ CallSends(n) \/ CallRejected(n) \/ CallAccepted(n)

Serving(n) ==
  \/ ServeReaccept(n) \/ ServeRemember(n) \/ ServeUnguard(n) \/ ServeTomb(n)
  \/ ServeTrust(n) \/ ServeInsert(n)

Next ==
  \E n \in Nodes :
    \/ Console(n) \/ Adding(n) \/ Deleting(n) \/ NoticeLost(n) \/ GuardExpires(n)
    \/ Discover(n) \/ DiscoverAdmit(n)
    \/ CallStarts(n) \/ Calling(n) \/ CallBreaks(n) \/ Serving(n)

Spec == Init /\ [][Next]_vars

-----------------------------------------------------------------------------
(* Properties *)

Busy(n) ==
  \/ serve[n] # "none" \/ call[n] # "none" \/ wanted[n]
  \/ adding[n] # "no" \/ approving[n] # "no" \/ deleting[n] # "no"
  \/ discovering[n] \/ callback[n]

\* Every variable has its type; no notice is marked or received that was not written.
TypeOK ==
  /\ trusted \in [Nodes -> BOOLEAN] /\ tomb \in [Nodes -> {"none", "owed", "told"}]
  /\ pending \in [Nodes -> BOOLEAN]
  /\ member \in [Nodes -> BOOLEAN] /\ guard \in [Nodes -> BOOLEAN]
  /\ call \in [Nodes -> {"none", "check", "sent"}] /\ explicit \in [Nodes -> BOOLEAN]
  /\ answer \in [Nodes -> {"none", "welcome", "not_approved", "unfriended", "silence"}]
  /\ serve \in [Nodes -> {"none", "tomb", "reaccept", "unguard", "told", "trust", "insert"}]
  /\ asked \in [Nodes -> BOOLEAN]
  /\ adding \in [Nodes -> {"no", "request", "seed", "admit"}]
  /\ deleting \in [Nodes -> {"no", "remove", "reject"}]
  /\ approving \in [Nodes -> {"no", "check", "admit"}]
  /\ discovering \in [Nodes -> BOOLEAN] /\ wanted \in [Nodes -> BOOLEAN]
  /\ toPush \in [Nodes -> Nat] /\ toMark \in [Nodes -> Nat] /\ push \in [Nodes -> Nat]
  /\ callback \in [Nodes -> BOOLEAN] /\ orders \in 0 .. MaxOrders

\* What a deletion decided stays: whatever restoration or handshake overlaps it, no trust
\* is left beside its tombstone.
TombstoneBeatsTrust == \A n \in Nodes : trusted[n] => tomb[n] = "none"

\* Nodes that accept nobody unasked, and whose user waits for one order to end before the
\* next is given.
Calm == {n \in Nodes \ AutoAccept : n \in Users => n \in Patient}

\* A deleted node does not come back: when nothing is under way any more, no handshake, no
\* reconnection and no discovery that had passed the trust check before has put it into the
\* table of a calm node.
Ghost(n) == tomb[n] # "none" /\ ~Busy(n) /\ member[n]
NoGhost == \A n \in Calm : ~Ghost(n)

\* The same for every node does not hold.
NoGhostAnywhere == \A n \in Nodes : ~Ghost(n)

\* The guard only keeps out those whose trust is not restored: a handshake that was
\* let through because of trust is answered, once the order that restored the trust has
\* run to its end, and no notice is about to take the trust away.
GuardSparesTrusted ==
  [][\A n \in Nodes :
       /\ serve[n] = "insert" /\ serve'[n] = "none" /\ Trusts(n)
       /\ adding[n] = "no" /\ approving[n] = "no" /\ deleting[n] = "no" /\ ~wanted[n]
       /\ ~callback[n]
       => answer'[Other(n)] # "silence"]_vars

\* What the code keeps going: a console operation, a goroutine, a handler and a call run
\* on to their end, and discovery calls a trusted node again and again.  The guard is
\* looked at against the clock.
Fairness ==
  \A n \in Nodes :
    /\ WF_vars(Adding(n)) /\ WF_vars(Forget(n)) /\ WF_vars(Push(n)) /\ WF_vars(Mark(n))
    /\ WF_vars(Noticed(n)) /\ WF_vars(Callback(n)) /\ WF_vars(DiscoverAdmit(n))
    /\ WF_vars(CallStarts(n)) /\ WF_vars(Calling(n)) /\ WF_vars(Serving(n))
    /\ SF_vars(GuardExpires(n))

FairSpec == Spec /\ Fairness

\* Two nodes that go on trusting each other end up in each other's table, whatever
\* deletion they come from - if a node is at rest between its calls now and then, which
\* the 30 s between two rounds of discovery leave room for.
FriendsMeet ==
  <>[](\A n \in Nodes : Trusts(n)) /\ (\A n \in Nodes : []<>~Busy(n))
    => <>[](\A n \in Nodes : member[n])

\* A friend that was removed loses its trust in the node that removed it, unless the
\* friendship is restored first.
DeletionSpreads ==
  \A n \in Nodes : deleting[n] = "remove" ~> (~trusted[Other(n)] \/ trusted[n])

=============================================================================
