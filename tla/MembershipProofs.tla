--------------------------- MODULE MembershipProofs ---------------------------
(***************************************************************************)
(* What is proved of membership, for every value of the constants: of      *)
(* trust and tombstones (Friendship), of the addresses and so of the       *)
(* member table, which changes the members by its actions alone            *)
(* (VirtualIPs, MemberLife), and of the calls that look for members        *)
(* (DiscoveryScheduler).                                                   *)
(***************************************************************************)
EXTENDS Friendship, MemberLife, DiscoveryScheduler, FiniteSetTheorems,
        WellFoundedInduction, TLAPS

-----------------------------------------------------------------------------
(* Trust and tombstones *)

LEMMA OtherIs == \A n \in Nodes : Other(n) \in Nodes /\ Other(n) # n
<1> SUFFICES ASSUME NEW n \in Nodes PROVE \E m \in Nodes : m # n
  BY DEF Other
<1>1. Cardinality({n}) = 1
  BY FS_Singleton
<1> QED
  BY <1>1, FriendshipAssumption

-----------------------------------------------------------------------------
(* Types *)

LEMMA TypeBegins == Init => TypeOK
<1> SUFFICES ASSUME Init PROVE TypeOK
  OBVIOUS
<1>1. orders \in 0 .. MaxOrders
  <2>1. PICK W \in SUBSET Warm : orders = Cardinality(W)
    BY FriendshipAssumption DEF Init, StartWarmup, PickWarmupTargets
  <2>2. IsFiniteSet(Warm)
    BY FriendshipAssumption, FS_Subset
  <2>3. Cardinality(W) \in Nat /\ Cardinality(W) <= Cardinality(Warm) /\ Cardinality(Warm) \in Nat
    BY <2>2, FS_Subset, FS_CardinalityType
  <2> QED
    BY <2>1, <2>3, FriendshipAssumption
<1>2. approving \in [Nodes -> {"no", "check"}]
  BY DEF Init, StartWarmup
<1>3. trusted \in [Nodes -> BOOLEAN] /\ member \in [Nodes -> BOOLEAN]
  BY DEF Init
<1> QED
  BY <1>1, <1>2, <1>3 DEF Init, TypeOK

LEMMA ConsoleType == ASSUME TypeOK, NEW n \in Nodes, Console(n) PROVE TypeOK'
<1> USE FriendshipAssumption
    DEF Set, book, table, dialer, server, ops, notice, Order, SetTrusted, ClearUnfriended
<1>1. CASE Add(n)
  BY <1>1 DEF Add, Restore, ConnectSeed, ConnectByID, FindPeer, TypeOK
<1>2. CASE Approve(n)
  BY <1>2 DEF Approve, Restore, TypeOK
<1>3. ASSUME NEW how \in {"remove", "reject"}, Delete(n, how) PROVE TypeOK'
  BY <1>3 DEF Delete, RemovePeer, TypeOK
<1> QED
  BY <1>1, <1>2, <1>3 DEF Console, ConnectPeer, ResolvePending, ApiRemovePeer

LEMMA AddingType == ASSUME TypeOK, NEW n \in Nodes, Adding(n) PROVE TypeOK'
<1> USE DEF Set, book, table, dialer, server, ops, notice
<1>1. CASE AddCheck(n)
  BY <1>1 DEF AddCheck, TypeOK
<1>2. CASE AddAdmit(n)
  BY <1>2 DEF AddAdmit, TypeOK
<1>3. CASE AddSeed(n)
  BY <1>3 DEF AddSeed, TypeOK
<1>4. CASE ApproveCheck(n)
  BY <1>4 DEF ApproveCheck, TypeOK
<1>5. CASE ApproveAdmit(n)
  BY <1>5 DEF ApproveAdmit, TypeOK
<1> QED
  BY <1>1, <1>2, <1>3, <1>4, <1>5 DEF Adding

LEMMA DeletingType ==
  ASSUME TypeOK, NEW n \in Nodes, Deleting(n) \/ NoticeLost(n) \/ GuardExpires(n)
  PROVE  TypeOK'
<1> USE DEF Set, book, table, dialer, server, ops, notice
<1>1. CASE Forget(n)
  BY <1>1 DEF Forget, TypeOK
<1>2. CASE Push(n)
  BY <1>2, OtherIs DEF Push, TypeOK
<1>3. CASE Mark(n)
  BY <1>3 DEF Mark, MarkUnfriendedNotified, TypeOK
<1>4. CASE Noticed(n)
  BY <1>4 DEF Noticed, TypeOK
<1>7. CASE NoticeLost(n)
  BY <1>7 DEF NoticeLost, TypeOK
<1>5. CASE Callback(n)
  BY <1>5 DEF Callback, SetTrusted, TypeOK
<1>6. CASE GuardExpires(n)
  BY <1>6 DEF GuardExpires, TypeOK
<1> QED
  BY <1>1, <1>2, <1>3, <1>4, <1>5, <1>6, <1>7 DEF Deleting

LEMMA CallingType ==
  ASSUME TypeOK, NEW n \in Nodes,
         Discover(n) \/ DiscoverAdmit(n) \/ CallStarts(n) \/ Calling(n) \/ CallBreaks(n)
  PROVE  TypeOK'
<1> USE DEF Set, book, table, dialer, server, ops, notice, CallEnds
<1>1. CASE Discover(n)
  BY <1>1 DEF Discover, TypeOK
<1>2. CASE DiscoverAdmit(n)
  BY <1>2 DEF DiscoverAdmit, TypeOK
<1>3. CASE CallStarts(n)
  BY <1>3 DEF CallStarts, TypeOK
<1>4. CASE CallBreaks(n)
  BY <1>4 DEF CallBreaks, TypeOK
<1>5. CASE CallUntrusted(n)
  BY <1>5 DEF CallUntrusted, TypeOK
<1>6. CASE CallRejected(n)
  BY <1>6 DEF CallRejected, TypeOK
<1>7. CASE CallAccepted(n)
  BY <1>7 DEF CallAccepted, TypeOK
<1>8. CASE CallSends(n)
  BY <1>8, OtherIs DEF CallSends, TypeOK
<1> QED
  BY <1>1, <1>2, <1>3, <1>4, <1>5, <1>6, <1>7, <1>8 DEF Calling

LEMMA ServingType == ASSUME TypeOK, NEW n \in Nodes, Serving(n) PROVE TypeOK'
<1> USE DEF Set, book, table, dialer, server, ops, notice
<1>1. CASE ServeReaccept(n)
  BY <1>1 DEF ServeReaccept, ClearUnfriended, TypeOK
<1>0. ASSUME SetTrusted(n, TRUE) \/ UNCHANGED <<trusted, pending>>
      PROVE  trusted' \in [Nodes -> BOOLEAN] /\ pending' \in [Nodes -> BOOLEAN]
  <2>1. CASE SetTrusted(n, TRUE)
    BY <2>1 DEF SetTrusted, TypeOK
  <2>2. CASE UNCHANGED <<trusted, pending>>
    BY <2>2 DEF TypeOK
  <2> QED
    BY <1>0, <2>1, <2>2
<1>6. CASE ServeRemember(n)
  <2>1. serve' \in [Nodes -> {"none", "tomb", "reaccept", "unguard", "told", "trust", "insert"}]
    <3>1. serve' = [serve EXCEPT ![n] = "unguard"] \/ serve' = [serve EXCEPT ![n] = "told"]
      BY <1>6 DEF ServeRemember
    <3> QED
      BY <3>1 DEF TypeOK
  <2> QED
    BY <1>0, <1>6, <2>1 DEF ServeRemember, TypeOK
<1>7. CASE ServeUnguard(n)
  BY <1>7 DEF ServeUnguard, TypeOK
<1>2. ASSUME NEW what \in {"welcome", "not_approved", "unfriended", "silence"}, Reply(n, what)
      PROVE  /\ serve' \in [Nodes -> {"none", "tomb", "reaccept", "unguard", "told", "trust", "insert"}]
             /\ asked' \in [Nodes -> BOOLEAN]
             /\ answer' \in [Nodes -> {"none", "welcome", "not_approved", "unfriended", "silence"}]
  BY <1>2, OtherIs DEF Reply, TypeOK
<1>3. CASE ServeTomb(n)
  BY <1>2, <1>3 DEF ServeTomb, MarkUnfriendedNotified, TypeOK
<1>4. CASE ServeTrust(n)
  <2>0. trusted' \in [Nodes -> BOOLEAN] /\ pending' \in [Nodes -> BOOLEAN]
    <3>1. CASE SetTrusted(n, TRUE) \/ UNCHANGED <<trusted, pending>>
      BY <1>0, <3>1
    <3>2. CASE pending' = [pending EXCEPT ![n] = TRUE] /\ UNCHANGED trusted
      BY <3>2 DEF TypeOK
    <3> QED
      BY <1>4, <3>1, <3>2 DEF ServeTrust, OnPendingRequest, AddPending
  <2>1. \/ Reply(n, "not_approved")
        \/ serve' = [serve EXCEPT ![n] = "insert"] /\ UNCHANGED <<asked, answer>>
    BY <1>4 DEF ServeTrust
  <2>2. /\ serve' \in [Nodes -> {"none", "tomb", "reaccept", "unguard", "told", "trust", "insert"}]
        /\ asked' \in [Nodes -> BOOLEAN]
        /\ answer' \in [Nodes -> {"none", "welcome", "not_approved", "unfriended", "silence"}]
    BY <1>2, <2>1 DEF TypeOK
  <2>3. UNCHANGED <<tomb, table, call, explicit, ops, notice, orders>>
    BY <1>4 DEF ServeTrust, SetTrusted
  <2> QED
    BY <2>0, <2>2, <2>3 DEF TypeOK
<1>5. CASE ServeInsert(n)
  <2>1. /\ member' \in [Nodes -> BOOLEAN]
        /\ Reply(n, "silence") \/ Reply(n, "welcome")
    BY <1>5 DEF ServeInsert, TypeOK
  <2>2. UNCHANGED <<book, guard, call, explicit, ops, notice, orders>>
    BY <1>5 DEF ServeInsert
  <2> QED
    BY <1>2, <2>1, <2>2 DEF TypeOK
<1> QED
  BY <1>1, <1>3, <1>4, <1>5, <1>6, <1>7 DEF Serving

LEMMA TypeStep == TypeOK /\ [Next]_vars => TypeOK'
<1>1. ASSUME TypeOK, Next PROVE TypeOK'
  BY <1>1, ConsoleType, AddingType, DeletingType, CallingType, ServingType DEF Next
<1>2. ASSUME TypeOK, UNCHANGED vars PROVE TypeOK'
  BY <1>2 DEF TypeOK, vars, book, table, dialer, server, ops, notice
<1> QED
  BY <1>1, <1>2

\* Every variable has its type; in particular no notice is marked or received that was not
\* written.
THEOREM TypeCorrect == Spec => []TypeOK
BY TypeBegins, TypeStep, PTL DEF Spec

-----------------------------------------------------------------------------
(* The address book *)

\* What writes to the address book: a step of one node, to its own.
LEMMA BookSteps ==
  ASSUME TypeOK, NEW n \in Nodes, NEW m \in Nodes,
         Console(n) \/ Deleting(n) \/ Serving(n), trusted[m] => tomb[m] = "none"
  PROVE  trusted'[m] => tomb'[m] = "none"
<1> USE DEF Set, book, SetTrusted, ClearUnfriended, IsUnfriended
<1>1. CASE Console(n)
  <2>1. CASE Add(n) \/ Approve(n)
    BY <2>1 DEF Add, Approve, Restore, TypeOK
  <2>2. ASSUME NEW how, Delete(n, how) PROVE trusted'[m] => tomb'[m] = "none"
    BY <2>2 DEF Delete, RemovePeer, TypeOK
  <2> QED
    BY <1>1, <2>1, <2>2 DEF Console, ConnectPeer, ResolvePending, ApiRemovePeer
<1>2. CASE Deleting(n)
  <2>1. CASE Mark(n)
    BY <2>1 DEF Mark, MarkUnfriendedNotified, TypeOK
  <2>2. CASE Callback(n)
    BY <2>2 DEF Callback, TypeOK
  <2> QED
    BY <1>2, <2>1, <2>2 DEF Deleting, Forget, Push, Noticed
<1>3. CASE Serving(n)
  <2>1. CASE ServeReaccept(n)
    BY <2>1 DEF ServeReaccept, TypeOK
  <2>2. CASE ServeRemember(n)
    BY <2>2 DEF ServeRemember, MayUpsert, TypeOK
  <2>3. CASE ServeTomb(n)
    BY <2>3 DEF ServeTomb, MarkUnfriendedNotified, TypeOK
  <2>4. CASE ServeTrust(n)
    BY <2>4 DEF ServeTrust, AutoAccepts, TypeOK
  <2> QED
    BY <1>3, <2>1, <2>2, <2>3, <2>4 DEF Serving, ServeUnguard, ServeInsert
<1> QED
  BY <1>1, <1>2, <1>3

\* Whatever overlaps a deletion - a restoration, an automatic acceptance, a late mark - no
\* trust is left beside its tombstone.
THEOREM DeletionWins == Spec => []TombstoneBeatsTrust
<1>1. Init => TombstoneBeatsTrust
  BY DEF Init, TombstoneBeatsTrust
<1>2. TypeOK /\ TombstoneBeatsTrust /\ [Next]_vars => TombstoneBeatsTrust'
  <2> SUFFICES ASSUME TypeOK, TombstoneBeatsTrust, [Next]_vars, NEW m \in Nodes
               PROVE  trusted'[m] => tomb'[m] = "none"
    BY DEF TombstoneBeatsTrust
  <2>1. CASE \E n \in Nodes : Console(n) \/ Deleting(n) \/ Serving(n)
    BY <2>1, BookSteps DEF TombstoneBeatsTrust
  <2>2. CASE UNCHANGED <<trusted, tomb>>
    BY <2>2 DEF TombstoneBeatsTrust
  <2>3. ASSUME NEW n \in Nodes,
               \/ Adding(n) \/ NoticeLost(n) \/ GuardExpires(n) \/ Discover(n) \/ DiscoverAdmit(n)
               \/ CallStarts(n) \/ Calling(n) \/ CallBreaks(n)
        PROVE  UNCHANGED <<trusted, tomb>>
    BY <2>3 DEF book, Adding, AddCheck, AddAdmit, AddSeed, ApproveCheck, ApproveAdmit, NoticeLost,
         GuardExpires, Discover, DiscoverAdmit, CallStarts, Calling, CallUntrusted, CallSends,
         CallRejected, CallAccepted, CallBreaks
  <2> QED
    BY <2>1, <2>2, <2>3 DEF Next, vars, book
<1> QED
  BY <1>1, <1>2, TypeBegins, TypeStep, PTL DEF Spec

-----------------------------------------------------------------------------
(* A deleted node does not come back *)

\* Once a deletion has run to its end the other node is out of the table, and as long as a
\* handler, a reconnection or a discovery that passed the trust check before is under way,
\* there is the guard to stop it.
Gone(n) ==
  /\ serve[n] \in {"none", "tomb", "trust", "insert"}
  /\ deleting[n] # "no" => tomb[n] # "none"
  /\ tomb[n] # "none" => adding[n] = "no" /\ ~wanted[n] /\ ~explicit[n]
  /\ tomb[n] # "none" /\ deleting[n] = "no" =>
       /\ ~member[n]
       /\ guard[n] \/ (serve[n] # "insert" /\ approving[n] # "admit" /\ ~discovering[n])

LEMMA ConsoleGone ==
  ASSUME TypeOK, NEW n \in Nodes, NEW m \in Calm, Gone(m), Console(n) PROVE Gone(m)'
<1> USE DEF Set, table, dialer, server, notice, Order, ClearUnfriended
<1>0. m \in Nodes
  BY DEF Calm
<1>1. CASE Add(n)
  BY <1>0, <1>1 DEF Add, Restore, ConnectSeed, ConnectByID, FindPeer, TypeOK, Gone, Calm
<1>2. CASE Approve(n)
  BY <1>0, <1>2 DEF Approve, Restore, TypeOK, Gone, Calm
<1>3. ASSUME NEW how \in {"remove", "reject"}, Delete(n, how) PROVE Gone(m)'
  BY <1>0, <1>3 DEF Delete, RemovePeer, TypeOK, Gone, Calm
<1> QED
  BY <1>1, <1>2, <1>3 DEF Console, ConnectPeer, ResolvePending, ApiRemovePeer

LEMMA AddingGone ==
  ASSUME TypeOK, NEW n \in Nodes, NEW m \in Nodes, Gone(m), Adding(n) PROVE Gone(m)'
<1> USE DEF Set, book, table, dialer, server, notice, Trusts, IsUnfriended
<1>1. CASE AddCheck(n)
  BY <1>1 DEF AddCheck, TypeOK, Gone
<1>2. CASE AddAdmit(n)
  BY <1>2 DEF AddAdmit, TypeOK, Gone
<1>3. CASE AddSeed(n)
  BY <1>3 DEF AddSeed, TypeOK, Gone
<1>4. CASE ApproveCheck(n)
  BY <1>4 DEF ApproveCheck, TypeOK, Gone
<1>5. CASE ApproveAdmit(n)
  BY <1>5 DEF ApproveAdmit, TypeOK, Gone
<1> QED
  BY <1>1, <1>2, <1>3, <1>4, <1>5 DEF Adding

LEMMA DeletingGone ==
  ASSUME TypeOK, NEW n \in Nodes, NEW m \in Nodes, Gone(m),
         Deleting(n) \/ NoticeLost(n) \/ GuardExpires(n)
  PROVE  Gone(m)'
<1> USE DEF Set, book, table, dialer, server, ops, notice
<1>1. CASE Forget(n)
  BY <1>1 DEF Forget, TypeOK, Gone
<1>2. CASE Push(n) \/ NoticeLost(n)
  BY <1>2 DEF Push, NoticeLost, Gone
<1>3. CASE Mark(n)
  BY <1>3 DEF Mark, MarkUnfriendedNotified, IsUnfriended, TypeOK, Gone
<1>4. CASE Noticed(n)
  BY <1>4 DEF Noticed, TypeOK, Gone
<1>5. CASE Callback(n)
  BY <1>5 DEF Callback, SetTrusted, Gone
<1>6. CASE GuardExpires(n)
  BY <1>6 DEF GuardExpires, TypeOK, Gone
<1> QED
  BY <1>1, <1>2, <1>3, <1>4, <1>5, <1>6 DEF Deleting

LEMMA CallingGone ==
  ASSUME TypeOK, NEW n \in Nodes, NEW m \in Nodes, Gone(m),
         Discover(n) \/ DiscoverAdmit(n) \/ CallStarts(n) \/ Calling(n) \/ CallBreaks(n)
  PROVE  Gone(m)'
<1> USE DEF Set, book, table, dialer, server, ops, notice, CallEnds, Trusts, IsUnfriended
<1>1. CASE Discover(n)
  BY <1>1 DEF Discover, TypeOK, Gone
<1>2. CASE DiscoverAdmit(n)
  BY <1>2 DEF DiscoverAdmit, TypeOK, Gone
<1>3. CASE CallStarts(n)
  BY <1>3 DEF CallStarts, TypeOK, Gone
<1>4. CASE CallBreaks(n)
  BY <1>4 DEF CallBreaks, TypeOK, Gone
<1>5. CASE CallUntrusted(n)
  BY <1>5 DEF CallUntrusted, TypeOK, Gone
<1>6. CASE CallRejected(n)
  BY <1>6 DEF CallRejected, TypeOK, Gone
<1>7. CASE CallAccepted(n)
  BY <1>7 DEF CallAccepted, TypeOK, Gone
<1>8. CASE CallSends(n)
  BY <1>8, OtherIs DEF CallSends, TypeOK, Gone
<1> QED
  BY <1>1, <1>2, <1>3, <1>4, <1>5, <1>6, <1>7, <1>8 DEF Calling

LEMMA ServingGone ==
  ASSUME TypeOK, NEW n \in Nodes, NEW m \in Calm, Gone(m), Serving(n) PROVE Gone(m)'
<1> USE DEF Set, book, table, dialer, server, ops, notice
<1>0. m \in Nodes /\ m \notin AutoAccept
  BY DEF Calm
<1>1. CASE ServeReaccept(n)
  BY <1>0, <1>1 DEF ServeReaccept, AutoReaccepts, ClearUnfriended, TypeOK, Gone
<1>2. CASE ServeRemember(n)
  <2>1. n # m
    BY <1>2 DEF ServeRemember, Gone
  <2>2. serve'[m] = serve[m] /\ UNCHANGED <<tomb, table, explicit, ops>>
    BY <1>0, <1>2, <2>1 DEF ServeRemember, TypeOK
  <2> QED
    BY <2>2 DEF Gone
<1>3. CASE ServeUnguard(n)
  BY <1>0, <1>3 DEF ServeUnguard, TypeOK, Gone
<1>4. CASE ServeTomb(n)
  BY <1>0, <1>4 DEF ServeTomb, MarkUnfriendedNotified, IsUnfriended, Reply, TypeOK, Gone
<1>5. CASE ServeTrust(n)
  BY <1>0, <1>5 DEF ServeTrust, AutoAccepts, Trusts, IsUnfriended, SetTrusted, OnPendingRequest,
                    AddPending, Reply, TypeOK, Gone
<1>6. CASE ServeInsert(n)
  BY <1>0, <1>6 DEF ServeInsert, Reply, TypeOK, Gone
<1> QED
  BY <1>1, <1>2, <1>3, <1>4, <1>5, <1>6 DEF Serving

\* Where nobody is accepted unasked and the user waits: after a deletion no handshake, no
\* reconnection and no discovery that had passed the trust check before it puts the deleted
\* node back into the table, in whatever order their steps and the expiry of the guard come,
\* whatever the other node accepts, for any number of orders and any losses.
THEOREM GoneForGood == Spec => []NoGhost
<1> DEFINE AllGone == \A n \in Calm : Gone(n)
<1>1. Init => AllGone
  BY DEF Init, StartWarmup, Calm, Gone
<1>2. TypeOK /\ AllGone /\ [Next]_vars => AllGone'
  <2> SUFFICES ASSUME TypeOK, AllGone, [Next]_vars, NEW m \in Calm PROVE Gone(m)'
    BY DEF Calm
  <2>0. m \in Nodes /\ Gone(m)
    BY DEF Calm
  <2>1. CASE Next
    BY <2>0, <2>1, ConsoleGone, AddingGone, DeletingGone, CallingGone, ServingGone DEF Next
  <2>2. CASE UNCHANGED vars
    BY <2>0, <2>2 DEF vars, book, table, dialer, server, ops, notice, Gone
  <2> QED
    BY <2>1, <2>2
<1>3. AllGone => NoGhost
  BY DEF Gone, Busy, Ghost, NoGhost
<1> QED
  BY <1>1, <1>2, <1>3, TypeBegins, TypeStep, PTL DEF Spec

-----------------------------------------------------------------------------
(* The decision *)

\* Any set of numbers has a least element, or there would be no end to finding lesser ones.
LEMMA LeastNumber ==
  ASSUME NEW S \in SUBSET Nat, S # {} PROVE \E x \in S : \A y \in S : x <= y
<1> DEFINE Less == OpToRel(<, Nat)
<1>1. IsWellFoundedOn(Less, Nat)
  BY NatLessThanWellFounded
<1>2. \A x, y \in Nat : x < y => <<x, y>> \in Less
  BY DEF OpToRel
<1> HIDE DEF Less
<1>3. PICK x \in S : \A y \in S : ~(<<y, x>> \in Less)
  BY <1>1, WFMin
<1>4. ASSUME NEW y \in S PROVE x <= y
  <2>1. x \in Nat /\ y \in Nat /\ ~(<<y, x>> \in Less)
    BY <1>3
  <2>2. ~(y < x)
    BY <1>2, <2>1
  <2> QED
    BY <2>1, <2>2
<1> QED
  BY <1>4

\* The peers are numbers, so that of any there is a least one.
LEMMA LeastIs ==
  ASSUME NEW S \in SUBSET Nat, S # {}
  PROVE  Least(S) \in S /\ \A x \in S : Least(S) <= x
BY LeastNumber DEF Least

\* What the hashes are was decided once and for all.
Hashes == base \in [Ids -> Addresses] /\ salted \in [Others -> [Salts -> Addresses]]

\* The next peer chooses: what is taken after it.
Chosen(i, S, before) ==
  IF Reassigned(i, S) /\ Free(i, before) # {} THEN before \union {salted[i][Least(Free(i, before))]}
  ELSE before

\* The recursion has a solution, for as many peers as there are: without it nothing would
\* be known of what Taken is.
LEMMA TakenExists ==
  ASSUME NEW S
  PROVE  \E t : t = [i \in 0 .. MaxId |-> IF i = 0 THEN Kept(S) ELSE Chosen(i, S, t[i - 1])]
<1> DEFINE Upto(n) ==
             \E t : t = [i \in 0 .. n |-> IF i = 0 THEN Kept(S) ELSE Chosen(i, S, t[i - 1])]
           Bad == {n \in Nat : ~Upto(n)}
<1>1. SUFFICES ASSUME Bad # {} PROVE FALSE
  BY VirtualIPsAssumption
<1>2. PICK n \in Bad : \A m \in Bad : n <= m
  BY <1>1, LeastNumber
<1>3. CASE n = 0
  <2>1. [i \in 0 .. 0 |-> Kept(S)] =
          [i \in 0 .. 0 |-> IF i = 0 THEN Kept(S)
                            ELSE Chosen(i, S, [j \in 0 .. 0 |-> Kept(S)][i - 1])]
    OBVIOUS
  <2> QED
    BY <1>2, <1>3, <2>1
<1>4. CASE n > 0
  <2>1. n - 1 \in Nat /\ n - 1 \notin Bad
    BY <1>2, <1>4
  <2>2. PICK t : t = [i \in 0 .. n - 1 |-> IF i = 0 THEN Kept(S) ELSE Chosen(i, S, t[i - 1])]
    BY <2>1
  <2> DEFINE u == [i \in 0 .. n |-> IF i = n THEN Chosen(n, S, t[n - 1]) ELSE t[i]]
  <2>3. \A i \in 0 .. n : u[i] = IF i = 0 THEN Kept(S) ELSE Chosen(i, S, u[i - 1])
    <3> TAKE i \in 0 .. n
    <3>1. CASE i = n
      <4>1. u[n] = Chosen(n, S, t[n - 1]) /\ u[n - 1] = t[n - 1]
        BY <1>4, <2>1
      <4> QED
        BY <1>4, <3>1, <4>1
    <3>2. CASE i < n /\ i > 0
      <4>1. u[i] = t[i] /\ u[i - 1] = t[i - 1]
        BY <3>2, <2>1
      <4>2. t[i] = Chosen(i, S, t[i - 1])
        BY <2>2, <3>2, <2>1
      <4> QED
        BY <3>2, <4>1, <4>2
    <3>3. CASE i < n /\ i = 0
      BY <2>2, <3>3, <2>1
    <3> QED
      BY <3>1, <3>2, <3>3, <2>1
  <2>4. u = [i \in 0 .. n |-> IF i = 0 THEN Kept(S) ELSE Chosen(i, S, u[i - 1])]
    BY <2>3
  <2> QED
    BY <1>2, <2>4
<1> QED
  BY <1>2, <1>3, <1>4

\* What is taken is the addresses that conflict and what those before have chosen.
LEMMA TakenUnfolds ==
  ASSUME NEW S
  PROVE  /\ Taken(S)[0] = Kept(S)
         /\ \A i \in 1 .. MaxId : Taken(S)[i] = Chosen(i, S, Taken(S)[i - 1])
<1> DEFINE F(t) == [i \in 0 .. MaxId |-> IF i = 0 THEN Kept(S) ELSE Chosen(i, S, t[i - 1])]
<1>1. Taken(S) = CHOOSE t : t = F(t)
  BY DEF Taken, Chosen
<1>2. \E t : t = F(t)
  BY TakenExists
<1>3. Taken(S) = F(Taken(S))
  BY <1>1, <1>2
<1> QED
  BY <1>3, VirtualIPsAssumption

\* As long as the hashes stay, so does the decision.
LEMMA DecideStays ==
  ASSUME NEW S, UNCHANGED <<base, salted>> PROVE Decide(S)' = Decide(S)
<1>1. Taken(S)' = Taken(S)
  BY SMT DEF Taken, Kept, Free, Reassigned, Group, Least
<1> QED
  BY <1>1 DEF Decide, Free, Reassigned, Group, Least

LEMMA DecideIs ==
  ASSUME Hashes, NEW S \in SUBSET Others
  PROVE  /\ DOMAIN Decide(S) = S /\ Decide(S) = [i \in S |-> Decide(S)[i]]
         /\ \A i \in S : /\ Decide(S)[i].base = base[i] /\ Decide(S)[i].ip \in Addresses
                         /\ Decide(S)[i].unresolved \in BOOLEAN
                         /\ ~Reassigned(i, S) => /\ Decide(S)[i].ip = base[i]
                                                 /\ Decide(S)[i].salt = 0
                                                 /\ Decide(S)[i].losers = Group(i, S) \ {i}
                         /\ Reassigned(i, S) => Decide(S)[i].losers = {}
<1> DEFINE free(i) == Free(i, Taken(S)[i - 1])
           salt(i) == IF Reassigned(i, S) /\ free(i) # {} THEN Least(free(i)) ELSE 0
<1>1. ASSUME NEW i \in S
      PROVE  salt(i) = 0 \/ salted[i][salt(i)] \in Addresses
  <2>1. free(i) \in SUBSET Salts /\ Salts \in SUBSET Nat
    BY VirtualIPsAssumption DEF Free, Salts
  <2>2. free(i) # {} => Least(free(i)) \in Salts
    BY <2>1, LeastIs
  <2> QED
    BY <2>2 DEF Hashes
<1> HIDE DEF free
<1>2. Decide(S) = [i \in S |->
         [base |-> base[i], ip |-> IF salt(i) = 0 THEN base[i] ELSE salted[i][salt(i)],
          salt |-> salt(i), losers |-> IF Reassigned(i, S) THEN {} ELSE Group(i, S) \ {i},
          unresolved |-> Reassigned(i, S) /\ salt(i) = 0]]
  BY DEF Decide, free
<1>3. \A i \in S : ~Reassigned(i, S) => salt(i) = 0
  OBVIOUS
<1>4. \A i \in S : base[i] \in Addresses
  BY DEF Hashes, Others
<1> HIDE DEF salt
<1>5. DOMAIN Decide(S) = S /\ Decide(S) = [i \in S |-> Decide(S)[i]]
  BY <1>2
<1>6. ASSUME NEW i \in S
      PROVE  /\ Decide(S)[i].base = base[i]
             /\ Decide(S)[i].ip = IF salt(i) = 0 THEN base[i] ELSE salted[i][salt(i)]
             /\ Decide(S)[i].salt = salt(i)
             /\ Decide(S)[i].losers = IF Reassigned(i, S) THEN {} ELSE Group(i, S) \ {i}
             /\ Decide(S)[i].unresolved \in BOOLEAN
             /\ Decide(S)[i].unresolved <=> Reassigned(i, S) /\ salt(i) = 0
  <2> DEFINE marked == Reassigned(i, S) /\ salt(i) = 0
  <2>1. Decide(S)[i] =
          [base |-> base[i], ip |-> IF salt(i) = 0 THEN base[i] ELSE salted[i][salt(i)],
           salt |-> salt(i), losers |-> IF Reassigned(i, S) THEN {} ELSE Group(i, S) \ {i},
           unresolved |-> marked]
    BY <1>2, Zenon
  <2>2. marked \in BOOLEAN
    OBVIOUS
  <2>3. marked <=> Reassigned(i, S) /\ salt(i) = 0
    OBVIOUS
  <2> HIDE DEF marked
  <2> QED
    BY <2>1, <2>2, <2>3
<1> QED
  BY <1>1, <1>3, <1>4, <1>5, <1>6

-----------------------------------------------------------------------------
(* The table of the leases *)

\* The leases are what the decision gives for the members there are, the members have their
\* addresses, the index and the counter are those of the leases, and what has a loser is
\* known to conflict.
Table ==
  /\ Hashes /\ Members \subseteq Others
  /\ lea = Decide(Members)
  /\ \A i \in Members : shown[i] = lea[i].ip
  /\ ipOwners = [a \in Addresses |-> {i \in Members : lea[i].ip = a}]
  /\ unresolved = Unresolved(lea, Members)
  /\ \A i \in Members : lea[i].losers # {} => base[i] \in conflicts

LEMMA TableBegins == TableInit => Table
<1> SUFFICES ASSUME TableInit PROVE Table
  OBVIOUS
<1>1. Members = {} /\ DOMAIN lea = {}
  BY DEF TableInit, Members
<1>2. lea = Decide(Members)
  BY <1>1 DEF TableInit, Decide
<1>3. Unresolved(lea, Members) = 0
  BY <1>1, FS_EmptySet DEF Unresolved
<1> QED
  BY <1>1, <1>2, <1>3 DEF TableInit, Table, Hashes

LEMMA FewPeers == \A S \in SUBSET Others : IsFiniteSet(S) /\ Cardinality(S) \in Nat
<1>1. IsFiniteSet(Ids)
  BY FS_Interval, VirtualIPsAssumption DEF Ids
<1> QED
  BY <1>1, FS_Subset, FS_CardinalityType DEF Others

\* Only what differs is written, and yet it is all that is to be.
LEMMA ClaimStep ==
  ASSUME Table, UNCHANGED <<base, salted>>, NEW aligned, Claim(aligned),
         DOMAIN aligned \subseteq Others,
         \A i \in DOMAIN aligned \intersect Members : aligned[i] = shown[i]
  PROVE  Table'
<1> DEFINE now     == DOMAIN aligned
           desired == Decide(now)
           gone    == Dropped(desired)
           stale   == Stale(desired)
<1> USE DEF Members
<1>1. /\ DOMAIN desired = now /\ desired = [i \in now |-> desired[i]] /\ DOMAIN lea = Members
      /\ \A i \in now : desired[i].ip \in Addresses
      /\ \A i \in Members : lea[i].ip \in Addresses
  BY DecideIs DEF Table
<1>2. /\ gone = Members \ now /\ stale \subseteq now
      /\ \A i \in now \ stale : i \in Members /\ lea[i] = desired[i]
  BY <1>1 DEF Dropped, Stale
<1>3. /\ lea' = [i \in now \union (Members \ gone) |-> IF i \in stale THEN desired[i] ELSE lea[i]]
      /\ ipOwners' = [a \in Addresses |->
           Without(gone \cup stale)[a] \cup {i \in stale : desired[i].ip = a}]
      /\ conflicts' = {a \in conflicts : Without(gone)[a] # {}} \cup
           {desired[i].base : i \in {j \in stale : desired[j].losers # {} \/ desired[j].salt > 0}}
      /\ unresolved' = unresolved - Dropping(gone \cup stale) + Unresolved(desired, stale)
      /\ shown' = [i \in now |->
           IF i \in stale /\ (i \in DOMAIN lea => lea[i].ip # desired[i].ip)
           THEN desired[i].ip ELSE aligned[i]]
  BY <1>1 DEF Claim
<1>4. DOMAIN shown' = now
  BY <1>3
<1> HIDE DEF desired, gone, stale, now
<1>5. lea' = desired
  <2>1. now \union (Members \ gone) = now
    BY <1>2
  <2>2. lea' = [i \in now |-> desired[i]]
    BY <1>2, <1>3, <2>1
  <2> QED
    BY <1>1, <2>2
<1>6. \A i \in now : shown'[i] = desired[i].ip
  BY <1>1, <1>2, <1>3 DEF Table, now
<1>7. ipOwners' = [a \in Addresses |-> {i \in now : desired[i].ip = a}]
  BY <1>1, <1>2, <1>3 DEF Table, Without
<1>8. ASSUME NEW i \in now, desired[i].losers # {} PROVE base[i] \in conflicts'
  <2>1. desired[i].base = base[i] /\ base[i] \in Addresses
    BY DecideIs DEF Table, desired, now, Hashes, Others
  <2>2. CASE i \in stale
    BY <1>3, <1>8, <2>1, <2>2
  <2>3. CASE i \notin stale
    <3>1. i \in Members /\ i \notin gone /\ lea[i] = desired[i]
      BY <1>2, <2>3
    <3>2. base[i] \in conflicts
      BY <1>8, <3>1 DEF Table
    <3>3. desired[i].ip = base[i]
      BY <1>8, DecideIs DEF Table, desired, now
    <3>4. i \in Without(gone)[base[i]]
      BY <2>1, <3>1, <3>3 DEF Table, Without
    <3> QED
      BY <1>3, <3>2, <3>4
  <2> QED
    BY <2>2, <2>3
<1>9. unresolved' = Unresolved(desired, now)
  <2> DEFINE had   == {i \in Members : lea[i].unresolved}
             drops == {i \in gone \union stale : i \in Members /\ lea[i].unresolved}
             adds  == {i \in stale : desired[i].unresolved}
             has   == {i \in now : desired[i].unresolved}
  <2>1. /\ unresolved = Cardinality(had) /\ Dropping(gone \union stale) = Cardinality(drops)
        /\ Unresolved(desired, stale) = Cardinality(adds)
        /\ Unresolved(desired, now) = Cardinality(has)
    BY <1>1, <1>2 DEF Table, Unresolved, Dropping
  <2>2. has = (had \ drops) \union adds /\ (had \ drops) \intersect adds = {}
        /\ had \intersect drops = drops
    BY <1>2
  <2>3. IsFiniteSet(had) /\ IsFiniteSet(drops) /\ IsFiniteSet(adds)
    BY <1>2, FewPeers DEF Table, now
  <2> HIDE DEF had, drops, adds, has
  <2>4. /\ IsFiniteSet(had \ drops)
        /\ Cardinality(had \ drops) = Cardinality(had) - Cardinality(had \intersect drops)
    BY <2>3, FS_Difference
  <2>5. Cardinality((had \ drops) \union adds) =
          Cardinality(had \ drops) + Cardinality(adds) - Cardinality((had \ drops) \intersect adds)
    BY <2>3, <2>4, FS_Union
  <2>6. Cardinality((had \ drops) \intersect adds) = 0
    BY <2>2, FS_EmptySet
  <2>7. {Cardinality(had), Cardinality(drops), Cardinality(had \ drops), Cardinality(adds)}
          \subseteq Nat
    BY <2>3, <2>4, FS_CardinalityType
  <2>8. Cardinality(has) = Cardinality(had) - Cardinality(drops) + Cardinality(adds)
    <3>1. /\ Cardinality(has) = Cardinality((had \ drops) \union adds)
          /\ Cardinality(had \intersect drops) = Cardinality(drops)
      BY <2>2
    <3> QED
      BY <2>4, <2>5, <2>6, <2>7, <3>1
  <2> QED
    BY <1>3, <2>1, <2>8
<1>10. Hashes' /\ now \subseteq Others /\ Decide(now)' = desired
  BY DecideStays DEF Table, Hashes, desired, now
<1> QED
  BY <1>4, <1>5, <1>6, <1>7, <1>8, <1>9, <1>10 DEF Table, Unresolved

LEMMA TableStep == Table /\ [TableNext]_tableVars => Table'
<1> SUFFICES ASSUME Table, [TableNext]_tableVars PROVE Table'
  OBVIOUS
<1>1. CASE UNCHANGED tableVars
  BY <1>1, DecideStays DEF tableVars, Table, Hashes, Members, Unresolved
<1>2. ASSUME NEW i \in Others, Insert(i) PROVE Table'
  BY <1>2, ClaimStep DEF Insert, Table
<1>3. ASSUME NEW S \in SUBSET Others, Remove(S) PROVE Table'
  BY <1>3, ClaimStep DEF Remove, Table
<1> QED
  BY <1>1, <1>2, <1>3 DEF TableNext

\* The table has no memory: whoever came and went, in whatever order, the leases are those
\* that the decision gives for the members of now, and packets go where it says.
THEOREM NoHistory == TableSpec => []HistoryDoesNotMatter
<1>1. Table => HistoryDoesNotMatter
  <2> SUFFICES ASSUME Table, NEW a \in Addresses
               PROVE  Resolve(a) = Sole({i \in Members : lea[i].ip = a})
    BY DEF HistoryDoesNotMatter, Table
  <2> QED
    BY DEF Table, Resolve
<1> QED
  BY TableBegins, TableStep, <1>1, PTL DEF TableSpec

\* The index of the owners and the counter of what is unresolved, which are changed by what
\* differs only, are at all times what counting afresh would give.
THEOREM IndexesAreExact == TableSpec => []IndexesFollow
<1>1. Table => IndexesFollow
  BY DecideIs DEF Table, IndexesFollow
<1> QED
  BY TableBegins, TableStep, <1>1, PTL DEF TableSpec

-----------------------------------------------------------------------------
(* What is reported *)

LEMMA TakenGrows ==
  ASSUME NEW S, NEW i \in 0 .. MaxId, NEW k \in i .. MaxId
  PROVE  Taken(S)[i] \subseteq Taken(S)[k]
<1> DEFINE Bad == {n \in i .. MaxId : ~(Taken(S)[i] \subseteq Taken(S)[n])}
<1> SUFFICES ASSUME Bad # {} PROVE FALSE
  OBVIOUS
<1>1. Bad \in SUBSET Nat
  OBVIOUS
<1>2. PICK n \in Bad : \A m \in Bad : n <= m
  BY <1>1, LeastNumber
<1>3. n # i /\ n \in 1 .. MaxId /\ n - 1 \in i .. MaxId /\ n - 1 \notin Bad
  BY <1>2, VirtualIPsAssumption
<1>4. Taken(S)[n - 1] \subseteq Taken(S)[n]
  BY <1>3, TakenUnfolds DEF Chosen
<1> QED
  BY <1>2, <1>3, <1>4

\* A peer that has been given another address has one that was not taken, and then is.
LEMMA OthersAreFree ==
  ASSUME Hashes, NEW S \in SUBSET Others, NEW i \in S, Reassigned(i, S),
         ~Decide(S)[i].unresolved
  PROVE  /\ Decide(S)[i].ip \in Taken(S)[i]
         /\ Decide(S)[i].ip \notin Taken(S)[i - 1]
<1> DEFINE free == Free(i, Taken(S)[i - 1])
           salt == IF Reassigned(i, S) /\ free # {} THEN Least(free) ELSE 0
<1>1. free \in SUBSET Salts /\ Salts \in SUBSET Nat /\ 0 \notin Salts
  BY VirtualIPsAssumption DEF Free, Salts
<1>2. free # {} => Least(free) \in free
  BY <1>1, LeastIs
<1>3. /\ Decide(S)[i].ip = IF salt = 0 THEN base[i] ELSE salted[i][salt]
      /\ Decide(S)[i].unresolved <=> Reassigned(i, S) /\ salt = 0
  BY DEF Decide
<1> HIDE DEF free
<1>4. free # {} /\ Decide(S)[i].ip = salted[i][Least(free)]
  BY <1>1, <1>2, <1>3
<1>5. i \in 1 .. MaxId
  BY DEF Others, Ids
<1>6. Taken(S)[i] = Taken(S)[i - 1] \union {salted[i][Least(free)]}
  BY <1>4, <1>5, TakenUnfolds DEF Chosen, free
<1>7. salted[i][Least(free)] \notin Taken(S)[i - 1]
  BY <1>2, <1>4 DEF Free, free
<1> QED
  BY <1>4, <1>6, <1>7

\* Of the members that derive an address, the least keeps it and the others are its losers.
LEMMA GroupHead ==
  ASSUME NEW S \in SUBSET Others, NEW i \in S
  PROVE  LET h == Least(Group(i, S))
         IN  /\ h \in S /\ base[h] = base[i] /\ Group(h, S) = Group(i, S)
             /\ ~Reassigned(h, S)
             /\ \A j \in Group(i, S) : j = h \/ Reassigned(j, S)
<1> DEFINE h == Least(Group(i, S))
<1>0. Group(i, S) \subseteq S /\ i \in Group(i, S)
  BY DEF Group
<1>1. S \subseteq Nat
  BY VirtualIPsAssumption DEF Others, Ids
<1>2. h \in Group(i, S)
  BY <1>0, <1>1, LeastIs
<1> HIDE DEF h
<1>3. h \in S /\ base[h] = base[i]
  BY <1>2 DEF Group
<1>4. \A j \in Group(i, S) : j \in S /\ Group(j, S) = Group(i, S)
  BY DEF Group
<1>5. \A j \in Group(i, S) : Reassigned(j, S) <=> j # h
  BY <1>4 DEF Reassigned, h
<1> QED
  BY <1>2, <1>3, <1>4, <1>5 DEF h

\* What two members derive is taken before the first of them is given another address.
LEMMA KeptTaken ==
  ASSUME NEW S \in SUBSET Others, NEW i \in S, Reassigned(i, S), NEW k \in 0 .. MaxId
  PROVE  base[i] \in Taken(S)[k]
<1>1. base[i] \in Taken(S)[0]
  BY TakenUnfolds DEF Kept
<1> QED
  BY <1>1, TakenGrows, VirtualIPsAssumption

\* Where the conflicts of both are resolved, two members have two addresses.
LEMMA ResolvedDiffer ==
  ASSUME Hashes, NEW S \in SUBSET Others, NEW i \in S, NEW j \in S, i # j,
         Reassigned(i, S) => ~Decide(S)[i].unresolved,
         Reassigned(j, S) => ~Decide(S)[j].unresolved,
         \E k \in Group(i, S) : Reassigned(k, S),
         \E k \in Group(j, S) : Reassigned(k, S)
  PROVE  Decide(S)[i].ip # Decide(S)[j].ip
<1> USE DEF Others, Ids
<1>1. \A x \in S : ~Reassigned(x, S) => Decide(S)[x].ip = base[x]
  BY DecideIs
<1>2. CASE ~Reassigned(i, S) /\ ~Reassigned(j, S)
  <2>1. base[i] # base[j]
    BY <1>2, GroupHead DEF Group
  <2> QED
    BY <1>1, <1>2, <2>1
<1>3. ASSUME NEW x \in S, NEW y \in S, ~Reassigned(x, S), Reassigned(y, S),
             ~Decide(S)[y].unresolved, \E k \in Group(x, S) : Reassigned(k, S)
      PROVE  Decide(S)[x].ip # Decide(S)[y].ip
  <2>1. PICK k \in S : Reassigned(k, S) /\ base[k] = base[x]
    BY <1>3 DEF Group
  <2>2. y - 1 \in 0 .. MaxId
    BY VirtualIPsAssumption
  <2>3. base[x] \in Taken(S)[y - 1]
    BY <2>1, <2>2, KeptTaken
  <2> QED
    BY <1>1, <1>3, <2>3, OthersAreFree
<1>4. ASSUME NEW x \in S, NEW y \in S, x < y, Reassigned(x, S), Reassigned(y, S),
             ~Decide(S)[x].unresolved, ~Decide(S)[y].unresolved
      PROVE  Decide(S)[x].ip # Decide(S)[y].ip
  <2>1. x \in 0 .. MaxId /\ y - 1 \in x .. MaxId
    BY <1>4, VirtualIPsAssumption
  <2>2. Taken(S)[x] \subseteq Taken(S)[y - 1]
    BY <2>1, TakenGrows
  <2> QED
    BY <1>4, <2>2, OthersAreFree
<1>5. i < j \/ j < i
  BY VirtualIPsAssumption
<1> QED
  BY <1>2, <1>3, <1>4, <1>5

\* The members that keep an address others derive, too.
Heads == {h \in Members : ~Reassigned(h, Members) /\ Group(h, Members) # {h}}

LEMMA RecordsAre ==
  ASSUME Table
  PROVE  /\ \A r \in Records :
              /\ r.winner \in Heads /\ r.ip = base[r.winner]
              /\ {r.winner} \union r.losers = Group(r.winner, Members)
              /\ r.resolved => \A j \in Group(r.winner, Members) :
                                 Reassigned(j, Members) => ~lea[j].unresolved
         /\ \A h \in Heads : \E r \in Records : r.winner = h
<1>0. Members \in SUBSET Others /\ Hashes /\ lea = Decide(Members)
  BY DEF Table
<1>1. DOMAIN lea = Members
  BY <1>0, DecideIs
<1>2. ASSUME NEW i \in Members
      PROVE  /\ lea[i].base = base[i] /\ base[i] \in Addresses
             /\ lea[i].losers = IF Reassigned(i, Members) THEN {} ELSE Group(i, Members) \ {i}
             /\ ~Reassigned(i, Members) => lea[i].ip = base[i]
             /\ i \in Group(i, Members)
  <2>1. base[i] \in Addresses /\ i \in Group(i, Members)
    BY <1>0 DEF Hashes, Others, Group
  <2> QED
    BY <1>0, <2>1, DecideIs
<1>3. ASSUME NEW i \in Members
      PROVE  i \in Heads <=> /\ lea[i].losers # {} /\ lea[i].base \in conflicts
                             /\ i \in ipOwners[lea[i].base]
  <2>1. lea[i].losers # {} <=> i \in Heads
    BY <1>2 DEF Heads
  <2>2. lea[i].losers # {} => lea[i].base \in conflicts
    BY <1>2 DEF Table
  <2>3. lea[i].losers # {} => i \in ipOwners[lea[i].base]
    BY <1>2 DEF Table
  <2> QED
    BY <2>1, <2>2, <2>3
<1> DEFINE Settled(h) == \A j \in lea[h].losers \cap DOMAIN lea : ~lea[j].unresolved
<1>4. Records = {[ip |-> lea[h].base, winner |-> h, losers |-> lea[h].losers,
                  resolved |-> Settled(h)] : h \in Heads}
  <2>1. Heads = {h \in DOMAIN lea : /\ lea[h].losers # {} /\ lea[h].base \in conflicts
                                    /\ h \in ipOwners[lea[h].base]}
    BY <1>1, <1>3 DEF Heads
  <2> QED
    BY <2>1 DEF Records
<1>5. \A h \in Heads : Settled(h) => \A j \in Group(h, Members) :
                         Reassigned(j, Members) => ~lea[j].unresolved
  BY <1>1, <1>2 DEF Heads, Group
<1> DEFINE Record(h) == [ip |-> lea[h].base, winner |-> h, losers |-> lea[h].losers,
                         resolved |-> Settled(h)]
<1> HIDE DEF Settled
<1>6. ASSUME NEW r \in Records
      PROVE  /\ r.winner \in Heads /\ r.ip = lea[r.winner].base /\ r.losers = lea[r.winner].losers
             /\ r.resolved => Settled(r.winner)
  BY <1>4
<1>7. ASSUME NEW h \in Heads PROVE \E r \in Records : r.winner = h
  <2>1. Record(h) \in Records /\ Record(h).winner = h
    BY <1>4
  <2> QED
    BY <2>1
<1>8. \A h \in Heads : lea[h].base = base[h] /\ {h} \union lea[h].losers = Group(h, Members)
  BY <1>2 DEF Heads
<1> QED
  BY <1>5, <1>6, <1>7, <1>8

LEMMA SharedGroups ==
  ASSUME NEW S \in SUBSET Others, NEW i \in S
  PROVE  Cardinality(Group(i, S)) > 1 <=> Group(i, S) # {i}
<1>1. Group(i, S) \in SUBSET Others /\ i \in Group(i, S)
  BY DEF Group
<1>2. IsFiniteSet(Group(i, S)) /\ Cardinality(Group(i, S)) \in Nat
  BY <1>1, FewPeers
<1>3. Cardinality({i}) = 1
  BY FS_Singleton
<1>4. /\ Cardinality({i}) <= Cardinality(Group(i, S))
      /\ Cardinality(Group(i, S)) = Cardinality({i}) => Group(i, S) = {i}
  BY <1>1, <1>2, FS_Subset
<1> QED
  BY <1>2, <1>3, <1>4

\* There is one record for each address that two members derive, under the least of them
\* and with all the others; and where two members share an address all the same, no two
\* records say that their conflicts are resolved.
THEOREM ReportsAreTrue == TableSpec => []ConflictsAreSettled
<1>1. Table => ConflictsAreSettled
  <2> SUFFICES ASSUME Table PROVE ConflictsAreSettled
    OBVIOUS
  <2>0. Members \in SUBSET Others /\ Hashes /\ lea = Decide(Members)
        /\ \A i \in Members : shown[i] = lea[i].ip
    BY DEF Table
  <2>1. {<<r.ip, {r.winner} \cup r.losers>> : r \in Records} =
          {<<base[h], Group(h, Members)>> : h \in Heads}
    <3>1. \A r \in Records : /\ r.winner \in Heads
                             /\ <<r.ip, {r.winner} \cup r.losers>> =
                                  <<base[r.winner], Group(r.winner, Members)>>
      BY RecordsAre
    <3>2. ASSUME NEW h \in Heads
          PROVE  \E r \in Records :
                   <<base[h], Group(h, Members)>> = <<r.ip, {r.winner} \cup r.losers>>
      <4>1. PICK r \in Records : r.winner = h
        BY RecordsAre
      <4> QED
        BY <3>1, <4>1
    <3> QED
      BY <3>1, <3>2
  <2>2. {<<base[h], Group(h, Members)>> : h \in Heads} =
          {<<base[i], Group(i, Members)>> :
           i \in {j \in Members : Cardinality(Group(j, Members)) > 1}}
    <3>1. \A i \in Members : Cardinality(Group(i, Members)) > 1 <=> Group(i, Members) # {i}
      BY <2>0, SharedGroups
    <3>2. ASSUME NEW i \in Members, Group(i, Members) # {i}
          PROVE  \E h \in Heads : base[h] = base[i] /\ Group(h, Members) = Group(i, Members)
      <4> DEFINE h == Least(Group(i, Members))
      <4>1. h \in Members /\ ~Reassigned(h, Members) /\ base[h] = base[i]
            /\ Group(h, Members) = Group(i, Members)
        BY <2>0, GroupHead
      <4>2. i \in Group(i, Members)
        BY DEF Group
      <4>3. Group(h, Members) # {h}
        BY <3>2, <4>1, <4>2
      <4> QED
        BY <4>1, <4>3 DEF Heads
    <3> QED
      BY <3>1, <3>2 DEF Heads
  <2>3. ASSUME NEW r \in Records PROVE r.winner = Least({r.winner} \cup r.losers)
    BY RecordsAre DEF Heads, Reassigned
  <2>4. ASSUME NEW q \in Records, NEW r \in Records, q.resolved, r.resolved,
               NEW i \in {q.winner} \cup q.losers, NEW j \in {r.winner} \cup r.losers, i # j
        PROVE  shown[i] # shown[j]
    <3>1. ASSUME NEW s \in Records, s.resolved, NEW k \in {s.winner} \cup s.losers
          PROVE  /\ k \in Members /\ (Reassigned(k, Members) => ~lea[k].unresolved)
                 /\ \E l \in Group(k, Members) : Reassigned(l, Members)
      <4> DEFINE h == s.winner
      <4>1. /\ h \in Members /\ ~Reassigned(h, Members) /\ Group(h, Members) # {h}
            /\ k \in Group(h, Members)
            /\ \A m \in Group(h, Members) : Reassigned(m, Members) => ~lea[m].unresolved
        BY <3>1, RecordsAre DEF Heads
      <4>2. k \in Members /\ Group(k, Members) = Group(h, Members)
        BY <4>1 DEF Group
      <4>3. h \in Group(h, Members)
        BY <4>1 DEF Group
      <4>4. PICK l \in Group(h, Members) : l # h
        BY <4>1, <4>3
      <4>5. \A m \in Group(h, Members) : m = Least(Group(h, Members)) \/ Reassigned(m, Members)
        BY <2>0, <4>1, GroupHead
      <4>6. Reassigned(l, Members)
        BY <4>1, <4>3, <4>4, <4>5
      <4> QED
        BY <4>1, <4>2, <4>6
    <3>2. Decide(Members)[i].ip # Decide(Members)[j].ip
      BY <2>0, <2>4, <3>1, ResolvedDiffer
    <3> QED
      BY <2>0, <2>4, <3>1, <3>2
  <2> QED
    BY <2>1, <2>2, <2>3, <2>4 DEF ConflictsAreSettled
<1> QED
  BY TableBegins, TableStep, <1>1, PTL DEF TableSpec

-----------------------------------------------------------------------------
(* The members come and go by these steps alone *)

LEMMA LifeStep ==
  ASSUME Table, LifeNext PROVE TableNext \/ UNCHANGED tableVars
<1>1. Members \subseteq Others
  BY DEF Table
<1>2. ASSUME NEW i \in Others, Refreshes(i) PROVE TableNext \/ UNCHANGED tableVars
  BY <1>2 DEF Refreshes, TableNext
<1>3. ASSUME NEW S, Remove(S) PROVE TableNext
  BY <1>1, <1>3 DEF Remove, TableNext
<1>4. ASSUME NEW i \in Others, AddMember(i) PROVE TableNext \/ UNCHANGED tableVars
  BY <1>2, <1>4 DEF AddMember, tableVars
<1> QED
  BY <1>2, <1>3, <1>4 DEF LifeNext, ReapExpired, Found, Hinted, ControlHinted, Refuses, Verified,
     Inbound, Ages, Turns

\* Expiry, quarantine and handshakes do to the members and the table only what VirtualIPs
\* has them do, so that its theorems are theorems about MemberLife.
THEOREM LifeImplementsTable == LifeSpec => TableSpec
<1>1. LifeInit => TableInit
  BY DEF LifeInit
<1>2. Table /\ [LifeNext]_lifeVars => [TableNext]_tableVars
  BY LifeStep DEF lifeVars, tableVars
<1>3. Table /\ [LifeNext]_lifeVars => Table'
  BY <1>2, TableStep
<1> QED
  BY <1>1, <1>2, <1>3, TableBegins, PTL DEF LifeSpec, TableSpec

\* What the quarantine is for: who expires is in it, whether there was room or not; a member
\* in it comes back only with an answer or a call of its own, and leaves the quarantine by
\* coming back and in no other way.
ExpiredComeBackThemselves ==
  \A i \in Others :
    /\ ReapExpired /\ i \in old => RequiresHandshake(i)' /\ i \notin Members'
    /\ RequiresHandshake(i) /\ i \in Members' \ Members => i \in heard \union up
    /\ RequiresHandshake(i) /\ ~RequiresHandshake(i)' => i \in Members'

\* More expire than can be remembered, others go on naming them, answers are late: nobody
\* who has expired is a member again by hearsay.
THEOREM NoReturnByHearsay == LifeSpec => [][ExpiredComeBackThemselves]_lifeVars
<1>1. ASSUME NEW S, Remove(S) PROVE Members' = Members \ S
  BY <1>1 DEF Remove, Claim, Members
<1>2. ASSUME NEW i \in Others, Insert(i) PROVE Members' = Members \union {i}
  BY <1>2 DEF Insert, Claim, Members
<1>3. ASSUME NEW i \in Others, Refreshes(i) PROVE Members' = Members \union {i}
  BY <1>2, <1>3 DEF Refreshes, tableVars, Members
<1>4. ASSUME LifeNext PROVE ExpiredComeBackThemselves
  <2>1. CASE ReapExpired
    <3>1. Members' = Members \ old /\ Remembers(old)
      BY <1>1, <2>1 DEF ReapExpired
    <3>2. PICK T \in SUBSET (old \ ids) : ids' = ids \union T /\ full' = (full \/ T # old \ ids)
      BY <3>1 DEF Remembers
    <3>3. (full => full') /\ (T # old \ ids => full')
      BY <3>2, Zenon
    <3> QED
      BY <3>1, <3>2, <3>3 DEF RequiresHandshake, ExpiredComeBackThemselves
  <2>2. ASSUME ~ReapExpired, UNCHANGED full, NEW i \in Others,
               \/ Members' \subseteq Members /\ UNCHANGED ids
               \/ /\ Members' = Members \union {i}
                  /\ \/ UNCHANGED ids /\ ~RequiresHandshake(i)
                     \/ i \in heard \union up /\ ids' = ids \ {i}
        PROVE  ExpiredComeBackThemselves
    BY <2>2 DEF RequiresHandshake, ExpiredComeBackThemselves
  <2>3. ASSUME NEW i \in Others, AddMember(i), ~ReapExpired PROVE ExpiredComeBackThemselves
    BY <1>3, <2>2, <2>3 DEF AddMember, tableVars, quarantine, Members
  <2>4. ASSUME NEW i \in Others, Refuses(i), ~ReapExpired PROVE ExpiredComeBackThemselves
    BY <1>1, <2>2, <2>4 DEF Refuses, quarantine
  <2>5. ASSUME NEW i \in Others, Verified(i) \/ Inbound(i), ~ReapExpired
        PROVE  ExpiredComeBackThemselves
    BY <1>3, <2>2, <2>5 DEF Verified, Inbound
  <2>6. ASSUME NEW i \in Others, ControlHinted(i) \/ Ages(i) \/ Turns(i), ~ReapExpired
        PROVE  ExpiredComeBackThemselves
    BY <2>2, <2>6 DEF ControlHinted, Ages, Turns, tableVars, quarantine, Members
  <2> QED
    BY <1>4, <2>1, <2>3, <2>4, <2>5, <2>6 DEF LifeNext, Found, Hinted
<1> QED
  BY <1>4, PTL DEF LifeSpec

-----------------------------------------------------------------------------
(* The calls of the discovery scheduler *)

\* A call in the queue or with a worker is the one listed for its peer.
Listed == \A c \in InFlight : spec[c] # None /\ calls[spec[c].peer] = c

\* ... and is in one place only.
OnePlace ==
  /\ \A i, j \in DOMAIN queue : queue[i] = queue[j] => i = j
  /\ \A v, w \in Workers : job[v] = job[w] /\ job[v] # None => v = w
  /\ \A i \in DOMAIN queue, w \in Workers : queue[i] # job[w]

\* What is listed for a peer is a call for that peer.
ListedFor == \A p \in Peers : calls[p] # None => spec[calls[p]] # None /\ spec[calls[p]].peer = p

\* Who waits, waits on a call for the peer it asked for, and knows what kind it is.
Waiting ==
  \A k \in Callers :
    /\ waits[k] # None <=> caller[k] = "wait"
    /\ caller[k] = "wait" =>
         /\ spec[waits[k]] # None
         /\ spec[waits[k]].peer = target[k] /\ spec[waits[k]].connect = own[k]

\* Good news of a call that carried the flag is no rumour.
Woken ==
  \A k \in Callers :
    caller[k] = "woken" /\ outcome[k] = "nil" /\ asks[k] /\ own[k] => granted[k]

\* The inductive invariant.
IInv == SchedulerTypes /\ Listed /\ OnePlace /\ ListedFor /\ Waiting /\ Woken /\ RequestWasMade

\* The inductive invariant holds of a scheduler just made.
LEMMA InitInv == ASSUME SchedulerInit PROVE IInv
<1> USE SchedulerAssumption DEF SchedulerInit
<1>1. SchedulerTypes
  <2>1. queue \in Seq(Calls) /\ Len(queue) = 0
    OBVIOUS
  <2>2. \A w \in Workers : (job[w] = None) = (stage[w] \in {"idle", "gone"})
    OBVIOUS
  <2>3. target \in [Callers -> Peers] /\ granted \in [Callers -> BOOLEAN]
        /\ calls \in [Peers -> Calls \cup {None}] /\ waits \in [Callers -> Calls \cup {None}]
    OBVIOUS
  <2>4. /\ spec \in [Calls -> [peer : Peers, connect : BOOLEAN, explicit : BOOLEAN] \cup {None}]
        /\ job \in [Workers -> Calls \cup {None}]
        /\ stage \in [Workers -> {"idle", "taken", "running", "gone"}]
        /\ caller \in [Callers -> {"idle", "submit", "wait", "woken", "nil", "failed"}]
        /\ outcome \in [Callers -> {"nil", "failed"}]
    OBVIOUS
  <2>5. asks \in [Callers -> BOOLEAN] /\ own \in [Callers -> BOOLEAN]
    OBVIOUS
  <2>6. /\ cancelled \in BOOLEAN /\ closing \in {"open", "draining", "closed"}
        /\ known \subseteq Peers /\ cooling \subseteq Peers
    BY DEF SchedulerInit
  <2>7. 0 <= QueueSize
    BY ONLY SchedulerAssumption
  <2> QED
    BY ONLY <2>1, <2>2, <2>3, <2>4, <2>5, <2>6, <2>7 DEF SchedulerTypes
<1>2. Listed /\ OnePlace
  BY DEF Listed, OnePlace, InFlight, Queued, Held
<1>3. ListedFor /\ Waiting /\ Woken /\ RequestWasMade
  BY DEF ListedFor, Waiting, Woken, RequestWasMade
<1> QED
  BY <1>1, <1>2, <1>3 DEF IInv

\* A new call is in nobody's hands, and is no one's to wait on.
LEMMA EnqueueEffect ==
  ASSUME IInv, NEW p \in Peers, NEW prompt, NEW connect, NEW c \in Calls,
         prompt \in BOOLEAN, connect \in BOOLEAN, Enqueue(p, prompt, connect, c), UNCHANGED job
  PROVE  /\ queue' \in Seq(Calls) /\ Len(queue') <= QueueSize
         /\ calls' \in [Peers -> Calls \cup {None}]
         /\ spec' \in [Calls -> [peer : Peers, connect : BOOLEAN, explicit : BOOLEAN] \cup {None}]
         /\ Listed' /\ OnePlace' /\ ListedFor'
         /\ \A d \in Calls : spec[d] # None => spec'[d] = spec[d]
         /\ spec'[c].peer = p /\ spec'[c].connect = connect /\ spec'[c] # None
<1> DEFINE new == [peer |-> p, connect |-> connect, explicit |-> prompt]
<1>1. /\ calls[p] = None /\ Len(queue) < QueueSize /\ spec[c] = None
      /\ queue' = Append(queue, c) /\ calls' = [calls EXCEPT ![p] = c]
      /\ spec' = [spec EXCEPT ![c] = new]
  BY DEF Enqueue, Admits, Unused
<1>2. new \in [peer : Peers, connect : BOOLEAN, explicit : BOOLEAN] /\ new # None
      /\ new.peer = p /\ new.connect = connect
  BY SchedulerAssumption
<1> HIDE DEF new
<1>t. SchedulerTypes
  BY DEF IInv
<1>3. /\ queue' \in Seq(Calls) /\ Len(queue') = Len(queue) + 1 /\ Len(queue') <= QueueSize
      /\ queue'[Len(queue) + 1] = c /\ \A i \in DOMAIN queue : queue'[i] = queue[i]
      /\ DOMAIN queue = 1 .. Len(queue) /\ DOMAIN queue' = 1 .. (Len(queue) + 1)
  BY <1>1, <1>t, SchedulerAssumption DEF SchedulerTypes
<1>4. c \notin InFlight /\ c # None
  BY <1>1, SchedulerAssumption DEF IInv, Listed
<1>5. InFlight' = InFlight \cup {c}
  BY <1>3 DEF InFlight, Queued, Held
<1>6. Listed'
  BY <1>1, <1>2, <1>4, <1>5, <1>t, SchedulerAssumption DEF IInv, Listed, SchedulerTypes, InFlight, Queued, Held
<1>7. OnePlace'
  <2>1. \A i \in DOMAIN queue : queue[i] # c
    BY <1>4 DEF InFlight, Queued
  <2>2. \A w \in Workers : job[w] # c
    BY <1>4 DEF InFlight, Held
  <2>3. Len(queue) \in Nat
    BY <1>t DEF SchedulerTypes
  <2> QED
    BY <1>3, <2>1, <2>2, <2>3 DEF IInv, OnePlace
<1>8. ListedFor'
  BY <1>1, <1>2, <1>4, <1>t, SchedulerAssumption DEF IInv, ListedFor, SchedulerTypes
<1> QED
  BY <1>1, <1>2, <1>3, <1>6, <1>7, <1>8, <1>t DEF SchedulerTypes

LEMMA BackgroundStep == ASSUME IInv, NEW p \in Peers, Background(p) PROVE IInv'
<1>1. PICK c \in Calls : Enqueue(p, FALSE, FALSE, c)
  BY DEF Background
<1>2. UNCHANGED <<cancelled, closing, job, stage, known, cooling, caller, waits, target, asks,
                  outcome, own, granted>>
  BY DEF Background, workers, retry, told
<1>3. /\ queue' \in Seq(Calls) /\ Len(queue') <= QueueSize
      /\ calls' \in [Peers -> Calls \cup {None}]
      /\ spec' \in [Calls -> [peer : Peers, connect : BOOLEAN, explicit : BOOLEAN] \cup {None}]
      /\ Listed' /\ OnePlace' /\ ListedFor'
      /\ \A d \in Calls : spec[d] # None => spec'[d] = spec[d]
  BY <1>1, <1>2, EnqueueEffect
<1>4. SchedulerTypes'
  BY <1>2, <1>3 DEF IInv, SchedulerTypes
<1>5. Waiting' /\ Woken' /\ RequestWasMade'
  BY <1>2, <1>3 DEF IInv, SchedulerTypes, Waiting, Woken, RequestWasMade
<1> QED
  BY <1>3, <1>4, <1>5 DEF IInv

LEMMA SubmitStep == ASSUME IInv, NEW k \in Callers, Submit(k) PROVE IInv'
<1>1. PICK c \in Calls : Enqueue(target[k], TRUE, asks[k], c) /\ waits' = [waits EXCEPT ![k] = c]
  BY DEF Submit
<1>2. /\ caller[k] = "submit"
      /\ own' = [own EXCEPT ![k] = asks[k]] /\ caller' = [caller EXCEPT ![k] = "wait"]
      /\ UNCHANGED <<cancelled, closing, job, stage, known, cooling, target, asks, outcome, granted>>
  BY DEF Submit, workers, retry
<1>t. target[k] \in Peers /\ asks[k] \in BOOLEAN /\ c # None
  BY SchedulerAssumption DEF IInv, SchedulerTypes
<1>3. /\ queue' \in Seq(Calls) /\ Len(queue') <= QueueSize
      /\ calls' \in [Peers -> Calls \cup {None}]
      /\ spec' \in [Calls -> [peer : Peers, connect : BOOLEAN, explicit : BOOLEAN] \cup {None}]
      /\ Listed' /\ OnePlace' /\ ListedFor'
      /\ \A d \in Calls : spec[d] # None => spec'[d] = spec[d]
      /\ spec'[c].peer = target[k] /\ spec'[c].connect = asks[k] /\ spec'[c] # None
  <2> DEFINE p == target[k]
             flag == asks[k]
             now == TRUE
  <2>1. /\ Enqueue(p, now, flag, c) /\ UNCHANGED job
        /\ p \in Peers /\ flag \in BOOLEAN /\ now \in BOOLEAN
    BY <1>1, <1>2, <1>t
  <2> HIDE DEF p, flag, now
  <2>2. /\ queue' \in Seq(Calls) /\ Len(queue') <= QueueSize
        /\ calls' \in [Peers -> Calls \cup {None}]
        /\ spec' \in [Calls -> [peer : Peers, connect : BOOLEAN, explicit : BOOLEAN] \cup {None}]
        /\ Listed' /\ OnePlace' /\ ListedFor'
        /\ \A d \in Calls : spec[d] # None => spec'[d] = spec[d]
        /\ spec'[c].peer = p /\ spec'[c].connect = flag /\ spec'[c] # None
    BY <2>1, EnqueueEffect
  <2> QED
    BY <2>2 DEF p, flag
<1>4. SchedulerTypes'
  BY <1>1, <1>2, <1>3 DEF IInv, SchedulerTypes
<1>5. Waiting'
  BY <1>1, <1>2, <1>3, <1>t DEF IInv, SchedulerTypes, Waiting
<1>6. Woken' /\ RequestWasMade'
  BY <1>2, <1>3 DEF IInv, SchedulerTypes, Woken, RequestWasMade
<1> QED
  BY <1>3, <1>4, <1>5, <1>6 DEF IInv

\* The steps of a caller that touch no call.
LEMMA CallerStep ==
  ASSUME IInv, NEW k \in Callers,
         \/ \E p \in Peers, connect \in BOOLEAN : Ask(k, p, connect)
         \/ Join(k) \/ Refused(k) \/ Answered(k) \/ GivesUp(k)
  PROVE  IInv'
<1> USE DEF objects, workers, retry, told
<1>1. UNCHANGED <<queue, calls, spec, job>>
  BY DEF Ask, Join, Refused, Answered, GivesUp
<1>2. SchedulerTypes'
  <2>1. ASSUME NEW p \in Peers, NEW connect \in BOOLEAN, Ask(k, p, connect) PROVE SchedulerTypes'
    BY <2>1 DEF IInv, SchedulerTypes, Ask
  <2>2. CASE Join(k)
    BY <2>2 DEF IInv, SchedulerTypes, ListedFor, Join
  <2>3. CASE Refused(k) \/ Answered(k) \/ GivesUp(k)
    BY <2>3 DEF IInv, SchedulerTypes, Refused, Answered, GivesUp
  <2> QED
    BY <2>1, <2>2, <2>3
<1>3. Listed' /\ OnePlace' /\ ListedFor'
  BY <1>1 DEF IInv, Listed, OnePlace, ListedFor, InFlight, Queued, Held
<1>4. Waiting'
  <2>1. ASSUME NEW p \in Peers, NEW connect \in BOOLEAN, Ask(k, p, connect) PROVE Waiting'
    BY <2>1 DEF IInv, SchedulerTypes, Ask, Waiting
  <2>2. CASE Join(k)
    BY <2>2 DEF IInv, SchedulerTypes, ListedFor, Join, Waiting
  <2>3. CASE Refused(k) \/ Answered(k) \/ GivesUp(k)
    BY <2>3 DEF IInv, SchedulerTypes, Refused, Answered, GivesUp, Waiting
  <2> QED
    BY <2>1, <2>2, <2>3
<1>5. Woken' /\ RequestWasMade'
  <2>1. ASSUME NEW p \in Peers, NEW connect \in BOOLEAN, Ask(k, p, connect) PROVE Woken' /\ RequestWasMade'
    BY <2>1 DEF IInv, SchedulerTypes, Ask, Woken, RequestWasMade
  <2>2. CASE Join(k)
    BY <2>2 DEF IInv, SchedulerTypes, Join, Woken, RequestWasMade
  <2>3. CASE Refused(k) \/ Answered(k) \/ GivesUp(k)
    BY <2>3 DEF IInv, SchedulerTypes, Refused, Answered, GivesUp, Woken, RequestWasMade
  <2> QED
    BY <2>1, <2>2, <2>3
<1> QED
  BY <1>2, <1>3, <1>4, <1>5 DEF IInv

LEMMA TakeStep == ASSUME IInv, NEW w \in Workers, Take(w) PROVE IInv'
<1>1. /\ stage[w] = "idle" /\ queue # <<>> /\ queue \in Seq(Calls)
      /\ job' = [job EXCEPT ![w] = Head(queue)] /\ queue' = Tail(queue)
      /\ stage' = [stage EXCEPT ![w] = "taken"]
      /\ UNCHANGED <<cancelled, closing, calls, spec, known, cooling, caller, waits, target, asks,
                     outcome, own, granted>>
  BY DEF Take, retry, told, IInv, SchedulerTypes
<1>2. /\ Head(queue) = queue[1] /\ Head(queue) \in Calls /\ Tail(queue) \in Seq(Calls)
      /\ Len(Tail(queue)) = Len(queue) - 1 /\ Len(queue) \in Nat
      /\ DOMAIN queue = 1 .. Len(queue) /\ 1 \in DOMAIN queue
      /\ DOMAIN Tail(queue) = 1 .. (Len(queue) - 1)
      /\ \A i \in 1 .. (Len(queue) - 1) : Tail(queue)[i] = queue[i + 1] /\ i + 1 \in DOMAIN queue
  BY <1>1
<1>3. job[w] = None /\ Head(queue) # None
  BY <1>1, <1>2, SchedulerAssumption DEF IInv, SchedulerTypes
<1>4. SchedulerTypes'
  BY <1>1, <1>2, <1>3, SchedulerAssumption DEF IInv, SchedulerTypes
<1>5. OnePlace'
  BY <1>1, <1>2, <1>3 DEF IInv, SchedulerTypes, OnePlace
<1>6. InFlight' \subseteq InFlight
  BY <1>1, <1>2, <1>3 DEF InFlight, Queued, Held, IInv, SchedulerTypes
<1>7. Listed' /\ ListedFor' /\ Waiting' /\ Woken' /\ RequestWasMade'
  BY <1>1, <1>6 DEF IInv, Listed, ListedFor, Waiting, Woken, RequestWasMade
<1> QED
  BY <1>4, <1>5, <1>7 DEF IInv

LEMMA WorkerStep == ASSUME IInv, NEW w \in Workers, Exit(w) \/ Run(w) PROVE IInv'
<1>1. SchedulerTypes'
  BY DEF IInv, SchedulerTypes, Exit, Run, objects, retry, told
<1>2. UNCHANGED <<objects, job, caller, waits, target, asks, told>>
  BY DEF Exit, Run
<1> QED
  BY <1>1, <1>2 DEF IInv, Listed, OnePlace, ListedFor, InFlight, Queued, Held, Waiting, Woken,
     RequestWasMade, objects, told

\* Calls that are finished leave nothing behind, if they were all in flight.
LEMMA FinishedEffect ==
  ASSUME IInv, NEW finished, finished \subseteq InFlight, NEW result \in {"nil", "failed"},
         Wake(finished, result), Unlist(finished), UNCHANGED <<target, asks, own>>,
         InFlight' = InFlight \ finished
  PROVE  /\ calls' \in [Peers -> Calls \cup {None}]
         /\ spec' \in [Calls -> [peer : Peers, connect : BOOLEAN, explicit : BOOLEAN] \cup {None}]
         /\ caller' \in [Callers -> {"idle", "submit", "wait", "woken", "nil", "failed"}]
         /\ waits' \in [Callers -> Calls \cup {None}]
         /\ outcome' \in [Callers -> {"nil", "failed"}]
         /\ Listed' /\ ListedFor' /\ Waiting'
<1>t. SchedulerTypes /\ InFlight \subseteq Calls /\ None \notin InFlight
  BY SchedulerAssumption DEF IInv, SchedulerTypes, InFlight, Queued, Held
<1>1. /\ calls' \in [Peers -> Calls \cup {None}]
      /\ \A p \in Peers : calls'[p] = IF p \in {spec[c].peer : c \in finished} THEN None ELSE calls[p]
  BY <1>t DEF Unlist, SchedulerTypes
<1>2. /\ spec' \in [Calls -> [peer : Peers, connect : BOOLEAN, explicit : BOOLEAN] \cup {None}]
      /\ \A c \in Calls : spec'[c] = IF c \in finished THEN None ELSE spec[c]
  BY <1>t DEF Wake, SchedulerTypes
<1>3. /\ caller' \in [Callers -> {"idle", "submit", "wait", "woken", "nil", "failed"}]
      /\ waits' \in [Callers -> Calls \cup {None}]
      /\ outcome' \in [Callers -> {"nil", "failed"}]
      /\ \A k \in Callers :
           /\ caller'[k] = IF waits[k] \in finished THEN "woken" ELSE caller[k]
           /\ waits'[k] = IF waits[k] \in finished THEN None ELSE waits[k]
  BY <1>t DEF Wake, SchedulerTypes
<1>4. Listed'
  <2> SUFFICES ASSUME NEW c \in InFlight, c \notin finished
               PROVE  spec'[c] # None /\ calls'[spec'[c].peer] = c
    BY DEF Listed
  <2>1. c \in Calls /\ spec[c] # None /\ calls[spec[c].peer] = c /\ spec'[c] = spec[c]
    BY <1>2, <1>t DEF IInv, Listed
  <2>2. spec[c].peer \in Peers
    BY <2>1, <1>t DEF SchedulerTypes
  <2>3. \A d \in finished : spec[d].peer # spec[c].peer
    BY <2>1 DEF IInv, Listed
  <2> QED
    BY <1>1, <2>1, <2>2, <2>3
<1>5. ListedFor'
  <2> SUFFICES ASSUME NEW p \in Peers, calls'[p] # None
               PROVE  spec'[calls'[p]] # None /\ spec'[calls'[p]].peer = p
    BY DEF ListedFor
  <2>1. calls'[p] = calls[p] /\ p \notin {spec[c].peer : c \in finished} /\ calls[p] \in Calls
    BY <1>1, <1>t DEF SchedulerTypes
  <2>2. spec[calls[p]] # None /\ spec[calls[p]].peer = p
    BY <2>1 DEF IInv, ListedFor
  <2> QED
    BY <1>2, <2>1, <2>2
<1>6. Waiting'
  BY <1>2, <1>3, <1>t DEF IInv, SchedulerTypes, Waiting
<1> QED
  BY <1>1, <1>2, <1>3, <1>4, <1>5, <1>6

LEMMA FinishStep == ASSUME IInv, NEW w \in Workers, Finish(w) PROVE IInv'
<1>1. PICK result \in {"nil", "failed"} :
        /\ Wake({job[w]}, result)
        /\ granted' = [k \in Callers |->
             \/ granted[k]
             \/ /\ asks[k] /\ caller[k] \in {"submit", "wait", "woken"}
                /\ result = "nil" /\ spec[job[w]].connect /\ spec[job[w]].peer = target[k]]
  BY DEF Finish
<1>2. /\ stage[w] \in {"running", "taken"} /\ Unlist({job[w]}) /\ Remember(spec[job[w]].peer)
      /\ job' = [job EXCEPT ![w] = None] /\ stage' = [stage EXCEPT ![w] = "idle"]
      /\ UNCHANGED <<cancelled, closing, queue, target, asks, own>>
  BY DEF Finish
<1>t. SchedulerTypes
  BY DEF IInv
<1>3. job[w] \in Calls /\ job[w] # None /\ job[w] \in InFlight
  BY <1>2, <1>t DEF SchedulerTypes, InFlight, Held
<1>4. spec[job[w]] # None /\ spec[job[w]].peer \in Peers /\ spec[job[w]].connect \in BOOLEAN
  BY <1>3, <1>t DEF IInv, SchedulerTypes, Listed
<1>5. InFlight' = InFlight \ {job[w]}
  <2>1. Queued' = Queued /\ job[w] \notin Queued
    BY <1>2 DEF Queued, IInv, OnePlace
  <2>2. Held' = Held \ {job[w]}
    BY <1>2, <1>3, <1>t DEF Held, IInv, SchedulerTypes, OnePlace
  <2> QED
    BY <2>1, <2>2 DEF InFlight
<1>6. /\ calls' \in [Peers -> Calls \cup {None}]
      /\ spec' \in [Calls -> [peer : Peers, connect : BOOLEAN, explicit : BOOLEAN] \cup {None}]
      /\ caller' \in [Callers -> {"idle", "submit", "wait", "woken", "nil", "failed"}]
      /\ waits' \in [Callers -> Calls \cup {None}]
      /\ outcome' \in [Callers -> {"nil", "failed"}]
      /\ Listed' /\ ListedFor' /\ Waiting'
  BY <1>1, <1>2, <1>3, <1>5, FinishedEffect
<1>7. known' \subseteq Peers /\ cooling' \subseteq Peers
  BY <1>2, <1>4, <1>t DEF Remember, SchedulerTypes
<1>8. granted' \in [Callers -> BOOLEAN]
  BY <1>1, <1>t DEF SchedulerTypes
<1>9. SchedulerTypes'
  BY <1>2, <1>6, <1>7, <1>8, <1>t DEF SchedulerTypes
<1>10. OnePlace'
  <2>1. \A v \in Workers : job'[v] = IF v = w THEN None ELSE job[v]
    BY <1>2, <1>t DEF SchedulerTypes
  <2>2. \A i \in DOMAIN queue : queue[i] # None
    BY <1>t, SchedulerAssumption DEF SchedulerTypes
  <2> QED
    BY <1>2, <2>1, <2>2 DEF IInv, OnePlace
<1>11. ASSUME NEW k \in Callers
       PROVE  /\ granted[k] => granted'[k]
              /\ waits[k] = job[w] =>
                   (result = "nil" /\ asks[k] /\ own[k] => granted'[k])
  BY <1>1, <1>3, <1>t DEF IInv, SchedulerTypes, Waiting
<1>12. ASSUME NEW k \in Callers
       PROVE  /\ caller'[k] = IF waits[k] = job[w] THEN "woken" ELSE caller[k]
              /\ outcome'[k] = IF waits[k] = job[w] THEN result ELSE outcome[k]
  BY <1>1 DEF Wake
<1>13. Woken' /\ RequestWasMade'
  BY <1>2, <1>11, <1>12 DEF IInv, Woken, RequestWasMade
<1> QED
  BY <1>6, <1>9, <1>10, <1>13 DEF IInv

LEMMA DrainStep == ASSUME IInv, Drain PROVE IInv'
<1>1. /\ queue' = <<>> /\ Wake(Queued, "failed") /\ Unlist(Queued) /\ closing' = "closed"
      /\ UNCHANGED <<cancelled, job, stage, known, cooling, target, asks, own, granted>>
  BY DEF Drain, workers, retry
<1>t. SchedulerTypes
  BY DEF IInv
<1>2. Queued \subseteq InFlight
  BY DEF InFlight
<1>3. InFlight' = InFlight \ Queued
  <2>1. Queued' = {} /\ Held' = Held
    BY <1>1 DEF Queued, Held
  <2>2. Queued \cap Held = {}
    BY DEF Queued, Held, IInv, OnePlace
  <2> QED
    BY <2>1, <2>2 DEF InFlight
<1>4. /\ calls' \in [Peers -> Calls \cup {None}]
      /\ spec' \in [Calls -> [peer : Peers, connect : BOOLEAN, explicit : BOOLEAN] \cup {None}]
      /\ caller' \in [Callers -> {"idle", "submit", "wait", "woken", "nil", "failed"}]
      /\ waits' \in [Callers -> Calls \cup {None}]
      /\ outcome' \in [Callers -> {"nil", "failed"}]
      /\ Listed' /\ ListedFor' /\ Waiting'
  BY <1>1, <1>2, <1>3, FinishedEffect
<1>5. SchedulerTypes'
  BY <1>1, <1>4, <1>t, SchedulerAssumption DEF SchedulerTypes
<1>6. OnePlace'
  BY <1>1 DEF IInv, OnePlace
<1>7. ASSUME NEW k \in Callers
      PROVE  /\ caller'[k] = IF waits[k] \in Queued THEN "woken" ELSE caller[k]
             /\ outcome'[k] = IF waits[k] \in Queued THEN "failed" ELSE outcome[k]
  BY <1>1 DEF Wake
<1>8. Woken' /\ RequestWasMade'
  BY <1>1, <1>7 DEF IInv, Woken, RequestWasMade
<1> QED
  BY <1>4, <1>5, <1>6, <1>8 DEF IInv

\* A cooldown ends, the context is cancelled, or nothing happens.
LEMMA OtherStep ==
  ASSUME IInv, (\E p \in Peers : Cools(p)) \/ Cancel \/ UNCHANGED schedulerVars PROVE IInv'
<1>1. UNCHANGED <<objects, workers, known, caller, waits, target, asks, told>>
  BY DEF Cools, Cancel, schedulerVars, retry
<1>2. SchedulerTypes'
  BY <1>1 DEF IInv, SchedulerTypes, Cools, Cancel, schedulerVars, objects, workers, retry, told
<1> QED
  BY <1>1, <1>2 DEF IInv, Listed, OnePlace, ListedFor, InFlight, Queued, Held, Waiting, Woken,
     RequestWasMade, objects, workers, told

\* Every step keeps the inductive invariant.
LEMMA StepInv == ASSUME IInv, [SchedulerNext]_schedulerVars PROVE IInv'
<1>1. CASE \E p \in Peers : Background(p) \/ Cools(p)
  BY <1>1, BackgroundStep, OtherStep
<1>2. ASSUME NEW k \in Callers,
             \/ \E p \in Peers, connect \in BOOLEAN : Ask(k, p, connect)
             \/ Join(k) \/ Submit(k) \/ Refused(k) \/ Answered(k) \/ GivesUp(k)
      PROVE  IInv'
  BY <1>2, CallerStep, SubmitStep
<1>3. ASSUME NEW w \in Workers, Working(w) PROVE IInv'
  BY <1>3, TakeStep, WorkerStep, FinishStep DEF Working
<1>4. CASE Cancel \/ Drain \/ UNCHANGED schedulerVars
  BY <1>4, OtherStep, DrainStep
<1> QED
  BY <1>1, <1>2, <1>3, <1>4 DEF SchedulerNext

\* Two calls that two workers hold are listed for two peers.
LEMMA OnePeerEach == ASSUME IInv PROVE OneCallPerPeer
<1> SUFFICES ASSUME NEW v \in Workers, NEW w \in Workers, v # w, job[v] # None, job[w] # None,
                    spec[job[v]].peer = spec[job[w]].peer
             PROVE  FALSE
  BY DEF OneCallPerPeer
<1>1. job[v] \in InFlight /\ job[w] \in InFlight
  BY DEF InFlight, Held
<1> QED
  BY <1>1 DEF IInv, Listed, OnePlace

-----------------------------------------------------------------------------

\* The inductive invariant holds always: each call is in one place, under the peer it is for,
\* and each caller waits for a call of its peer.
THEOREM Inductive == SchedulerSpec => []IInv
BY InitInv, StepInv, PTL DEF SchedulerSpec

\* Every variable keeps its type, and the queue its limit.
THEOREM SchedulerTypeCorrect == SchedulerSpec => []SchedulerTypes
<1>1. IInv => SchedulerTypes
  BY DEF IInv
<1> QED
  BY <1>1, Inductive, PTL

\* For any peers, workers, callers and limits: two workers never make a handshake with
\* the same peer at the same time.
THEOREM SingleFlight == SchedulerSpec => []OneCallPerPeer
BY OnePeerEach, Inductive, PTL

\* A connect request that reports success was made by a call that carried it.
THEOREM RequestsAreMade == SchedulerSpec => []RequestWasMade
<1>1. IInv => RequestWasMade
  BY DEF IInv
<1> QED
  BY <1>1, Inductive, PTL
==============================================================================
