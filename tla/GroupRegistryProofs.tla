------------------------- MODULE GroupRegistryProofs -------------------------
(* What is proved of GroupRegistry, for every value of the constants. *)
EXTENDS GroupRegistry, WellFoundedInduction, NaturalsInduction, TLAPS

-----------------------------------------------------------------------------
(* Functions and numbers *)

Map(f) == f = [x \in DOMAIN f |-> f[x]]

\* A function from some elements of S to elements of T.
Partial(f, S, T) ==
  /\ Map(f)
  /\ DOMAIN f \subseteq S /\ \A x \in DOMAIN f : f[x] \in T

LEMMA PartialWith ==
  ASSUME NEW f, NEW S, NEW T, Partial(f, S, T), NEW k \in S, NEW v \in T
  PROVE  Partial(With(f, k, v), S, T)
BY DEF With, Map, Partial

LEMMA PartialWithout ==
  ASSUME NEW f, NEW S, NEW T, Partial(f, S, T), NEW k
  PROVE  Partial(Without(f, k), S, T)
BY DEF Without, Map, Partial

LEMMA SameFunction ==
  ASSUME NEW f, NEW g, Map(f), Map(g), DOMAIN f = DOMAIN g, \A x \in DOMAIN f : f[x] = g[x]
  PROVE  f = g
BY DEF Map

LEMMA LeastNumber ==
  ASSUME NEW S \in SUBSET Nat, S # {} PROVE \E x \in S : \A y \in S : x <= y
<1> DEFINE Less == OpToRel(<, Nat)
<1>1. IsWellFoundedOn(Less, Nat)
  BY NatLessThanWellFounded
<1>2. \A x, y \in Nat : x < y => <<x, y>> \in Less
  BY DEF OpToRel
<1> HIDE DEF Less
<1>3. PICK x \in S : \A y \in S : ~(<<y, x>> \in Less)
  BY <1>1, WFMin
<1>4. ASSUME NEW y \in S PROVE x <= y
  <2>1. x \in Nat /\ y \in Nat /\ ~(<<y, x>> \in Less)
    BY <1>3
  <2>2. ~(y < x)
    BY <1>2, <2>1
  <2> QED
    BY <2>1, <2>2
<1> QED
  BY <1>4

\* The next subnet is past those in use, and it is the only such number that is close.
LEMMA NextSubnetIs ==
  ASSUME NEW gs, DOMAIN gs \subseteq Subnets
  PROVE  /\ NextSubnet(gs) \in Nat
         /\ \A h \in DOMAIN gs : h < NextSubnet(gs)
         /\ \A g \in DOMAIN gs : (\A h \in DOMAIN gs : h <= g) => NextSubnet(gs) = g + 1
<1> DEFINE S == DOMAIN gs
<1>1. S \subseteq Nat /\ \A h \in S : h <= SubnetMax
  BY RegistryAssumption DEF Subnets
<1>2. CASE S = {}
  BY <1>2 DEF NextSubnet
<1>3. CASE S # {}
  <2> DEFINE above == {n \in Nat : \A h \in S : h <= n}
  <2>1. SubnetMax \in above
    BY <1>1, RegistryAssumption
  <2>2. PICK m \in above : \A n \in above : m <= n
    BY <2>1, LeastNumber
  <2>3. m \in S
    <3> SUFFICES ASSUME m \notin S PROVE FALSE
      OBVIOUS
    <3>1. \A h \in S : h < m
      BY <1>1, <2>2
    <3>2. PICK h \in S : TRUE
      BY <1>3
    <3>3. m - 1 \in above
      BY <1>1, <2>2, <3>1, <3>2
    <3> QED
      BY <2>2, <3>3
  <2> DEFINE top == CHOOSE g \in S : \A h \in S : h <= g
  <2>4. top \in S /\ \A h \in S : h <= top
    BY <2>2, <2>3
  <2>5. NextSubnet(gs) = 1 + top
    BY <1>3 DEF NextSubnet
  <2> HIDE DEF top
  <2>6. \A g \in S : (\A h \in S : h <= g) => g = top
    BY <1>1, <2>4
  <2> QED
    BY <1>1, <2>4, <2>5, <2>6
<1> QED
  BY <1>2, <1>3

-----------------------------------------------------------------------------
(* The tables *)

Group == [code : Codes, version : Nat]

Db(d) ==
  /\ d = [groups |-> d.groups, members |-> d.members, bare |-> d.bare, addrs |-> d.addrs]
  /\ Partial(d.groups, Subnets, Group) /\ Partial(d.members, Peers, Row)
  /\ d.bare \union d.addrs \subseteq DOMAIN d.members
  /\ \A p \in DOMAIN d.members : d.members[p].group \in DOMAIN d.groups
  /\ \A g, h \in DOMAIN d.groups : d.groups[g].code = d.groups[h].code => g = h

\* A statement keeps the groups, and the memberships except those of X.
Keeps(d, e, X) ==
  /\ DOMAIN d.groups \subseteq DOMAIN e.groups
  /\ \A p \in DOMAIN d.members \ X : p \in DOMAIN e.members /\ e.members[p] = d.members[p]

LEMMA KeepsOn ==
  ASSUME NEW d, NEW e, NEW f, NEW X, Keeps(d, e, X), Keeps(e, f, {}) PROVE Keeps(d, f, X)
BY DEF Keeps

LEMMA InsertGroupIs ==
  ASSUME NEW d, Db(d), NEW g \in Subnets \ DOMAIN d.groups, NEW c \in Codes,
         \A h \in DOMAIN d.groups : d.groups[h].code # c
  PROVE  /\ Db(InsertGroup(d, g, c)) /\ Keeps(d, InsertGroup(d, g, c), {})
         /\ InsertGroup(d, g, c).groups = With(d.groups, g, [code |-> c, version |-> 1])
         /\ InsertGroup(d, g, c).members = d.members
         /\ InsertGroup(d, g, c).bare = d.bare /\ InsertGroup(d, g, c).addrs = d.addrs
<1> DEFINE e == InsertGroup(d, g, c)
           new == With(d.groups, g, [code |-> c, version |-> 1])
<1>1. d = [groups |-> d.groups, members |-> d.members, bare |-> d.bare, addrs |-> d.addrs]
  BY DEF Db
<1>2. e = [groups |-> new, members |-> d.members, bare |-> d.bare, addrs |-> d.addrs]
  BY <1>1 DEF InsertGroup
<1> HIDE DEF e
<1>3. Partial(new, Subnets, Group)
  BY PartialWith DEF Db, Group
<1>4. /\ DOMAIN new = DOMAIN d.groups \union {g} /\ new[g].code = c
      /\ \A h \in DOMAIN d.groups : new[h] = d.groups[h]
  BY DEF With
<1> HIDE DEF new
<1>5. Db(e)
  BY <1>2, <1>3, <1>4 DEF Db
<1>6. Keeps(d, e, {})
  BY <1>2, <1>4 DEF Keeps
<1> QED
  BY <1>2, <1>5, <1>6 DEF e, new

LEMMA InsertMemberIs ==
  ASSUME NEW d, Db(d), NEW p \in Peers \ DOMAIN d.members, NEW g \in DOMAIN d.groups,
         NEW h \in Hosts, NEW r \in {"owner", "member"}
  PROVE  /\ Db(InsertMember(d, p, g, h, r)) /\ Keeps(d, InsertMember(d, p, g, h, r), {})
         /\ InsertMember(d, p, g, h, r).groups = d.groups
         /\ InsertMember(d, p, g, h, r).members
              = With(d.members, p, [group |-> g, host |-> h, role |-> r])
         /\ InsertMember(d, p, g, h, r).bare = d.bare /\ InsertMember(d, p, g, h, r).addrs = d.addrs
<1> DEFINE e == InsertMember(d, p, g, h, r)
           row == [group |-> g, host |-> h, role |-> r]
           new == With(d.members, p, row)
<1>1. d = [groups |-> d.groups, members |-> d.members, bare |-> d.bare, addrs |-> d.addrs]
  BY DEF Db
<1>2. e = [groups |-> d.groups, members |-> new, bare |-> d.bare, addrs |-> d.addrs]
  BY <1>1 DEF InsertMember
<1> HIDE DEF e
<1>3. row \in Row
  BY DEF Db, Partial, Row
<1>4. Partial(new, Peers, Row)
  BY <1>3, PartialWith DEF Db
<1>5. /\ DOMAIN new = DOMAIN d.members \union {p} /\ new[p] = row /\ row.group = g
      /\ \A q \in DOMAIN d.members : new[q] = d.members[q]
  BY DEF With
<1> HIDE DEF new, row
<1>6. Db(e)
  BY <1>2, <1>4, <1>5 DEF Db
<1>7. Keeps(d, e, {})
  BY <1>2, <1>5 DEF Keeps
<1> QED
  BY <1>2, <1>6, <1>7 DEF e, new, row

LEMMA DeleteMemberIs ==
  ASSUME NEW d, Db(d), NEW p
  PROVE  /\ Db(DeleteMember(d, p)) /\ Keeps(d, DeleteMember(d, p), {p})
         /\ DeleteMember(d, p).groups = d.groups
         /\ DeleteMember(d, p).members = Without(d.members, p)
         /\ DeleteMember(d, p).addrs = d.addrs \ {p}
<1> DEFINE e == DeleteMember(d, p)
           new == Without(d.members, p)
<1>1. d = [groups |-> d.groups, members |-> d.members, bare |-> d.bare, addrs |-> d.addrs]
  BY DEF Db
<1>2. e = [groups |-> d.groups, members |-> new, bare |-> d.bare \ {p}, addrs |-> d.addrs \ {p}]
  <2> DEFINE ms == d.members
             bs == d.bare
             as == d.addrs
  <2>1. d = [groups |-> d.groups, members |-> ms, bare |-> bs, addrs |-> as]
    BY <1>1
  <2>2. e = [d EXCEPT !.members = new, !.bare = bs \ {p}, !.addrs = as \ {p}]
    BY DEF DeleteMember
  <2> HIDE DEF ms, bs, as, new
  <2>3. e = [groups |-> d.groups, members |-> new, bare |-> bs \ {p}, addrs |-> as \ {p}]
    BY <2>1, <2>2
  <2> QED
    BY <2>3 DEF bs, as
<1> HIDE DEF e
<1>3. Partial(new, Peers, Row)
  BY PartialWithout DEF Db
<1>4. DOMAIN new = DOMAIN d.members \ {p} /\ \A q \in DOMAIN new : new[q] = d.members[q]
  BY DEF Without
<1> HIDE DEF new
<1>5. Db(e)
  BY <1>2, <1>3, <1>4 DEF Db
<1>6. Keeps(d, e, {p})
  BY <1>2, <1>4 DEF Keeps
<1> QED
  BY <1>2, <1>5, <1>6 DEF e, new

\* A group with its next version, or with other data.
Raise(gs, g)    == [gs EXCEPT ![g].version = gs[g].version + 1]
Put(f, x, v)    == [f EXCEPT ![x] = v]
Recode(gs, g, c) == [gs EXCEPT ![g].code = c]
Renew(gs, g, c) == [gs EXCEPT ![g] = [code |-> c, version |-> gs[g].version + 1]]

LEMMA BumpIs ==
  ASSUME NEW d, Db(d), NEW g \in DOMAIN d.groups
  PROVE  /\ Db(Bump(d, g)) /\ Keeps(d, Bump(d, g), {})
         /\ Bump(d, g).groups = Raise(d.groups, g)
         /\ Bump(d, g).members = d.members
         /\ Bump(d, g).bare = d.bare /\ Bump(d, g).addrs = d.addrs
<1> DEFINE e == Bump(d, g)
           new == [d.groups EXCEPT ![g].version = d.groups[g].version + 1]
           gs == d.groups
<1>1. d = [groups |-> gs, members |-> d.members, bare |-> d.bare, addrs |-> d.addrs]
  BY DEF Db
<1>2. e = [groups |-> new, members |-> d.members, bare |-> d.bare, addrs |-> d.addrs]
  BY <1>1 DEF Bump
<1> HIDE DEF e
<1>3. gs \in [DOMAIN gs -> Group] /\ DOMAIN gs \subseteq Subnets
  BY DEF Db, Partial, Map
<1>4. /\ new \in [DOMAIN gs -> Group] /\ DOMAIN new = DOMAIN gs
      /\ \A h \in DOMAIN gs : new[h].code = gs[h].code
  BY <1>3 DEF Group
<1> HIDE DEF new
<1>5. Partial(new, Subnets, Group)
  BY <1>3, <1>4 DEF Partial, Map
<1>6. Db(e)
  BY <1>2, <1>4, <1>5 DEF Db
<1>7. Keeps(d, e, {})
  BY <1>2, <1>4 DEF Keeps
<1> QED
  BY <1>2, <1>6, <1>7 DEF e, new, Raise

LEMMA UpdateInviteIs ==
  ASSUME NEW d, Db(d), NEW g \in DOMAIN d.groups, NEW c \in Codes,
         \A h \in DOMAIN d.groups : d.groups[h].code # c
  PROVE  /\ Db(UpdateInvite(d, g, c)) /\ Keeps(d, UpdateInvite(d, g, c), {})
         /\ UpdateInvite(d, g, c).groups = Recode(d.groups, g, c)
         /\ UpdateInvite(d, g, c).members = d.members
         /\ UpdateInvite(d, g, c).bare = d.bare /\ UpdateInvite(d, g, c).addrs = d.addrs
<1> DEFINE e == UpdateInvite(d, g, c)
           new == [d.groups EXCEPT ![g].code = c]
           gs == d.groups
<1>1. d = [groups |-> gs, members |-> d.members, bare |-> d.bare, addrs |-> d.addrs]
  BY DEF Db
<1>2. e = [groups |-> new, members |-> d.members, bare |-> d.bare, addrs |-> d.addrs]
  BY <1>1 DEF UpdateInvite
<1> HIDE DEF e
<1>3. gs \in [DOMAIN gs -> Group] /\ DOMAIN gs \subseteq Subnets
  BY DEF Db, Partial, Map
<1>4. /\ new \in [DOMAIN gs -> Group] /\ DOMAIN new = DOMAIN gs
      /\ \A h \in DOMAIN gs : new[h].code = IF h = g THEN c ELSE gs[h].code
  BY <1>3 DEF Group
<1> HIDE DEF new
<1>5. Partial(new, Subnets, Group)
  BY <1>3, <1>4 DEF Partial, Map
<1>6. Db(e)
  BY <1>2, <1>4, <1>5 DEF Db
<1>7. Keeps(d, e, {})
  BY <1>2, <1>4 DEF Keeps
<1> QED
  BY <1>2, <1>6, <1>7 DEF e, new, Recode

LEMMA ReplaceAddrsIs ==
  ASSUME NEW d, Db(d), NEW p \in DOMAIN d.members
  PROVE  /\ Db(ReplaceAddrs(d, p)) /\ Keeps(d, ReplaceAddrs(d, p), {})
         /\ ReplaceAddrs(d, p).groups = d.groups /\ ReplaceAddrs(d, p).members = d.members
         /\ ReplaceAddrs(d, p).addrs = d.addrs \union {p}
<1> DEFINE e == ReplaceAddrs(d, p)
           as == d.addrs
<1>1. d = [groups |-> d.groups, members |-> d.members, bare |-> d.bare, addrs |-> as]
  BY DEF Db
<1>2. e = [groups |-> d.groups, members |-> d.members, bare |-> d.bare, addrs |-> as \union {p}]
  BY <1>1 DEF ReplaceAddrs
<1> HIDE DEF e
<1>3. Db(e)
  BY <1>2 DEF Db
<1>4. Keeps(d, e, {})
  BY <1>2 DEF Keeps
<1> QED
  BY <1>2, <1>3, <1>4 DEF e

\* What a start and the repair command make of the tables.
LEMMA OthersAre ==
  ASSUME NEW d, Db(d)
  PROVE  /\ \A done : /\ Db(Backfill(d, done)) /\ Keeps(d, Backfill(d, done), {})
                      /\ Rebuilt(Backfill(d, done)) = Rebuilt(d)
         /\ Db([d EXCEPT !.bare = DOMAIN d.members]) /\ Keeps(d, [d EXCEPT !.bare = DOMAIN d.members], {})
         /\ Db(NoTables)
<1>1. d = [groups |-> d.groups, members |-> d.members, bare |-> d.bare, addrs |-> d.addrs]
  BY DEF Db
<1>2. ASSUME NEW bare, bare \subseteq DOMAIN d.members
      PROVE  Db([d EXCEPT !.bare = bare]) /\ Keeps(d, [d EXCEPT !.bare = bare], {})
  <2> DEFINE e == [d EXCEPT !.bare = bare]
  <2>1. e = [groups |-> d.groups, members |-> d.members, bare |-> bare, addrs |-> d.addrs]
    BY <1>1
  <2> HIDE DEF e
  <2>2. Db(e)
    BY <1>2, <2>1 DEF Db
  <2>3. Keeps(d, e, {})
    BY <2>1 DEF Keeps
  <2> QED
    BY <2>2, <2>3 DEF e
<1>3. ASSUME NEW done
      PROVE  /\ Db(Backfill(d, done)) /\ Keeps(d, Backfill(d, done), {})
             /\ Rebuilt(Backfill(d, done)) = Rebuilt(d)
  <2> DEFINE bare == d.bare \ done
             e == Backfill(d, done)
  <2>1. bare \subseteq DOMAIN d.members /\ e = [d EXCEPT !.bare = bare]
    BY DEF Backfill, Db
  <2> HIDE DEF bare, e
  <2>2. Db(e) /\ Keeps(d, e, {})
    BY <1>2, <2>1
  <2>3. e.groups = d.groups /\ e.members = d.members /\ e.addrs = d.addrs
    BY <1>1, <2>1
  <2>4. Rebuilt(e) = Rebuilt(d)
    BY <2>3 DEF Rebuilt, LoadGroups, LoadAnnouncedAddrs, Roster
  <2> QED
    BY <2>2, <2>4 DEF e
<1>4. Db(NoTables)
  BY DEF Db, NoTables, Nothing, Partial, Map
<1> QED
  BY <1>2, <1>3, <1>4

LEMMA LegacyIs ==
  ASSUME NEW p \in Peers, NEW c \in Codes PROVE Db(Legacy(p, c))
<1> DEFINE row == [group |-> 0, host |-> 2, role |-> "owner"]
           ms == With(Nothing, p, row)
           gs == With(Nothing, 0, [code |-> c, version |-> 1])
<1>1. 0 \in Subnets /\ 2 \in Hosts
  BY RegistryAssumption DEF Subnets, Hosts
<1>2. row \in Row /\ [code |-> c, version |-> 1] \in Group
  BY <1>1 DEF Row, Group
<1>3. Partial(ms, Peers, Row) /\ DOMAIN ms = {p} /\ ms[p] = row
  BY <1>2 DEF With, Nothing, Partial, Map
<1>4. Partial(gs, Subnets, Group) /\ DOMAIN gs = {0}
  BY <1>1, <1>2 DEF With, Nothing, Partial, Map
<1>5. Legacy(p, c) = [groups |-> gs, members |-> ms, bare |-> {p}, addrs |-> {}] /\ row.group = 0
  BY DEF Legacy
<1> HIDE DEF row, ms, gs
<1> QED
  BY <1>3, <1>4, <1>5 DEF Db

-----------------------------------------------------------------------------
(* The indexes in memory *)

Memory(m) ==
  m = [next |-> m.next, groups |-> m.groups, invites |-> m.invites, groupOf |-> m.groupOf,
       role |-> m.role, announced |-> m.announced, nodes |-> m.nodes]

\* The indexes fit each other, and know no group that the tables do not.
Fits(m, d) ==
  /\ Memory(m) /\ m.next \in Nat
  /\ Partial(m.groups, Subnets, Group) /\ DOMAIN m.groups \subseteq DOMAIN d.groups
  /\ Partial(m.invites, Codes, DOMAIN m.groups)
  /\ \A c \in DOMAIN m.invites : m.groups[m.invites[c]].code = c
  /\ Partial(m.groupOf, Peers, DOMAIN m.groups)
  /\ Partial(m.role, Peers, {"owner", "member"}) /\ DOMAIN m.role = DOMAIN m.groupOf
  /\ Map(m.nodes) /\ DOMAIN m.nodes = DOMAIN m.groups
  /\ \A g \in DOMAIN m.nodes : Partial(m.nodes[g], Peers, Hosts)

\* The network map of a peer has the peer with this row.
Sees(m, p, row) ==
  /\ p \in DOMAIN m.groupOf /\ m.groupOf[p] = row.group /\ m.role[p] = row.role
  /\ row.group \in DOMAIN m.nodes /\ p \in DOMAIN m.nodes[row.group]
  /\ m.nodes[row.group][p] = row.host

\* The network maps go on showing what they show, except of the peers in X.
Shows(m, n, X) == \A q, row : q \notin X /\ Sees(m, q, row) => Sees(n, q, row)

LEMMA FitsOn ==
  ASSUME NEW m, NEW d, NEW e, NEW X, Fits(m, d), Keeps(d, e, X) PROVE Fits(m, e)
BY DEF Fits, Keeps

LEMMA RosterIs ==
  ASSUME NEW d, Db(d), NEW g
  PROVE  /\ Partial(Roster(d, g), Peers, Hosts)
         /\ \A q : q \in DOMAIN Roster(d, g) <=> q \in DOMAIN d.members /\ d.members[q].group = g
         /\ \A q \in DOMAIN Roster(d, g) : Roster(d, g)[q] = d.members[q].host
BY DEF Roster, Db, Partial, Map, Row

LEMMA RebuiltIs ==
  ASSUME NEW d, Db(d)
  PROVE  /\ Fits(Rebuilt(d), d)
         /\ \A p \in DOMAIN d.members : Sees(Rebuilt(d), p, d.members[p])
<1> DEFINE m == Rebuilt(d)
           codes == {d.groups[g].code : g \in DOMAIN d.groups}
           owner(c) == CHOOSE g \in DOMAIN d.groups : d.groups[g].code = c
           rosters == [g \in DOMAIN d.groups |-> Roster(d, g)]
<1>1. /\ m.next = NextSubnet(d.groups) /\ m.groups = d.groups
      /\ m.invites = [c \in codes |-> owner(c)]
      /\ m.groupOf = [p \in DOMAIN d.members |-> d.members[p].group]
      /\ m.role = [p \in DOMAIN d.members |-> d.members[p].role]
      /\ m.announced = d.addrs /\ m.nodes = rosters
  BY DEF Rebuilt, LoadGroups, LoadAnnouncedAddrs
<1>2. Memory(m)
  BY DEF Memory, Rebuilt, LoadGroups, LoadAnnouncedAddrs
<1> HIDE DEF m
<1>3. m.next \in Nat
  BY <1>1, NextSubnetIs DEF Db, Partial
<1>4. Partial(m.invites, Codes, DOMAIN m.groups) /\ \A c \in DOMAIN m.invites : m.groups[m.invites[c]].code = c
  <2>1. \A c \in codes : owner(c) \in DOMAIN d.groups /\ d.groups[owner(c)].code = c
    OBVIOUS
  <2>2. codes \subseteq Codes
    BY DEF Db, Partial, Group
  <2> HIDE DEF owner, codes
  <2> QED
    BY <1>1, <2>1, <2>2 DEF Partial, Map
<1>5. \A p \in DOMAIN d.members : d.members[p] \in Row /\ d.members[p].group \in DOMAIN d.groups /\ p \in Peers
  BY DEF Db, Partial
<1>6. Partial(m.groupOf, Peers, DOMAIN m.groups)
  BY <1>1, <1>5 DEF Partial, Map
<1>7. Partial(m.role, Peers, {"owner", "member"}) /\ DOMAIN m.role = DOMAIN m.groupOf
  BY <1>1, <1>5 DEF Partial, Map, Row
<1>8. /\ Map(m.nodes) /\ DOMAIN m.nodes = DOMAIN m.groups
      /\ \A g \in DOMAIN m.nodes : m.nodes[g] = Roster(d, g)
  BY <1>1 DEF Map
<1>9. \A g \in DOMAIN m.nodes : Partial(m.nodes[g], Peers, Hosts)
  BY <1>8, RosterIs
<1>10. Fits(m, d)
  BY <1>1, <1>2, <1>3, <1>4, <1>6, <1>7, <1>8, <1>9 DEF Fits, Db
<1>11. ASSUME NEW p \in DOMAIN d.members PROVE Sees(m, p, d.members[p])
  <2> DEFINE g == d.members[p].group
  <2>1. g \in DOMAIN m.nodes /\ m.nodes[g] = Roster(d, g)
    BY <1>1, <1>5, <1>8
  <2>2. p \in DOMAIN Roster(d, g) /\ Roster(d, g)[p] = d.members[p].host
    BY RosterIs
  <2> QED
    BY <1>1, <2>1, <2>2 DEF Sees
<1> QED
  BY <1>10, <1>11 DEF m

\* The indexes after Create.
Created(m, p, c, g) ==
  [m EXCEPT !.next = g + 1,
            !.groups = With(@, g, [code |-> c, version |-> 1]),
            !.invites = With(@, c, g),
            !.groupOf = With(@, p, g), !.role = With(@, p, "owner"),
            !.nodes = With(@, g, Founded(p))]

LEMMA CreateFits ==
  ASSUME NEW m, NEW d, NEW e, Fits(m, d), DOMAIN d.groups \subseteq DOMAIN e.groups,
         NEW p \in Peers \ DOMAIN m.groupOf, NEW c \in Codes \ DOMAIN m.invites,
         NEW g \in DOMAIN e.groups \ DOMAIN d.groups, g \in Subnets,
         NEW n, n = Created(m, p, c, g)
  PROVE  /\ Fits(n, e) /\ Sees(n, p, [group |-> g, host |-> 2, role |-> "owner"])
         /\ Shows(m, n, {})
         /\ n.next = g + 1 /\ n.groups = With(m.groups, g, [code |-> c, version |-> 1])
         /\ n.invites = With(m.invites, c, g) /\ n.groupOf = With(m.groupOf, p, g)
         /\ n.role = With(m.role, p, "owner") /\ n.nodes = With(m.nodes, g, Founded(p))
         /\ n.announced = m.announced
<1> DEFINE gs == With(m.groups, g, [code |-> c, version |-> 1])
           is == With(m.invites, c, g)
           go == With(m.groupOf, p, g)
           ro == With(m.role, p, "owner")
           no == With(m.nodes, g, Founded(p))
<1>1. Memory(m)
  BY DEF Fits
<1>2. /\ Memory(n) /\ n.next = g + 1 /\ n.groups = gs /\ n.invites = is /\ n.groupOf = go
      /\ n.role = ro /\ n.nodes = no /\ n.announced = m.announced
  <2> HIDE DEF gs, is, go, ro, no
  <2>1. n = [m EXCEPT !.next = g + 1, !.groups = gs, !.invites = is, !.groupOf = go,
                      !.role = ro, !.nodes = no]
    BY DEF gs, is, go, ro, no, Created
  <2> QED
    BY <1>1, <2>1 DEF Memory
<1>3. g \notin DOMAIN m.groups /\ g + 1 \in Nat
  BY RegistryAssumption DEF Fits, Subnets
<1>4. /\ Partial(gs, Subnets, Group) /\ DOMAIN gs = DOMAIN m.groups \union {g}
      /\ gs[g] = [code |-> c, version |-> 1] /\ \A h \in DOMAIN m.groups : gs[h] = m.groups[h]
  <2>1. [code |-> c, version |-> 1] \in Group
    BY DEF Group
  <2>2. Partial(gs, Subnets, Group)
    BY <2>1, PartialWith DEF Fits
  <2> QED
    BY <1>3, <2>2 DEF With, Fits
<1>5. Partial(is, Codes, DOMAIN gs) /\ \A x \in DOMAIN is : gs[is[x]].code = x
  BY <1>3, <1>4 DEF With, Partial, Map, Fits
<1>6. /\ Partial(go, Peers, DOMAIN gs) /\ DOMAIN go = DOMAIN m.groupOf \union {p} /\ go[p] = g
      /\ \A q \in DOMAIN m.groupOf : go[q] = m.groupOf[q]
  BY <1>4 DEF With, Partial, Map, Fits
<1>7. /\ Partial(ro, Peers, {"owner", "member"}) /\ DOMAIN ro = DOMAIN go /\ ro[p] = "owner"
      /\ \A q \in DOMAIN m.groupOf : ro[q] = m.role[q]
  BY <1>6 DEF With, Partial, Map, Fits
<1>8. Partial(Founded(p), Peers, Hosts) /\ DOMAIN Founded(p) = {p} /\ Founded(p)[p] = 2
  <2>1. 2 \in Hosts
    BY RegistryAssumption DEF Hosts
  <2> QED
    BY <2>1 DEF Founded, NewNodes, Nothing, With, Partial, Map
<1>9. /\ Map(no) /\ DOMAIN no = DOMAIN gs /\ no[g] = Founded(p)
      /\ \A h \in DOMAIN m.nodes : no[h] = m.nodes[h]
  BY <1>3, <1>4 DEF With, Map, Fits
<1>10. \A h \in DOMAIN no : Partial(no[h], Peers, Hosts)
  BY <1>4, <1>8, <1>9 DEF Fits
<1> HIDE DEF gs, is, go, ro, no
<1>11. Fits(n, e)
  <2>1. DOMAIN gs \subseteq DOMAIN e.groups
    BY <1>4 DEF Fits
  <2> QED
    BY <1>2, <1>3, <1>4, <1>5, <1>6, <1>7, <1>9, <1>10, <2>1 DEF Fits
<1>12. Sees(n, p, [group |-> g, host |-> 2, role |-> "owner"])
  BY <1>2, <1>4, <1>6, <1>7, <1>8, <1>9 DEF Sees
<1>13. ASSUME NEW q, NEW row, Sees(m, q, row) PROVE Sees(n, q, row)
  <2>1. DOMAIN m.nodes = DOMAIN m.groups
    BY DEF Fits
  <2> QED
    BY <1>2, <1>4, <1>6, <1>7, <1>9, <1>13, <2>1 DEF Sees
<1> QED
  BY <1>2, <1>11, <1>12, <1>13 DEF gs, is, go, ro, no, Shows

\* A new version of a group.
LEMMA RaiseIs ==
  ASSUME NEW gs, Partial(gs, Subnets, Group), NEW g \in DOMAIN gs, NEW new,
         new = [gs EXCEPT ![g].version = gs[g].version + 1]
  PROVE  /\ Partial(new, Subnets, Group) /\ DOMAIN new = DOMAIN gs
         /\ \A h \in DOMAIN gs : new[h].code = gs[h].code
<1>1. gs \in [DOMAIN gs -> Group] /\ DOMAIN gs \subseteq Subnets
  BY DEF Partial, Map
<1>2. /\ new \in [DOMAIN gs -> Group] /\ DOMAIN new = DOMAIN gs
      /\ \A h \in DOMAIN gs : new[h].code = gs[h].code
  BY <1>1 DEF Group
<1> QED
  BY <1>1, <1>2 DEF Partial, Map

\* The indexes with another registry of nodes for a group.
Enrolled(m, g, new) == [m EXCEPT !.nodes[g] = new]

LEMMA EnrollFits ==
  ASSUME NEW m, NEW d, Fits(m, d), NEW g \in DOMAIN m.groups, NEW new, Partial(new, Peers, Hosts),
         NEW n, n = Enrolled(m, g, new)
  PROVE  /\ Fits(n, d)
         /\ n.groups = m.groups /\ n.groupOf = m.groupOf /\ n.role = m.role
         /\ n.announced = m.announced /\ n.invites = m.invites /\ n.next = m.next
         /\ n.nodes = Put(m.nodes, g, new) /\ DOMAIN n.nodes = DOMAIN m.nodes
         /\ n.nodes[g] = new /\ \A h \in DOMAIN m.nodes : h # g => n.nodes[h] = m.nodes[h]
<1> DEFINE ns == m.nodes
           no == [ns EXCEPT ![g] = new]
<1>1. Memory(m)
  BY DEF Fits
<1>2. /\ Memory(n) /\ n.groups = m.groups /\ n.groupOf = m.groupOf /\ n.role = m.role
      /\ n.announced = m.announced /\ n.invites = m.invites /\ n.next = m.next /\ n.nodes = no
  BY <1>1 DEF Memory, Enrolled
<1>3. /\ Map(no) /\ DOMAIN no = DOMAIN ns /\ no[g] = new
      /\ \A h \in DOMAIN ns : h # g => no[h] = ns[h]
  BY DEF Fits, Map
<1> HIDE DEF no
<1>4. \A h \in DOMAIN no : Partial(no[h], Peers, Hosts)
  BY <1>3 DEF Fits
<1>5. Fits(n, d)
  BY <1>2, <1>3, <1>4 DEF Fits
<1> QED
  BY <1>2, <1>3, <1>5 DEF no, Put

\* The rest of a join, or of a kick: the version of the group and the indexes of members.
Counted(m, g, go, ro, an) ==
  [m EXCEPT !.groupOf = go, !.role = ro, !.announced = an,
            !.groups[g].version = m.groups[g].version + 1]

LEMMA MembersFit ==
  ASSUME NEW m, NEW d, Fits(m, d), NEW g \in DOMAIN m.groups,
         NEW go, Partial(go, Peers, DOMAIN m.groups),
         NEW ro, Partial(ro, Peers, {"owner", "member"}), DOMAIN ro = DOMAIN go, NEW an,
         NEW n, n = Counted(m, g, go, ro, an)
  PROVE  /\ Fits(n, d) /\ n.groupOf = go /\ n.role = ro /\ n.announced = an
         /\ n.nodes = m.nodes /\ n.invites = m.invites /\ n.next = m.next
         /\ n.groups = Raise(m.groups, g)
<1> DEFINE gs == m.groups
           new == [gs EXCEPT ![g].version = gs[g].version + 1]
<1>1. Memory(m)
  BY DEF Fits
<1>2. /\ Memory(n) /\ n.groups = new /\ n.groupOf = go /\ n.role = ro
      /\ n.announced = an /\ n.invites = m.invites /\ n.next = m.next /\ n.nodes = m.nodes
  BY <1>1 DEF Memory, Counted
<1>3. /\ Partial(new, Subnets, Group) /\ DOMAIN new = DOMAIN gs
      /\ \A h \in DOMAIN gs : new[h].code = gs[h].code
  BY RaiseIs DEF Fits
<1> HIDE DEF new
<1>4. \A c \in DOMAIN m.invites : m.invites[c] \in DOMAIN gs
  BY DEF Fits, Partial
<1>5. Fits(n, d)
  BY <1>2, <1>3, <1>4 DEF Fits
<1> QED
  BY <1>2, <1>5 DEF new, Raise

\* The indexes after ResetInvite.
Recoded(m, g, c, old) ==
  [m EXCEPT !.groups[g] = [code |-> c, version |-> m.groups[g].version + 1],
            !.invites = With(Without(@, old), c, g)]

LEMMA ResetFits ==
  ASSUME NEW m, NEW d, Fits(m, d), NEW g \in DOMAIN m.groups, NEW c \in Codes \ DOMAIN m.invites,
         NEW old, old = m.groups[g].code,
         NEW n, n = Recoded(m, g, c, old)
  PROVE  /\ Fits(n, d) /\ n.groupOf = m.groupOf /\ n.role = m.role /\ n.announced = m.announced
         /\ n.nodes = m.nodes /\ n.next = m.next
         /\ n.groups = Renew(m.groups, g, c)
         /\ n.invites = With(Without(m.invites, old), c, g)
<1> DEFINE gs == m.groups
           new == [gs EXCEPT ![g] = [code |-> c, version |-> gs[g].version + 1]]
           is == With(Without(m.invites, old), c, g)
<1>1. Memory(m)
  BY DEF Fits
<1>2. /\ Memory(n) /\ n.groups = new /\ n.groupOf = m.groupOf /\ n.role = m.role
      /\ n.announced = m.announced /\ n.invites = is /\ n.next = m.next /\ n.nodes = m.nodes
  <2> HIDE DEF is
  <2>1. n = [m EXCEPT !.groups[g] = [code |-> c, version |-> gs[g].version + 1], !.invites = is]
    BY DEF is, Recoded
  <2> QED
    BY <1>1, <2>1 DEF Memory
<1>3. gs \in [DOMAIN gs -> Group] /\ DOMAIN gs \subseteq Subnets
  BY DEF Fits, Partial, Map
<1>4. /\ new \in [DOMAIN gs -> Group] /\ DOMAIN new = DOMAIN gs
      /\ \A h \in DOMAIN gs : new[h].code = IF h = g THEN c ELSE gs[h].code
  BY <1>3 DEF Group
<1> HIDE DEF new
<1>5. Partial(new, Subnets, Group)
  BY <1>3, <1>4 DEF Partial, Map
<1>6. Partial(is, Codes, DOMAIN gs)
  BY DEF With, Without, Partial, Map, Fits
<1>7. ASSUME NEW x \in DOMAIN is PROVE new[is[x]].code = x
  <2>1. CASE x = c
    BY <1>4, <2>1 DEF With
  <2>2. CASE x # c
    <3>1. x \in DOMAIN m.invites /\ x # old /\ is[x] = m.invites[x]
      BY <2>2 DEF With, Without
    <3>2. m.invites[x] \in DOMAIN gs /\ gs[m.invites[x]].code = x
      BY <3>1 DEF Fits, Partial
    <3> QED
      BY <1>4, <3>1, <3>2
  <2> QED
    BY <2>1, <2>2
<1> HIDE DEF is
<1>8. Fits(n, d)
  BY <1>2, <1>4, <1>5, <1>6, <1>7 DEF Fits
<1> QED
  BY <1>2, <1>8 DEF new, is, Renew

-----------------------------------------------------------------------------
(* The invariant *)

Sound ==
  /\ Db(db) /\ Db(saved) /\ failures \in Nat /\ wiped \in BOOLEAN
  /\ schema \in 0 .. 2 /\ ledger \in 0 .. schema
  /\ pc = "recording" => ledger < schema
  /\ IF pc = "up" THEN Fits(mem, db) ELSE mem = Rebuilt(NoTables)
  /\ pc = "refill" => db = NoTables /\ wiped

Has(d, p, row) == p \in DOMAIN d.members /\ d.members[p] = row

\* A promise is in the tables, or in a copy that repair has made before it removed them ...
Kept ==
  \A p \in DOMAIN promised :
    Has(db, p, promised[p]) \/ (wiped /\ \E d \in backups : Has(d, p, promised[p]))

\* ... and, if it did not, in the network map.
Shown == pc = "up" /\ ~wiped => \A p \in DOMAIN promised : Sees(mem, p, promised[p])

Exact == pc = "up" /\ failures = 0 => mem = Rebuilt(db)

\* What an operation must be like: each prefix of its statements leaves tables that are
\* well formed and have all memberships but those of X; the indexes it ends with fit the
\* tables; what it promises is there.
Careful(trace, whole, done, part, told, doubt, X) ==
  /\ Len(trace) \in DOMAIN trace
  /\ \A k \in DOMAIN trace : Db(trace[k]) /\ Keeps(db, trace[k], X)
  /\ Fits(part, db) /\ (whole => Fits(done, trace[Len(trace)]))
  /\ \A q \in DOMAIN doubt :
       /\ q \in DOMAIN promised \ X /\ doubt[q] = promised[q]
       /\ Sees(mem, q, doubt[q]) => Sees(part, q, doubt[q])
  /\ whole => \A q \in DOMAIN told :
       \/ /\ q \in DOMAIN promised \ X /\ told[q] = promised[q]
          /\ Sees(mem, q, told[q]) => Sees(done, q, told[q])
       \/ Has(trace[Len(trace)], q, told[q]) /\ Sees(done, q, told[q])

LEMMA PerformIs ==
  ASSUME Sound, Kept, Shown, pc = "up",
         NEW trace, NEW whole \in BOOLEAN, NEW done, NEW part, NEW told, NEW doubt, NEW X,
         Careful(trace, whole, done, part, told, doubt, X),
         Perform(trace, whole, done, part, told, doubt)
  PROVE  Sound' /\ Kept' /\ Shown'
<1> DEFINE last == trace[Len(trace)]
<1>0. UNCHANGED <<schema, ledger, backups, saved, wiped>>
  BY DEF Perform, repair
<1>1. \A k \in DOMAIN trace : \A q \in DOMAIN promised \ X :
        Has(db, q, promised[q]) => Has(trace[k], q, promised[q])
  BY DEF Careful, Keeps, Has
<1>2. CASE whole /\ Completes(trace, done, told)
  <2>1. /\ db' = last /\ mem' = done /\ promised' = told /\ pc' = "up" /\ failures' = failures
        /\ Db(last) /\ Fits(done, last) /\ Len(trace) \in DOMAIN trace
    BY <1>2 DEF Completes, counts, Careful
  <2>2. Sound'
    BY <1>0, <2>1 DEF Sound
  <2>3. \A q \in DOMAIN told :
          \/ /\ q \in DOMAIN promised \ X /\ told[q] = promised[q]
             /\ Sees(mem, q, told[q]) => Sees(done, q, told[q])
          \/ Has(last, q, told[q]) /\ Sees(done, q, told[q])
    BY <1>2 DEF Careful
  <2>4. Kept'
    <3>1. SUFFICES ASSUME NEW q \in DOMAIN told
                   PROVE  Has(last, q, told[q]) \/ (wiped /\ \E d \in backups : Has(d, q, told[q]))
      BY <1>0, <2>1 DEF Kept
    <3> HIDE DEF last
    <3>2. CASE Has(last, q, told[q])
      BY <3>2
    <3>3. CASE q \in DOMAIN promised \ X /\ told[q] = promised[q]
      BY <1>1, <2>1, <3>3 DEF Kept, last
    <3> QED
      BY <2>3, <3>2, <3>3
  <2>5. Shown'
    BY <1>0, <2>1, <2>3 DEF Shown
  <2> QED
    BY <2>2, <2>4, <2>5
<1>3. ASSUME NEW k \in DOMAIN trace, db' = trace[k], promised' = doubt PROVE Kept'
  <2>1. \A q \in DOMAIN doubt : q \in DOMAIN promised \ X /\ doubt[q] = promised[q]
    BY DEF Careful
  <2> QED
    BY <1>0, <1>1, <1>3, <2>1 DEF Kept
<1>4. CASE BreaksOff(trace, whole, part, doubt)
  <2>1. PICK k \in DOMAIN trace : db' = trace[k]
    BY <1>4 DEF BreaksOff
  <2>2. /\ mem' = part /\ promised' = doubt /\ pc' = "up"
        /\ failures' = failures \/ failures' = failures + 1
    BY <1>4 DEF BreaksOff
  <2>3. Db(db') /\ Fits(part, db')
    BY <2>1, FitsOn DEF Careful
  <2>4. Sound'
    BY <1>0, <2>2, <2>3 DEF Sound
  <2>5. Shown'
    BY <1>0, <2>2 DEF Shown, Careful
  <2> QED
    BY <1>3, <2>1, <2>2, <2>4, <2>5
<1>5. CASE Dies(trace, doubt)
  <2>1. PICK k \in DOMAIN trace : db' = trace[k]
    BY <1>5 DEF Dies
  <2>2. mem' = Rebuilt(NoTables) /\ promised' = doubt /\ pc' = "down" /\ failures' = failures
    BY <1>5 DEF Dies
  <2>3. Sound'
    BY <1>0, <2>1, <2>2 DEF Sound, Careful
  <2>4. Shown'
    BY <2>2 DEF Shown
  <2> QED
    BY <1>3, <2>1, <2>2, <2>3, <2>4
<1> QED
  BY <1>2, <1>4, <1>5 DEF Perform

\* An operation of indexes that are exact leaves exact ones, unless a statement fails.
LEMMA PerformExact ==
  ASSUME Sound, Exact, pc = "up", NEW trace, NEW whole \in BOOLEAN, NEW done, NEW part, NEW told, NEW doubt,
         mem = Rebuilt(db) => IF whole THEN done = Rebuilt(trace[Len(trace)])
                                       ELSE part = Rebuilt(trace[Len(trace)]),
         Perform(trace, whole, done, part, told, doubt)
  PROVE  Exact'
<1>1. CASE whole /\ Completes(trace, done, told)
  BY <1>1 DEF Completes, counts, Exact
<1>2. CASE BreaksOff(trace, whole, part, doubt)
  <2>1. PICK k \in DOMAIN trace :
          /\ db' = trace[k]
          /\ IF k = Len(trace) /\ ~whole THEN failures' = failures
             ELSE k < Len(trace) /\ failures < MaxFailures /\ failures' = failures + 1
    BY <1>2 DEF BreaksOff
  <2>2. mem' = part /\ pc' = "up"
    BY <1>2 DEF BreaksOff
  <2>3. failures' = 0 => k = Len(trace) /\ ~whole /\ failures = 0
    BY <2>1 DEF Sound
  <2> QED
    BY <2>1, <2>2, <2>3 DEF Exact
<1>3. CASE Dies(trace, doubt)
  BY <1>3 DEF Dies, Exact
<1> QED
  BY <1>1, <1>2, <1>3 DEF Perform

-----------------------------------------------------------------------------
(* The operations *)

LEMMA Traces ==
  ASSUME NEW a, NEW b, NEW c
  PROVE  /\ Len(<<a>>) = 1 /\ DOMAIN <<a>> = 1 .. 1 /\ <<a>>[1] = a
         /\ Len(<<a, b>>) = 2 /\ DOMAIN <<a, b>> = 1 .. 2 /\ <<a, b>>[1] = a /\ <<a, b>>[2] = b
         /\ Len(<<a, b, c>>) = 3 /\ DOMAIN <<a, b, c>> = 1 .. 3
         /\ <<a, b, c>>[1] = a /\ <<a, b, c>>[2] = b /\ <<a, b, c>>[3] = c
OBVIOUS

LEMMA KeepsSelf == ASSUME NEW d, NEW X PROVE Keeps(d, d, X)
BY DEF Keeps

LEMMA CreateSteps ==
  ASSUME Sound, Kept, Shown, NEW p \in Peers, NEW c \in Codes, Create(p, c)
  PROVE  Sound' /\ Kept' /\ Shown'
<1> DEFINE g     == mem.next
           row   == [group |-> g, host |-> 2, role |-> "owner"]
           whole == p \notin DOMAIN db.members
           first == InsertGroup(db, g, c)
           second == InsertMember(first, p, g, 2, "owner")
           done  == Created(mem, p, c, g)
           told  == With(promised, p, row)
           trace == IF whole THEN <<db, first, second>> ELSE <<db, first>>
           last  == trace[Len(trace)]
<1>1. /\ pc = "up" /\ p \notin DOMAIN mem.groupOf /\ g <= SubnetMax
      /\ c \notin DOMAIN mem.invites /\ \A h \in DOMAIN db.groups : db.groups[h].code # c
      /\ g \notin DOMAIN db.groups
      /\ Perform(trace, whole, done, mem, told, promised)
  BY DEF Create, Fresh, Created
<1>2. Db(db) /\ Fits(mem, db) /\ g \in Subnets \ DOMAIN db.groups /\ 2 \in Hosts
  BY <1>1, RegistryAssumption DEF Sound, Fits, Subnets, Hosts
<1>3. /\ Db(first) /\ Keeps(db, first, {}) /\ first.members = db.members /\ first.addrs = db.addrs
      /\ first.groups = With(db.groups, g, [code |-> c, version |-> 1])
  BY <1>1, <1>2, InsertGroupIs
<1>4. g \in DOMAIN first.groups /\ DOMAIN db.groups \subseteq DOMAIN first.groups
  BY <1>3 DEF With
<1> HIDE DEF first
<1>5. ASSUME whole
      PROVE  /\ Db(second) /\ Keeps(db, second, {}) /\ Has(second, p, row)
             /\ second.groups = first.groups /\ second.addrs = db.addrs
             /\ second.members = With(db.members, p, row)
  <2>1. /\ Db(second) /\ Keeps(first, second, {}) /\ second.groups = first.groups
        /\ second.addrs = first.addrs /\ second.members = With(first.members, p, row)
    <3>1. p \in Peers \ DOMAIN first.members /\ "owner" \in {"owner", "member"}
      BY <1>3, <1>5
    <3> QED
      BY <1>2, <1>3, <1>4, <3>1, InsertMemberIs
  <2> HIDE DEF second
  <2>2. Keeps(db, second, {})
    BY <1>3, <2>1, KeepsOn
  <2>3. Has(second, p, row)
    BY <2>1 DEF Has, With
  <2> QED
    BY <1>3, <2>1, <2>2, <2>3
<1> HIDE DEF second
<1>6. /\ Len(trace) \in DOMAIN trace /\ (IF whole THEN last = second ELSE last = first)
      /\ \A k \in DOMAIN trace : trace[k] \in IF whole THEN {db, first, second} ELSE {db, first}
  BY Traces
<1>7. whole => /\ Fits(done, last) /\ Sees(done, p, row)
               /\ \A q \in DOMAIN promised : Sees(mem, q, promised[q]) => Sees(done, q, promised[q])
  <2>1. ASSUME whole
        PROVE  DOMAIN db.groups \subseteq DOMAIN last.groups /\ g \in DOMAIN last.groups
    BY <1>4, <1>5, <1>6, <2>1
  <2>2. p \in Peers \ DOMAIN mem.groupOf /\ c \in Codes \ DOMAIN mem.invites
    BY <1>1
  <2> HIDE DEF done, last
  <2>3. ASSUME whole PROVE Fits(done, last) /\ Sees(done, p, row)
    BY <1>2, <2>1, <2>2, <2>3, CreateFits DEF done
  <2>4. ASSUME whole PROVE Shows(mem, done, {})
    BY <1>2, <2>1, <2>2, <2>4, CreateFits DEF done
  <2> QED
    BY <2>3, <2>4 DEF Shows
<1> HIDE DEF trace, done
<1>8. Careful(trace, whole, done, mem, told, promised, {})
  <2>1. \A k \in DOMAIN trace : Db(trace[k]) /\ Keeps(db, trace[k], {})
    BY <1>2, <1>3, <1>5, <1>6, KeepsSelf
  <2>2. whole => \A q \in DOMAIN told :
          \/ /\ q \in DOMAIN promised \ {} /\ told[q] = promised[q]
             /\ Sees(mem, q, told[q]) => Sees(done, q, told[q])
          \/ Has(last, q, told[q]) /\ Sees(done, q, told[q])
    <3> SUFFICES ASSUME whole, NEW q \in DOMAIN told
                 PROVE  \/ /\ q \in DOMAIN promised \ {} /\ told[q] = promised[q]
                           /\ Sees(mem, q, told[q]) => Sees(done, q, told[q])
                        \/ Has(last, q, told[q]) /\ Sees(done, q, told[q])
      OBVIOUS
    <3>1. CASE q = p
      BY <1>5, <1>6, <1>7, <3>1 DEF With
    <3>2. CASE q # p
      BY <1>7, <3>2 DEF With
    <3> QED
      BY <3>1, <3>2
  <2> HIDE DEF told
  <2> QED
    BY <1>2, <1>6, <1>7, <2>1, <2>2 DEF Careful
<1>9. whole \in BOOLEAN
  OBVIOUS
<1> HIDE DEF whole, told
<1> QED
  BY <1>1, <1>8, <1>9, PerformIs

LEMMA EnrollIs ==
  ASSUME NEW d, Fits(mem, d), NEW g \in DOMAIN mem.groups, NEW p, p \in DOMAIN mem.nodes[g] \/ Free(g) # {}
  PROVE  /\ Enroll(g, p) \in Hosts
         /\ p \in DOMAIN mem.nodes[g] => Enroll(g, p) = mem.nodes[g][p]
<1>1. CASE p \in DOMAIN mem.nodes[g]
  BY <1>1 DEF Enroll, Fits, Partial
<1>2. CASE p \notin DOMAIN mem.nodes[g]
  <2>1. Free(g) \in SUBSET Nat /\ Free(g) \subseteq Hosts
    BY RegistryAssumption DEF Free, Hosts
  <2>2. \E h \in Free(g) : \A k \in Free(g) : h <= k
    BY <1>2, <2>1, LeastNumber
  <2>3. NextHost(g) \in Free(g)
    BY <2>2 DEF NextHost
  <2> QED
    BY <1>2, <2>1, <2>3 DEF Enroll
<1> QED
  BY <1>1, <1>2

LEMMA JoinSteps ==
  ASSUME Sound, Kept, Shown, NEW p \in Peers, NEW c \in Codes, Join(p, c)
  PROVE  Sound' /\ Kept' /\ Shown'
<1> DEFINE g     == mem.invites[c]
           h     == Enroll(g, p)
           row   == [group |-> g, host |-> h, role |-> "member"]
           whole == p \notin DOMAIN db.members
           first == InsertMember(db, p, g, h, "member")
           second == Bump(first, g)
           new   == With(mem.nodes[g], p, h)
           part  == Enrolled(mem, g, new)
           go    == With(mem.groupOf, p, g)
           ro    == With(mem.role, p, "member")
           done  == Counted(part, g, go, ro, part.announced)
           told  == With(promised, p, row)
           trace == IF whole THEN <<db, first, second>> ELSE <<db>>
           last  == trace[Len(trace)]
<1>1. /\ pc = "up" /\ c \in DOMAIN mem.invites
      /\ p \in DOMAIN mem.groupOf => mem.groupOf[p] = g
      /\ p \in DOMAIN mem.nodes[g] \/ Free(g) # {}
      /\ \E then : then = [part EXCEPT !.groupOf = go, !.role = ro,
                                       !.groups[g].version = part.groups[g].version + 1]
                   /\ Perform(trace, whole, then, part, told, promised)
  BY DEF Join, Enrolled
<1>2. /\ Db(db) /\ Fits(mem, db) /\ g \in DOMAIN mem.groups /\ g \in DOMAIN db.groups
      /\ h \in Hosts /\ (p \in DOMAIN mem.nodes[g] => h = mem.nodes[g][p])
  <2>1. Db(db) /\ Fits(mem, db)
    BY <1>1 DEF Sound
  <2>2. g \in DOMAIN mem.groups
    BY <1>1, <2>1 DEF Fits, Partial
  <2> QED
    BY <1>1, <2>1, <2>2, EnrollIs DEF Fits
<1> HIDE DEF g, h
<1>3. ASSUME whole
      PROVE  /\ Db(first) /\ Keeps(db, first, {}) /\ first.groups = db.groups
             /\ Db(second) /\ Keeps(db, second, {}) /\ Has(second, p, row)
  <2>1. /\ Db(first) /\ Keeps(db, first, {}) /\ first.groups = db.groups
        /\ first.members = With(db.members, p, row)
    <3>1. p \in Peers \ DOMAIN db.members /\ "member" \in {"owner", "member"}
      BY <1>3
    <3> HIDE DEF whole
    <3> QED
      BY <1>2, <3>1, InsertMemberIs
  <2> HIDE DEF first
  <2>2. Db(second) /\ Keeps(first, second, {}) /\ second.members = first.members
    BY <1>2, <2>1, BumpIs
  <2> HIDE DEF second
  <2>3. Keeps(db, second, {}) /\ Has(second, p, row)
    BY <2>1, <2>2, KeepsOn DEF Has, With
  <2> QED
    BY <2>1, <2>2, <2>3
<1> HIDE DEF first, second
<1>4. /\ Partial(new, Peers, Hosts) /\ new[p] = h /\ p \in DOMAIN new
      /\ \A q \in DOMAIN mem.nodes[g] : q \in DOMAIN new /\ (q # p => new[q] = mem.nodes[g][q])
  <2>1. Partial(mem.nodes[g], Peers, Hosts)
    BY <1>2 DEF Fits
  <2> QED
    BY <1>2, <2>1, PartialWith DEF With
<1> HIDE DEF new
<1>5. /\ Fits(part, db) /\ part.groups = mem.groups /\ part.groupOf = mem.groupOf
      /\ part.role = mem.role /\ DOMAIN part.nodes = DOMAIN mem.nodes /\ part.nodes[g] = new
      /\ \A x \in DOMAIN mem.nodes : x # g => part.nodes[x] = mem.nodes[x]
  BY <1>2, <1>4, EnrollFits
<1> HIDE DEF part
<1>6. Shows(mem, part, {})
  <2> SUFFICES ASSUME NEW q, NEW r, Sees(mem, q, r) PROVE Sees(part, q, r)
    BY DEF Shows
  <2>1. CASE q = p
    <3>1. r.group = g /\ r.host = h
      BY <1>1, <1>2, <2>1 DEF Sees
    <3> QED
      BY <1>4, <1>5, <2>1, <3>1 DEF Sees
  <2>2. CASE q # p
    BY <1>4, <1>5, <2>2 DEF Sees
  <2> QED
    BY <2>1, <2>2
<1>7. /\ Partial(go, Peers, DOMAIN mem.groups) /\ Partial(ro, Peers, {"owner", "member"})
      /\ DOMAIN ro = DOMAIN go /\ go[p] = g /\ ro[p] = "member" /\ p \in DOMAIN go
      /\ \A q \in DOMAIN mem.groupOf : q # p => q \in DOMAIN go /\ go[q] = mem.groupOf[q] /\ ro[q] = mem.role[q]
  <2>1. Partial(go, Peers, DOMAIN mem.groups)
    BY <1>2, PartialWith DEF Fits
  <2>2. Partial(ro, Peers, {"owner", "member"})
    BY <1>2, PartialWith DEF Fits
  <2> QED
    BY <1>2, <2>1, <2>2 DEF Fits, With
<1> HIDE DEF go, ro
<1>8. Fits(done, db) /\ done.groupOf = go /\ done.role = ro /\ done.nodes = part.nodes
  BY <1>2, <1>5, <1>7, MembersFit
<1>0. Perform(trace, whole, done, part, told, promised)
  <2>1. done = [part EXCEPT !.groupOf = go, !.role = ro,
                            !.groups[g].version = part.groups[g].version + 1]
    BY <1>5 DEF Fits, Memory, Counted
  <2> HIDE DEF done, trace, whole, told
  <2> QED
    BY <1>1, <2>1
<1> HIDE DEF done
<1>9. Shows(mem, done, {p}) /\ Sees(done, p, row)
  <2>1. Sees(done, p, row)
    BY <1>2, <1>4, <1>5, <1>7, <1>8 DEF Sees, Fits
  <2>2. ASSUME NEW q, NEW r, q # p, Sees(mem, q, r) PROVE Sees(done, q, r)
    BY <1>4, <1>5, <1>7, <1>8, <2>2 DEF Sees
  <2> QED
    BY <2>1, <2>2 DEF Shows
<1>10. /\ Len(trace) \in DOMAIN trace /\ (IF whole THEN last = second ELSE last = db)
       /\ \A k \in DOMAIN trace : trace[k] \in IF whole THEN {db, first, second} ELSE {db}
  BY Traces
<1> HIDE DEF trace
<1>11. Careful(trace, whole, done, part, told, promised, {})
  <2>1. \A k \in DOMAIN trace : Db(trace[k]) /\ Keeps(db, trace[k], {})
    BY <1>2, <1>3, <1>10, KeepsSelf
  <2>2. whole => Fits(done, last)
    BY <1>3, <1>8, <1>10, FitsOn
  <2>3. whole => \A q \in DOMAIN told :
          \/ /\ q \in DOMAIN promised \ {} /\ told[q] = promised[q]
             /\ Sees(mem, q, told[q]) => Sees(done, q, told[q])
          \/ Has(last, q, told[q]) /\ Sees(done, q, told[q])
    <3> SUFFICES ASSUME whole, NEW q \in DOMAIN told
                 PROVE  \/ /\ q \in DOMAIN promised \ {} /\ told[q] = promised[q]
                           /\ Sees(mem, q, told[q]) => Sees(done, q, told[q])
                        \/ Has(last, q, told[q]) /\ Sees(done, q, told[q])
      OBVIOUS
    <3>1. CASE q = p
      BY <1>3, <1>9, <1>10, <3>1 DEF With
    <3>2. CASE q # p
      <4>1. q \in DOMAIN promised /\ told[q] = promised[q]
        BY <3>2 DEF With
      <4> QED
        BY <1>9, <3>2, <4>1 DEF Shows
    <3> QED
      BY <3>1, <3>2
  <2>4. \A q \in DOMAIN promised : Sees(mem, q, promised[q]) => Sees(part, q, promised[q])
    BY <1>6 DEF Shows
  <2> HIDE DEF told
  <2> QED
    BY <1>5, <1>10, <2>1, <2>2, <2>3, <2>4 DEF Careful
<1>12. whole \in BOOLEAN
  OBVIOUS
<1> HIDE DEF whole, told
<1> QED
  BY <1>0, <1>1, <1>11, <1>12, PerformIs

LEMMA ResetSteps ==
  ASSUME Sound, Kept, Shown, NEW p \in Peers, NEW g \in Subnets, NEW c \in Codes, ResetInvite(p, g, c)
  PROVE  Sound' /\ Kept' /\ Shown'
<1> DEFINE first == UpdateInvite(db, g, c)
           second == Bump(first, g)
           old   == mem.groups[g].code
           done  == Recoded(mem, g, c, old)
           trace == <<db, first, second>>
<1>1. /\ pc = "up" /\ g \in DOMAIN mem.groups
      /\ c \notin DOMAIN mem.invites /\ \A h \in DOMAIN db.groups : db.groups[h].code # c
      /\ Perform(trace, TRUE, done, mem, promised, promised)
  BY DEF ResetInvite, Owns, Fresh, Recoded
<1>2. Db(db) /\ Fits(mem, db) /\ g \in DOMAIN db.groups
  BY <1>1 DEF Sound, Fits
<1>3. Db(first) /\ Keeps(db, first, {}) /\ g \in DOMAIN first.groups
  <2>1. Db(first) /\ Keeps(db, first, {})
    BY <1>1, <1>2, UpdateInviteIs
  <2> QED
    BY <1>2, <2>1 DEF Keeps
<1> HIDE DEF first
<1>4. Db(second) /\ Keeps(db, second, {})
  BY <1>3, BumpIs, KeepsOn
<1> HIDE DEF second
<1>5. Fits(done, db) /\ done.groupOf = mem.groupOf /\ done.role = mem.role /\ done.nodes = mem.nodes
  <2>1. c \in Codes \ DOMAIN mem.invites
    BY <1>1
  <2> HIDE DEF old
  <2>2. old = mem.groups[g].code
    BY DEF old
  <2> QED
    BY <1>1, <1>2, <2>1, <2>2, ResetFits
<1> HIDE DEF done
<1>6. /\ Len(trace) = 3 /\ 3 \in DOMAIN trace /\ trace[3] = second
      /\ \A k \in DOMAIN trace : trace[k] \in {db, first, second}
  BY Traces
<1> HIDE DEF trace
<1>7. Careful(trace, TRUE, done, mem, promised, promised, {})
  <2>1. \A k \in DOMAIN trace : Db(trace[k]) /\ Keeps(db, trace[k], {})
    BY <1>2, <1>3, <1>4, <1>6, KeepsSelf
  <2>2. Fits(done, trace[Len(trace)])
    BY <1>4, <1>5, <1>6, FitsOn
  <2>3. \A q \in DOMAIN promised : Sees(mem, q, promised[q]) => Sees(done, q, promised[q])
    BY <1>5 DEF Sees
  <2> QED
    BY <1>2, <1>6, <2>1, <2>2, <2>3 DEF Careful
<1> QED
  BY <1>1, <1>7, PerformIs

LEMMA KickSteps ==
  ASSUME Sound, Kept, Shown, NEW p \in Peers, NEW t \in Peers, NEW g \in Subnets, Kick(p, t, g)
  PROVE  Sound' /\ Kept' /\ Shown'
<1> DEFINE first == DeleteMember(db, t)
           second == Bump(first, g)
           new   == Without(mem.nodes[g], t)
           part  == Enrolled(mem, g, new)
           go    == Without(mem.groupOf, t)
           ro    == Without(mem.role, t)
           done  == Counted(part, g, go, ro, part.announced \ {t})
           told  == Without(promised, t)
           trace == <<db, first, second>>
<1>1. /\ pc = "up" /\ g \in DOMAIN mem.groups
      /\ \E then : then = [part EXCEPT !.groupOf = go, !.role = ro, !.announced = part.announced \ {t},
                                       !.groups[g].version = part.groups[g].version + 1]
                   /\ Perform(trace, TRUE, then, part, told, told)
  BY DEF Kick, Owns, RemoveNode, Enrolled
<1>2. Db(db) /\ Fits(mem, db) /\ g \in DOMAIN db.groups
  BY <1>1 DEF Sound, Fits
<1>3. Db(first) /\ Keeps(db, first, {t}) /\ g \in DOMAIN first.groups
  <2>1. Db(first) /\ Keeps(db, first, {t})
    BY <1>2, DeleteMemberIs
  <2> QED
    BY <1>2, <2>1 DEF Keeps
<1> HIDE DEF first
<1>4. Db(second) /\ Keeps(db, second, {t})
  BY <1>3, BumpIs, KeepsOn
<1> HIDE DEF second
<1>5. /\ Partial(new, Peers, Hosts)
      /\ \A q \in DOMAIN mem.nodes[g] : q # t => q \in DOMAIN new /\ new[q] = mem.nodes[g][q]
  <2>1. Partial(mem.nodes[g], Peers, Hosts)
    BY <1>1, <1>2 DEF Fits
  <2> QED
    BY <2>1, PartialWithout DEF Without
<1> HIDE DEF new
<1>6. /\ Fits(part, db) /\ part.groups = mem.groups /\ part.groupOf = mem.groupOf
      /\ part.role = mem.role /\ DOMAIN part.nodes = DOMAIN mem.nodes /\ part.nodes[g] = new
      /\ \A x \in DOMAIN mem.nodes : x # g => part.nodes[x] = mem.nodes[x]
  BY <1>1, <1>2, <1>5, EnrollFits
<1> HIDE DEF part
<1>7. /\ Partial(go, Peers, DOMAIN mem.groups) /\ Partial(ro, Peers, {"owner", "member"})
      /\ DOMAIN ro = DOMAIN go
      /\ \A q \in DOMAIN mem.groupOf : q # t => q \in DOMAIN go /\ go[q] = mem.groupOf[q] /\ ro[q] = mem.role[q]
  <2>1. Partial(go, Peers, DOMAIN mem.groups)
    BY <1>2, PartialWithout DEF Fits
  <2>2. Partial(ro, Peers, {"owner", "member"})
    BY <1>2, PartialWithout DEF Fits
  <2> QED
    BY <1>2, <2>1, <2>2 DEF Fits, Without
<1> HIDE DEF go, ro
<1>8. Fits(done, db) /\ done.groupOf = go /\ done.role = ro /\ done.nodes = part.nodes
  BY <1>1, <1>6, <1>7, MembersFit
<1>9. Perform(trace, TRUE, done, part, told, told)
  <2>1. done = [part EXCEPT !.groupOf = go, !.role = ro, !.announced = part.announced \ {t},
                            !.groups[g].version = part.groups[g].version + 1]
    BY DEF Counted
  <2> HIDE DEF done, trace, told
  <2> QED
    BY <1>1, <2>1
<1> HIDE DEF done
<1>10. Shows(mem, part, {t}) /\ Shows(mem, done, {t})
  BY <1>5, <1>6, <1>7, <1>8 DEF Shows, Sees
<1>11. /\ Len(trace) = 3 /\ 3 \in DOMAIN trace /\ trace[3] = second
       /\ \A k \in DOMAIN trace : trace[k] \in {db, first, second}
  BY Traces
<1>12. \A q \in DOMAIN told : q \in DOMAIN promised \ {t} /\ told[q] = promised[q]
  BY DEF Without
<1> HIDE DEF trace, told
<1>13. Careful(trace, TRUE, done, part, told, told, {t})
  <2>1. \A k \in DOMAIN trace : Db(trace[k]) /\ Keeps(db, trace[k], {t})
    BY <1>2, <1>3, <1>4, <1>11, KeepsSelf
  <2>2. Fits(done, trace[Len(trace)])
    BY <1>4, <1>8, <1>11, FitsOn
  <2>3. \A q \in DOMAIN told : /\ Sees(mem, q, told[q]) => Sees(part, q, told[q])
                               /\ Sees(mem, q, told[q]) => Sees(done, q, told[q])
    BY <1>10, <1>12 DEF Shows
  <2> QED
    BY <1>6, <1>11, <1>12, <2>1, <2>2, <2>3 DEF Careful
<1> QED
  BY <1>1, <1>9, <1>13, PerformIs

LEMMA AnnounceSteps ==
  ASSUME Sound, Kept, Shown, NEW p \in Peers, Announce(p)
  PROVE  Sound' /\ Kept' /\ Shown'
<1> DEFINE first == ReplaceAddrs(db, p)
           done  == [mem EXCEPT !.announced = @ \union {p}]
           trace == <<db, first>>
<1>1. /\ pc = "up" /\ p \in DOMAIN db.members
      /\ Perform(trace, TRUE, done, mem, promised, promised)
  BY DEF Announce
<1>2. Db(db) /\ Fits(mem, db)
  BY <1>1 DEF Sound
<1>3. Db(first) /\ Keeps(db, first, {})
  BY <1>1, <1>2, ReplaceAddrsIs
<1> HIDE DEF first
<1>4. /\ Memory(done) /\ done.groupOf = mem.groupOf /\ done.role = mem.role
      /\ done.nodes = mem.nodes /\ done.groups = mem.groups /\ done.next = mem.next
      /\ done.invites = mem.invites
  <2> DEFINE an == mem.announced \union {p}
  <2>1. done = [mem EXCEPT !.announced = an]
    OBVIOUS
  <2> HIDE DEF an, done
  <2> QED
    BY <1>2, <2>1 DEF Fits, Memory
<1> HIDE DEF done
<1>5. Fits(done, db)
  BY <1>2, <1>4 DEF Fits
<1>6. /\ Len(trace) = 2 /\ 2 \in DOMAIN trace /\ trace[2] = first
      /\ \A k \in DOMAIN trace : trace[k] \in {db, first}
  BY Traces
<1> HIDE DEF trace
<1>7. Careful(trace, TRUE, done, mem, promised, promised, {})
  <2>1. \A k \in DOMAIN trace : Db(trace[k]) /\ Keeps(db, trace[k], {})
    BY <1>2, <1>3, <1>6, KeepsSelf
  <2>2. Fits(done, trace[Len(trace)])
    BY <1>3, <1>5, <1>6, FitsOn
  <2>3. \A q \in DOMAIN promised : Sees(mem, q, promised[q]) => Sees(done, q, promised[q])
    BY <1>4 DEF Sees
  <2> QED
    BY <1>2, <1>6, <2>1, <2>2, <2>3 DEF Careful
<1> QED
  BY <1>1, <1>7, PerformIs

-----------------------------------------------------------------------------
(* Starting, repairing, crashing *)

LEMMA KeptOn ==
  ASSUME Kept, UNCHANGED promised, Keeps(db, db', {}), backups \subseteq backups', wiped => wiped'
  PROVE  Kept'
<1>1. ASSUME NEW p \in DOMAIN promised, Has(db, p, promised[p]) PROVE Has(db', p, promised[p])
  BY <1>1 DEF Has, Keeps
<1> QED
  BY <1>1 DEF Kept

LEMMA StartSteps ==
  ASSUME Sound, Kept, Shown, Open \/ Start PROVE Sound' /\ Kept' /\ Shown' /\ (Exact => Exact')
<1> USE DEF disk, repair, counts
<1>1. ASSUME UNCHANGED <<db, mem, saved, backups, wiped, promised>>, pc # "up", pc' # "up", pc' # "refill",
             failures' \in Nat, schema' \in 0 .. 2, ledger' \in 0 .. schema',
             pc' = "recording" => ledger' < schema'
      PROVE  Sound' /\ Kept' /\ Shown' /\ Exact'
  <2>1. Sound'
    BY <1>1 DEF Sound
  <2>2. Kept'
    BY <1>1, KeptOn, KeepsSelf
  <2> QED
    BY <1>1, <2>1, <2>2 DEF Shown, Exact
<1>2. CASE Open
  BY <1>1, <1>2 DEF Open, Sound
<1>3. CASE Apply
  <2>1. schema' \in 0 .. 2 /\ ledger' \in 0 .. schema' /\ ledger' < schema' /\ failures' = failures
    BY <1>3 DEF Apply, Sound
  <2> QED
    BY <1>1, <1>3, <2>1 DEF Apply, Sound
<1>4. CASE Record
  <2>1. schema' \in 0 .. 2 /\ ledger' \in 0 .. schema' /\ failures' = failures
    BY <1>4 DEF Record, Sound
  <2> QED
    BY <1>1, <1>4, <2>1 DEF Record, Sound
<1>5. CASE Panics
  BY <1>1, <1>5 DEF Panics, Sound
<1>6. CASE Starts
  <2>1. /\ Db(db) /\ Db(db') /\ Keeps(db, db', {}) /\ Rebuilt(db') = Rebuilt(db) /\ mem' = Rebuilt(db)
        /\ pc' = "up" /\ UNCHANGED <<schema, ledger, backups, saved, wiped, promised, failures>>
    BY <1>6, OthersAre DEF Starts, Sound
  <2>2. Fits(mem', db')
    BY <2>1, RebuiltIs, FitsOn
  <2>3. Sound'
    BY <2>1, <2>2 DEF Sound
  <2>4. Kept'
    BY <2>1, KeptOn
  <2>5. ASSUME ~wiped, NEW p \in DOMAIN promised PROVE Sees(mem', p, promised[p])
    <3>1. p \in DOMAIN db.members /\ db.members[p] = promised[p]
      BY <2>5 DEF Kept, Has
    <3> QED
      BY <2>1, <3>1, RebuiltIs
  <2>6. Shown'
    BY <2>1, <2>5 DEF Shown
  <2>7. Exact'
    BY <2>1 DEF Exact
  <2> QED
    BY <2>3, <2>4, <2>6, <2>7
<1>7. CASE BackfillFails
  <2>1. PICK done \in SUBSET db.bare : db' = Backfill(db, done)
    BY <1>7 DEF BackfillFails
  <2>2. Db(db) /\ Db(db') /\ Keeps(db, db', {})
    BY <2>1, OthersAre DEF Sound
  <2>3. /\ UNCHANGED <<schema, ledger, mem, backups, saved, wiped, promised>>
        /\ pc = "opening" /\ pc' = "down" /\ failures' = failures + 1
    BY <1>7 DEF BackfillFails
  <2>4. Sound'
    BY <2>2, <2>3 DEF Sound
  <2>5. Kept'
    BY <2>2, <2>3, KeptOn
  <2> QED
    BY <2>3, <2>4, <2>5 DEF Shown, Exact
<1> QED
  BY <1>2, <1>3, <1>4, <1>5, <1>6, <1>7 DEF Start

LEMMA RepairSteps ==
  ASSUME Sound, Kept, Shown, Repair \/ Crash PROVE Sound' /\ Kept' /\ Shown' /\ Exact'
<1> USE DEF disk, repair, counts
<1>1. CASE RepairMigrates
  <2>1. /\ UNCHANGED <<db, mem, pc, saved, wiped, promised, failures>> /\ pc = "down"
        /\ backups \subseteq backups' /\ schema' = 2 /\ ledger' = 2
    BY <1>1 DEF RepairMigrates, SnapshotBackup
  <2>2. Sound'
    BY <2>1 DEF Sound
  <2>3. Kept'
    BY <2>1, KeptOn, KeepsSelf
  <2> QED
    BY <2>1, <2>2, <2>3 DEF Shown, Exact
<1>2. CASE RepairWipes
  <2>1. /\ UNCHANGED <<mem, promised, failures>> /\ pc = "down" /\ pc' = "refill"
        /\ backups' = backups \union {db} /\ saved' = Snapshot /\ wiped' = TRUE
        /\ db' = NoTables /\ schema' = 0 /\ ledger' = 0
    BY <1>2 DEF RepairWipes, SnapshotBackup
  <2>2. Db(db) /\ Db(saved') /\ Db(NoTables)
    BY <2>1, OthersAre DEF Sound, Snapshot
  <2>3. Sound'
    BY <2>1, <2>2 DEF Sound
  <2>4. Kept'
    <3>1. \A p \in DOMAIN promised : \E d \in backups' : Has(d, p, promised[p])
      BY <2>1 DEF Kept
    <3> QED
      BY <2>1, <3>1 DEF Kept
  <2> QED
    BY <2>1, <2>3, <2>4 DEF Shown, Exact
<1>3. CASE RepairRefills
  <2>1. /\ UNCHANGED <<mem, backups, saved, wiped, promised, failures>> /\ pc = "refill" /\ pc' = "down"
        /\ db' = saved /\ schema' = 2 /\ ledger' = 2
    BY <1>3 DEF RepairRefills
  <2>2. db = NoTables /\ wiped
    BY <2>1 DEF Sound
  <2>3. \A p : ~Has(NoTables, p, promised[p])
    BY DEF Has, NoTables, Nothing
  <2>4. Kept'
    BY <2>1, <2>2, <2>3 DEF Kept
  <2>5. Sound'
    BY <2>1 DEF Sound
  <2> QED
    BY <2>1, <2>4, <2>5 DEF Shown, Exact
<1>4. CASE Crash
  <2>1. /\ UNCHANGED <<db, backups, saved, wiped, promised, failures>> /\ pc' = "down"
        /\ mem' = Rebuilt(NoTables)
    BY <1>4 DEF Crash
  <2>2. schema' \in 0 .. 2 /\ ledger' \in 0 .. schema'
    <3>1. CASE pc = "refill"
      <4>1. PICK s \in 0 .. 2 : schema' = s /\ ledger' \in {s} \union ({s - 1} \intersect Nat)
        BY <1>4, <3>1 DEF Crash
      <4> QED
        BY <4>1
    <3>2. CASE pc # "refill"
      BY <1>4, <3>2 DEF Crash, Sound
    <3> QED
      BY <3>1, <3>2
  <2>3. Sound'
    BY <2>1, <2>2 DEF Sound
  <2>4. Kept'
    BY <2>1, KeptOn, KeepsSelf
  <2> QED
    BY <2>1, <2>3, <2>4 DEF Shown, Exact
<1> QED
  BY <1>1, <1>2, <1>3, <1>4 DEF Repair

LEMMA Begins == Init => Sound /\ Kept /\ Shown /\ Exact
<1> SUFFICES ASSUME Init PROVE Sound /\ Kept /\ Shown /\ Exact
  OBVIOUS
<1>1. Db(NoTables)
  BY DEF Db, NoTables, Nothing, Partial, Map
<1>2. Db(db) /\ schema \in 0 .. 2 /\ ledger \in 0 .. schema
  <2>1. CASE db = NoTables /\ schema = 0 /\ ledger = 0
    BY <1>1, <2>1
  <2>2. CASE (\E p \in Peers, c \in Codes : db = Legacy(p, c)) /\ schema = 1 /\ ledger = 1
    BY <2>2, LegacyIs
  <2> QED
    BY <2>1, <2>2 DEF Init
<1>3. Sound
  BY <1>1, <1>2 DEF Init, Sound
<1>4. DOMAIN promised = {}
  BY DEF Init, Nothing
<1> QED
  BY <1>3, <1>4 DEF Init, Kept, Shown, Exact

LEMMA SoundStep == Sound /\ Kept /\ Shown /\ [Next]_vars => Sound' /\ Kept' /\ Shown'
<1> SUFFICES ASSUME Sound, Kept, Shown, [Next]_vars PROVE Sound' /\ Kept' /\ Shown'
  OBVIOUS
<1>1. CASE UNCHANGED vars
  BY <1>1 DEF vars, disk, repair, counts, Sound, Kept, Shown
<1> QED
  BY <1>1, CreateSteps, JoinSteps, ResetSteps, KickSteps, AnnounceSteps, StartSteps, RepairSteps DEF Next

\* The tables and the indexes fit each other in every state, also in those that failures,
\* crashes and the repair command leave behind.
THEOREM TypeCorrect == Spec => []TypeOK
<1>1. Sound => TypeOK
  <2> SUFFICES ASSUME Sound PROVE TypeOK
    OBVIOUS
  <2>1. Db(db) /\ Db(NoTables) /\ schema \in 0 .. 2 /\ ledger \in 0 .. schema
    BY OthersAre DEF Sound
  <2>2. PICK d : Fits(mem, d)
    <3>1. CASE pc = "up"
      BY <3>1 DEF Sound
    <3>2. CASE pc # "up"
      BY <2>1, <3>2, RebuiltIs DEF Sound
    <3> QED
      BY <3>1, <3>2
  <2> QED
    BY <2>1, <2>2 DEF TypeOK, Db, Fits, Partial
<1> QED
  BY <1>1, Begins, SoundStep, PTL DEF Spec

\* A peer that was told its group, address and role finds them in the tables and in its
\* network map whichever statements fail and wherever the process dies, for any number of
\* peers, groups and addresses; only a kick, or the removal of the file by the repair
\* command, which has copied it, may take them away.
THEOREM PromisesAreKept == Spec => []PromiseKept
<1>1. Sound /\ Kept /\ Shown => PromiseKept
  <2> SUFFICES ASSUME Sound, Kept, Shown, NEW p \in DOMAIN promised
               PROVE  /\ \E d \in {db} \union IF wiped THEN backups ELSE {} :
                           p \in DOMAIN d.members /\ d.members[p] = promised[p]
                      /\ pc = "up" /\ ~wiped =>
                           /\ p \in DOMAIN mem.groupOf
                           /\ [peer |-> p, group |-> promised[p].group, host |-> promised[p].host,
                               role |-> promised[p].role] \in NetMapFor(p)
    BY DEF PromiseKept
  <2>1. \E d \in {db} \union IF wiped THEN backups ELSE {} :
          p \in DOMAIN d.members /\ d.members[p] = promised[p]
    BY DEF Kept, Has
  <2>2. ASSUME pc = "up", ~wiped
        PROVE  /\ p \in DOMAIN mem.groupOf
               /\ [peer |-> p, group |-> promised[p].group, host |-> promised[p].host,
                   role |-> promised[p].role] \in NetMapFor(p)
    <3>1. Sees(mem, p, promised[p]) /\ DOMAIN mem.role = DOMAIN mem.groupOf
      BY <2>2 DEF Shown, Sound, Fits
    <3> QED
      BY <3>1 DEF Sees, NetMapFor
  <2> QED
    BY <2>1, <2>2
<1> QED
  BY <1>1, Begins, SoundStep, PTL DEF Spec

-----------------------------------------------------------------------------
(* Restarts *)

\* What it means to be the indexes of tables, field by field.
Indexes(m, d) ==
  /\ Memory(m) /\ m.next = NextSubnet(d.groups) /\ m.groups = d.groups /\ m.announced = d.addrs
  /\ Map(m.invites) /\ \A c : c \in DOMAIN m.invites <=> \E g \in DOMAIN d.groups : d.groups[g].code = c
  /\ \A g \in DOMAIN d.groups : m.invites[d.groups[g].code] = g
  /\ Map(m.groupOf) /\ DOMAIN m.groupOf = DOMAIN d.members
  /\ \A p \in DOMAIN d.members : m.groupOf[p] = d.members[p].group
  /\ Map(m.role) /\ DOMAIN m.role = DOMAIN d.members
  /\ \A p \in DOMAIN d.members : m.role[p] = d.members[p].role
  /\ Map(m.nodes) /\ DOMAIN m.nodes = DOMAIN d.groups

\* The part of it about the registries of nodes.
Rosters(m, d) ==
  \A g \in DOMAIN d.groups :
    /\ Map(m.nodes[g])
    /\ \A p : p \in DOMAIN m.nodes[g] <=> p \in DOMAIN d.members /\ d.members[p].group = g
    /\ \A p \in DOMAIN m.nodes[g] : m.nodes[g][p] = d.members[p].host

LEMMA RebuiltIndexes ==
  ASSUME NEW d, Db(d) PROVE Indexes(Rebuilt(d), d) /\ Rosters(Rebuilt(d), d)
<1> DEFINE m == Rebuilt(d)
           codes == {d.groups[g].code : g \in DOMAIN d.groups}
           owner(c) == CHOOSE g \in DOMAIN d.groups : d.groups[g].code = c
           rosters == [g \in DOMAIN d.groups |-> Roster(d, g)]
<1>1. /\ m.next = NextSubnet(d.groups) /\ m.groups = d.groups
      /\ m.invites = [c \in codes |-> owner(c)]
      /\ m.groupOf = [p \in DOMAIN d.members |-> d.members[p].group]
      /\ m.role = [p \in DOMAIN d.members |-> d.members[p].role]
      /\ m.announced = d.addrs /\ m.nodes = rosters
  BY DEF Rebuilt, LoadGroups, LoadAnnouncedAddrs
<1>2. Memory(m)
  BY DEF Memory, Rebuilt, LoadGroups, LoadAnnouncedAddrs
<1> HIDE DEF m
<1>3. /\ Map(m.invites) /\ \A c : c \in DOMAIN m.invites <=> \E g \in DOMAIN d.groups : d.groups[g].code = c
      /\ \A g \in DOMAIN d.groups : m.invites[d.groups[g].code] = g
  <2>1. \A g \in DOMAIN d.groups : owner(d.groups[g].code) = g
    <3>1. \A g, h \in DOMAIN d.groups : d.groups[g].code = d.groups[h].code => g = h
      BY DEF Db
    <3> QED
      BY <3>1
  <2> HIDE DEF owner
  <2> QED
    BY <1>1, <2>1 DEF Map
<1>4. Map(m.groupOf) /\ Map(m.role) /\ Map(m.nodes) /\ DOMAIN m.nodes = DOMAIN d.groups
  BY <1>1 DEF Map
<1>5. /\ DOMAIN m.groupOf = DOMAIN d.members /\ DOMAIN m.role = DOMAIN d.members
      /\ \A p \in DOMAIN d.members : m.groupOf[p] = d.members[p].group /\ m.role[p] = d.members[p].role
  BY <1>1
<1>6. ASSUME NEW g \in DOMAIN d.groups
      PROVE  /\ Map(m.nodes[g])
             /\ \A p : p \in DOMAIN m.nodes[g] <=> p \in DOMAIN d.members /\ d.members[p].group = g
             /\ \A p \in DOMAIN m.nodes[g] : m.nodes[g][p] = d.members[p].host
  <2>1. m.nodes[g] = Roster(d, g)
    BY <1>1
  <2> QED
    BY <2>1, RosterIs DEF Partial
<1>7. Indexes(m, d)
  BY <1>1, <1>2, <1>3, <1>4, <1>5 DEF Indexes
<1>8. Rosters(m, d)
  BY <1>6 DEF Rosters
<1> QED
  BY <1>7, <1>8 DEF m

LEMMA IndexesRebuilt ==
  ASSUME NEW d, Db(d), NEW m, Indexes(m, d), Rosters(m, d) PROVE m = Rebuilt(d)
<1> DEFINE n == Rebuilt(d)
<1>1. Indexes(n, d) /\ Rosters(n, d)
  BY RebuiltIndexes
<1> HIDE DEF n
<1>2. m.next = n.next /\ m.groups = n.groups /\ m.announced = n.announced
  BY <1>1 DEF Indexes
<1>3. m.invites = n.invites
  <2>1. DOMAIN m.invites = DOMAIN n.invites
    BY <1>1 DEF Indexes
  <2>2. ASSUME NEW c \in DOMAIN m.invites PROVE m.invites[c] = n.invites[c]
    <3>1. PICK g \in DOMAIN d.groups : d.groups[g].code = c
      BY DEF Indexes
    <3> QED
      BY <1>1, <3>1 DEF Indexes
  <2>3. Map(m.invites) /\ Map(n.invites)
    BY <1>1 DEF Indexes
  <2> QED
    BY <2>1, <2>2, <2>3, SameFunction
<1>4. m.groupOf = n.groupOf
  <2>1. Map(m.groupOf) /\ Map(n.groupOf) /\ DOMAIN m.groupOf = DOMAIN n.groupOf
        /\ \A p \in DOMAIN m.groupOf : m.groupOf[p] = n.groupOf[p]
    BY <1>1 DEF Indexes
  <2> QED
    BY <2>1, SameFunction
<1>5. m.role = n.role
  <2>1. Map(m.role) /\ Map(n.role) /\ DOMAIN m.role = DOMAIN n.role
        /\ \A p \in DOMAIN m.role : m.role[p] = n.role[p]
    BY <1>1 DEF Indexes
  <2> QED
    BY <2>1, SameFunction
<1>6. m.nodes = n.nodes
  <2>1. ASSUME NEW g \in DOMAIN d.groups PROVE m.nodes[g] = n.nodes[g]
    <3> DEFINE a == m.nodes[g]
               b == n.nodes[g]
    <3>1. Map(a) /\ Map(b) /\ (\A p : p \in DOMAIN a <=> p \in DOMAIN b)
          /\ \A p \in DOMAIN a : a[p] = b[p]
      BY <1>1 DEF Rosters
    <3> HIDE DEF a, b
    <3>2. DOMAIN a = DOMAIN b
      BY <3>1
    <3>3. a = b
      BY <3>1, <3>2, SameFunction
    <3> QED
      BY <3>3 DEF a, b
  <2>2. Map(m.nodes) /\ Map(n.nodes) /\ DOMAIN m.nodes = DOMAIN d.groups /\ DOMAIN n.nodes = DOMAIN d.groups
    BY <1>1 DEF Indexes
  <2> QED
    BY <2>1, <2>2, SameFunction
<1>7. Memory(m) /\ Memory(n)
  BY <1>1 DEF Indexes
<1>8. m = n
  BY <1>2, <1>3, <1>4, <1>5, <1>6, <1>7 DEF Memory
<1> QED
  BY <1>8 DEF n

LEMMA NextIsOfTheNumbers ==
  ASSUME NEW a, NEW b, DOMAIN a = DOMAIN b PROVE NextSubnet(a) = NextSubnet(b)
BY DEF NextSubnet

LEMMA AnnounceExact ==
  ASSUME Sound, Exact, NEW p \in Peers, Announce(p) PROVE Exact'
<1> DEFINE first == ReplaceAddrs(db, p)
           done  == [mem EXCEPT !.announced = @ \union {p}]
           trace == <<db, first>>
<1>1. /\ pc = "up" /\ p \in DOMAIN db.members
      /\ Perform(trace, TRUE, done, mem, promised, promised)
  BY DEF Announce
<1>2. Db(db) /\ Fits(mem, db)
  BY <1>1 DEF Sound
<1>3. /\ Db(first) /\ first.groups = db.groups /\ first.members = db.members
      /\ first.addrs = db.addrs \union {p}
  BY <1>1, <1>2, ReplaceAddrsIs
<1>4. trace[Len(trace)] = first
  BY Traces
<1> HIDE DEF first, trace
<1>5. /\ Memory(done) /\ done.groupOf = mem.groupOf /\ done.role = mem.role
      /\ done.nodes = mem.nodes /\ done.groups = mem.groups /\ done.next = mem.next
      /\ done.invites = mem.invites /\ done.announced = mem.announced \union {p}
  <2> DEFINE an == mem.announced \union {p}
  <2>1. done = [mem EXCEPT !.announced = an]
    OBVIOUS
  <2> HIDE DEF an, done
  <2>2. done.announced = an
    BY <1>2, <2>1 DEF Fits, Memory
  <2> QED
    BY <1>2, <2>1, <2>2 DEF Fits, Memory, an
<1> HIDE DEF done
<1>6. ASSUME mem = Rebuilt(db) PROVE done = Rebuilt(first)
  <2>1. Indexes(mem, db) /\ Rosters(mem, db)
    BY <1>2, <1>6, RebuiltIndexes
  <2>2. Indexes(done, first)
    BY <1>3, <1>5, <2>1 DEF Indexes
  <2>3. Rosters(done, first)
    BY <1>3, <1>5, <2>1 DEF Rosters
  <2> QED
    BY <1>3, <2>2, <2>3, IndexesRebuilt
<1> QED
  BY <1>1, <1>4, <1>6, PerformExact

LEMMA KickExact ==
  ASSUME Sound, Exact, NEW p \in Peers, NEW t \in Peers, NEW g \in Subnets, Kick(p, t, g) PROVE Exact'
<1> DEFINE first == DeleteMember(db, t)
           second == Bump(first, g)
           new   == Without(mem.nodes[g], t)
           part  == Enrolled(mem, g, new)
           go    == Without(mem.groupOf, t)
           ro    == Without(mem.role, t)
           an    == mem.announced \ {t}
           done  == Counted(part, g, go, ro, an)
           told  == Without(promised, t)
           trace == <<db, first, second>>
<1>1. /\ pc = "up" /\ g \in DOMAIN mem.groups /\ t \in DOMAIN mem.groupOf /\ mem.groupOf[t] = g
      /\ \E then : then = [part EXCEPT !.groupOf = go, !.role = ro, !.announced = part.announced \ {t},
                                       !.groups[g].version = part.groups[g].version + 1]
                   /\ Perform(trace, TRUE, then, part, told, told)
  BY DEF Kick, Owns, RemoveNode, Enrolled
<1>2. Db(db) /\ Fits(mem, db) /\ g \in DOMAIN db.groups
  BY <1>1 DEF Sound, Fits
<1>3. /\ Db(first) /\ first.groups = db.groups /\ first.members = Without(db.members, t)
      /\ first.addrs = db.addrs \ {t}
  BY <1>2, DeleteMemberIs
<1> HIDE DEF first
<1>4. /\ Db(second) /\ second.groups = Raise(db.groups, g) /\ second.members = Without(db.members, t)
      /\ second.addrs = db.addrs \ {t}
  BY <1>2, <1>3, BumpIs
<1> HIDE DEF second
<1>5. /\ Partial(new, Peers, Hosts) /\ DOMAIN new = DOMAIN mem.nodes[g] \ {t}
      /\ \A q \in DOMAIN new : new[q] = mem.nodes[g][q]
  <2>1. Partial(mem.nodes[g], Peers, Hosts)
    BY <1>1, <1>2 DEF Fits
  <2> QED
    BY <2>1, PartialWithout DEF Without
<1> HIDE DEF new
<1>6. /\ Fits(part, db) /\ part.groups = mem.groups /\ part.groupOf = mem.groupOf
      /\ part.role = mem.role /\ part.announced = mem.announced /\ part.invites = mem.invites
      /\ part.next = mem.next /\ DOMAIN part.nodes = DOMAIN mem.nodes /\ part.nodes[g] = new
      /\ \A x \in DOMAIN mem.nodes : x # g => part.nodes[x] = mem.nodes[x]
  BY <1>1, <1>2, <1>5, EnrollFits
<1>7. done = [part EXCEPT !.groupOf = go, !.role = ro, !.announced = part.announced \ {t},
                          !.groups[g].version = part.groups[g].version + 1]
  BY <1>6 DEF Counted
<1> HIDE DEF part
<1>8. /\ Partial(go, Peers, DOMAIN mem.groups) /\ Partial(ro, Peers, {"owner", "member"})
      /\ DOMAIN go = DOMAIN mem.groupOf \ {t} /\ DOMAIN ro = DOMAIN go
      /\ \A q \in DOMAIN go : go[q] = mem.groupOf[q] /\ ro[q] = mem.role[q]
  <2>1. Partial(go, Peers, DOMAIN mem.groups)
    BY <1>2, PartialWithout DEF Fits
  <2>2. Partial(ro, Peers, {"owner", "member"})
    BY <1>2, PartialWithout DEF Fits
  <2> QED
    BY <1>2, <2>1, <2>2 DEF Fits, Without
<1> HIDE DEF go, ro
<1>9. /\ Fits(done, db) /\ done.groupOf = go /\ done.role = ro /\ done.nodes = part.nodes
      /\ done.announced = an /\ done.invites = mem.invites /\ done.next = mem.next
      /\ done.groups = Raise(mem.groups, g)
  <2> HIDE DEF an
  <2> QED
    BY <1>1, <1>6, <1>8, MembersFit
<1>10. Perform(trace, TRUE, done, part, told, told) /\ trace[Len(trace)] = second
  <2>1. trace[Len(trace)] = second
    BY Traces
  <2> HIDE DEF done, trace, told
  <2> QED
    BY <1>1, <1>7, <2>1
<1> HIDE DEF done, trace, told
<1>11. ASSUME mem = Rebuilt(db) PROVE done = Rebuilt(second)
  <2>1. Indexes(mem, db) /\ Rosters(mem, db)
    BY <1>2, <1>11, RebuiltIndexes
  <2>2. /\ DOMAIN second.groups = DOMAIN db.groups
        /\ \A h \in DOMAIN db.groups : second.groups[h].code = db.groups[h].code
    BY <1>2, <1>4, RaiseIs DEF Raise, Db
  <2>3. /\ DOMAIN second.members = DOMAIN db.members \ {t}
        /\ \A q \in DOMAIN second.members : second.members[q] = db.members[q]
    BY <1>4 DEF Without
  <2>4. NextSubnet(second.groups) = NextSubnet(db.groups)
    BY <2>2, NextIsOfTheNumbers
  <2>5. done.groups = second.groups
    BY <1>4, <1>9, <2>1 DEF Indexes
  <2>6. Indexes(done, second)
    <3>1. Memory(done) /\ Map(done.invites) /\ Map(done.groupOf) /\ Map(done.role) /\ Map(done.nodes)
      BY <1>9 DEF Fits, Partial
    <3>2. DOMAIN done.nodes = DOMAIN second.groups
      BY <1>6, <1>9, <2>1, <2>2 DEF Indexes
    <3>3. /\ DOMAIN done.groupOf = DOMAIN second.members /\ DOMAIN done.role = DOMAIN second.members
          /\ \A q \in DOMAIN second.members : /\ done.groupOf[q] = second.members[q].group
                                              /\ done.role[q] = second.members[q].role
      BY <1>8, <1>9, <2>1, <2>3 DEF Indexes
    <3>4. /\ \A c : c \in DOMAIN done.invites <=> \E x \in DOMAIN second.groups : second.groups[x].code = c
          /\ \A x \in DOMAIN second.groups : done.invites[second.groups[x].code] = x
      BY <1>9, <2>1, <2>2 DEF Indexes
    <3>5. done.announced = second.addrs /\ done.next = NextSubnet(second.groups)
      BY <1>4, <1>9, <2>1, <2>4 DEF Indexes
    <3> QED
      BY <2>5, <3>1, <3>2, <3>3, <3>4, <3>5 DEF Indexes
  <2>7. Rosters(done, second)
    <3> SUFFICES ASSUME NEW x \in DOMAIN db.groups
                 PROVE  /\ Map(done.nodes[x])
                        /\ \A q : q \in DOMAIN done.nodes[x] <=> q \in DOMAIN second.members /\ second.members[q].group = x
                        /\ \A q \in DOMAIN done.nodes[x] : done.nodes[x][q] = second.members[q].host
      BY <2>2 DEF Rosters
    <3>1. t \in DOMAIN db.members /\ db.members[t].group = g
      BY <1>1, <2>1 DEF Indexes
    <3>2. CASE x = g
      <4>1. done.nodes[x] = new /\ Map(new)
        BY <1>5, <1>6, <1>9, <3>2 DEF Partial
      <4> QED
        BY <1>5, <2>1, <2>3, <3>2, <4>1 DEF Rosters
    <3>3. CASE x # g
      <4>1. done.nodes[x] = mem.nodes[x]
        BY <1>2, <1>6, <1>9, <2>1, <3>3 DEF Indexes
      <4> QED
        BY <2>1, <2>3, <3>1, <3>3, <4>1 DEF Rosters
    <3> QED
      BY <3>2, <3>3
  <2> QED
    BY <1>4, <2>6, <2>7, IndexesRebuilt
<1> QED
  BY <1>1, <1>10, <1>11, PerformExact

LEMMA RenewIs ==
  ASSUME NEW gs, Partial(gs, Subnets, Group), NEW g \in DOMAIN gs, NEW c \in Codes
  PROVE  /\ Raise(Recode(gs, g, c), g) = Renew(gs, g, c)
         /\ DOMAIN Renew(gs, g, c) = DOMAIN gs
         /\ \A h \in DOMAIN gs : Renew(gs, g, c)[h].code = IF h = g THEN c ELSE gs[h].code
<1>1. gs \in [DOMAIN gs -> Group]
  BY DEF Partial, Map
<1>2. gs[g] = [code |-> gs[g].code, version |-> gs[g].version] /\ gs[g] \in Group
  BY <1>1 DEF Group
<1> DEFINE b == Recode(gs, g, c)
           v == gs[g].version
<1>3. /\ b = [h \in DOMAIN gs |-> IF h = g THEN [code |-> c, version |-> v] ELSE gs[h]]
      /\ b[g] = [code |-> c, version |-> v] /\ DOMAIN b = DOMAIN gs
  <2>1. b = [gs EXCEPT ![g] = [code |-> c, version |-> v]]
    <3> DEFINE r == gs[g]
    <3>1. [r EXCEPT !.code = c] = [code |-> c, version |-> r.version]
      <4>1. r = [code |-> r.code, version |-> r.version]
        BY <1>2
      <4> HIDE DEF r
      <4> QED
        BY <4>1
    <3>2. b = [gs EXCEPT ![g] = [r EXCEPT !.code = c]]
      BY DEF Recode
    <3> QED
      BY <3>1, <3>2
  <2> HIDE DEF b, v
  <2> QED
    BY <1>1, <2>1
<1> HIDE DEF b
<1>4. Raise(b, g) = [h \in DOMAIN gs |-> IF h = g THEN [code |-> c, version |-> v + 1] ELSE gs[h]]
  <2> DEFINE w == b[g].version + 1
  <2>1. w = v + 1
    BY <1>3
  <2>2. Raise(b, g) = [b EXCEPT ![g].version = w]
    BY DEF Raise
  <2> HIDE DEF w, v
  <2>3. Raise(b, g) = [b EXCEPT ![g] = [code |-> c, version |-> w]]
    BY <1>3, <2>2
  <2> QED
    BY <1>3, <2>1, <2>3
<1>5. Renew(gs, g, c) = [h \in DOMAIN gs |-> IF h = g THEN [code |-> c, version |-> v + 1] ELSE gs[h]]
  BY <1>1 DEF Renew
<1> QED
  BY <1>4, <1>5 DEF b

LEMMA ResetExact ==
  ASSUME Sound, Exact, NEW p \in Peers, NEW g \in Subnets, NEW c \in Codes, ResetInvite(p, g, c)
  PROVE  Exact'
<1> DEFINE first == UpdateInvite(db, g, c)
           second == Bump(first, g)
           old   == mem.groups[g].code
           is    == With(Without(mem.invites, old), c, g)
           done  == Recoded(mem, g, c, old)
           trace == <<db, first, second>>
<1>1. /\ pc = "up" /\ g \in DOMAIN mem.groups
      /\ c \in Codes \ DOMAIN mem.invites /\ \A h \in DOMAIN db.groups : db.groups[h].code # c
      /\ Perform(trace, TRUE, done, mem, promised, promised)
  BY DEF ResetInvite, Owns, Fresh, Recoded
<1>2. Db(db) /\ Fits(mem, db) /\ g \in DOMAIN db.groups /\ Partial(db.groups, Subnets, Group)
  BY <1>1 DEF Sound, Fits, Db
<1>3. /\ Db(first) /\ first.groups = Recode(db.groups, g, c) /\ first.members = db.members
      /\ first.addrs = db.addrs /\ g \in DOMAIN first.groups
  <2>1. /\ Db(first) /\ Keeps(db, first, {}) /\ first.groups = Recode(db.groups, g, c)
        /\ first.members = db.members /\ first.addrs = db.addrs
    BY <1>1, <1>2, UpdateInviteIs
  <2> QED
    BY <1>2, <2>1 DEF Keeps
<1> HIDE DEF first
<1>4. /\ Db(second) /\ second.groups = Renew(db.groups, g, c) /\ second.members = db.members
      /\ second.addrs = db.addrs
  BY <1>2, <1>3, BumpIs, RenewIs
<1> HIDE DEF second
<1>5. /\ Fits(done, db) /\ done.groupOf = mem.groupOf /\ done.role = mem.role /\ done.nodes = mem.nodes
      /\ done.announced = mem.announced /\ done.next = mem.next
      /\ done.groups = Renew(mem.groups, g, c) /\ done.invites = is
  <2> HIDE DEF old
  <2>1. old = mem.groups[g].code
    BY DEF old
  <2> QED
    BY <1>1, <1>2, <2>1, ResetFits
<1>6. trace[Len(trace)] = second
  BY Traces
<1> HIDE DEF done, trace
<1>7. ASSUME mem = Rebuilt(db) PROVE done = Rebuilt(second)
  <2>1. Indexes(mem, db) /\ Rosters(mem, db)
    BY <1>2, <1>7, RebuiltIndexes
  <2>2. /\ DOMAIN second.groups = DOMAIN db.groups
        /\ \A h \in DOMAIN db.groups : second.groups[h].code = IF h = g THEN c ELSE db.groups[h].code
    BY <1>2, <1>4, RenewIs
  <2>3. NextSubnet(second.groups) = NextSubnet(db.groups)
    BY <2>2, NextIsOfTheNumbers
  <2>4. done.groups = second.groups
    BY <1>4, <1>5, <2>1 DEF Indexes
  <2>5. old = db.groups[g].code /\ \A x, y \in DOMAIN db.groups : db.groups[x].code = db.groups[y].code => x = y
    BY <1>2, <2>1 DEF Indexes, Db
  <2>6. /\ \A x : x \in DOMAIN is <=> x = c \/ (x \in DOMAIN mem.invites /\ x # old)
        /\ is[c] = g /\ \A x \in DOMAIN is : x # c => is[x] = mem.invites[x]
    BY DEF With, Without
  <2> HIDE DEF is, old
  <2>7. Indexes(done, second)
    <3>1. Memory(done) /\ Map(done.invites) /\ Map(done.groupOf) /\ Map(done.role) /\ Map(done.nodes)
      BY <1>5 DEF Fits, Partial
    <3>2. /\ DOMAIN done.nodes = DOMAIN second.groups
          /\ DOMAIN done.groupOf = DOMAIN second.members /\ DOMAIN done.role = DOMAIN second.members
          /\ \A q \in DOMAIN second.members : /\ done.groupOf[q] = second.members[q].group
                                              /\ done.role[q] = second.members[q].role
      BY <1>4, <1>5, <2>1, <2>2 DEF Indexes
    <3>3. ASSUME NEW x PROVE x \in DOMAIN is <=> \E y \in DOMAIN second.groups : second.groups[y].code = x
      <4>1. x \in DOMAIN mem.invites <=> \E y \in DOMAIN db.groups : db.groups[y].code = x
        BY <2>1 DEF Indexes
      <4>2. CASE x = c
        BY <1>2, <2>2, <2>6, <4>2
      <4>3. CASE x # c
        BY <1>2, <2>2, <2>5, <2>6, <4>1, <4>3
      <4> QED
        BY <4>2, <4>3
    <3>4. ASSUME NEW y \in DOMAIN second.groups PROVE is[second.groups[y].code] = y
      <4>1. CASE y = g
        BY <2>2, <2>6, <4>1
      <4>2. CASE y # g
        <5>1. y \in DOMAIN db.groups /\ second.groups[y].code = db.groups[y].code
          BY <2>2, <4>2
        <5>2. db.groups[y].code # c /\ db.groups[y].code # old
          BY <1>1, <1>2, <2>5, <4>2, <5>1
        <5>3. db.groups[y].code \in DOMAIN mem.invites /\ mem.invites[db.groups[y].code] = y
          BY <2>1, <5>1 DEF Indexes
        <5> QED
          BY <2>6, <5>1, <5>2, <5>3
      <4> QED
        BY <4>1, <4>2
    <3>5. done.announced = second.addrs /\ done.next = NextSubnet(second.groups)
      BY <1>4, <1>5, <2>1, <2>3 DEF Indexes
    <3> QED
      BY <1>5, <2>4, <3>1, <3>2, <3>3, <3>4, <3>5 DEF Indexes
  <2>8. Rosters(done, second)
    BY <1>4, <1>5, <2>1, <2>2 DEF Rosters
  <2> QED
    BY <1>4, <2>7, <2>8, IndexesRebuilt
<1> QED
  BY <1>1, <1>6, <1>7, PerformExact

LEMMA CreateExact ==
  ASSUME Sound, Exact, NEW p \in Peers, NEW c \in Codes, Create(p, c) PROVE Exact'
<1> DEFINE g     == mem.next
           row   == [group |-> g, host |-> 2, role |-> "owner"]
           new   == [code |-> c, version |-> 1]
           whole == p \notin DOMAIN db.members
           first == InsertGroup(db, g, c)
           second == InsertMember(first, p, g, 2, "owner")
           done  == Created(mem, p, c, g)
           told  == With(promised, p, row)
           trace == IF whole THEN <<db, first, second>> ELSE <<db, first>>
<1>1. /\ pc = "up" /\ p \in Peers \ DOMAIN mem.groupOf /\ g <= SubnetMax
      /\ c \in Codes \ DOMAIN mem.invites /\ \A h \in DOMAIN db.groups : db.groups[h].code # c
      /\ g \notin DOMAIN db.groups
      /\ Perform(trace, whole, done, mem, told, promised)
  BY DEF Create, Fresh, Created
<1>2. /\ Db(db) /\ Fits(mem, db) /\ g \in Subnets \ DOMAIN db.groups /\ 2 \in Hosts /\ g \in Nat
      /\ DOMAIN db.groups \subseteq Subnets
  BY <1>1, RegistryAssumption DEF Sound, Fits, Subnets, Hosts, Db, Partial
<1>3. /\ Db(first) /\ first.members = db.members /\ first.addrs = db.addrs
      /\ first.groups = With(db.groups, g, new)
  BY <1>1, <1>2, InsertGroupIs
<1>4. g \in DOMAIN first.groups /\ DOMAIN db.groups \subseteq DOMAIN first.groups
  BY <1>3 DEF With
<1> HIDE DEF first
<1>5. ASSUME whole
      PROVE  /\ Db(second) /\ second.groups = With(db.groups, g, new) /\ second.addrs = db.addrs
             /\ second.members = With(db.members, p, row)
  <2>1. p \in Peers \ DOMAIN first.members /\ "owner" \in {"owner", "member"}
    BY <1>3, <1>5
  <2>2. /\ Db(second) /\ second.groups = first.groups /\ second.addrs = first.addrs
        /\ second.members = With(first.members, p, row)
    <3>1. Db(first) /\ g \in DOMAIN first.groups /\ 2 \in Hosts
      BY <1>2, <1>3, <1>4
    <3> HIDE DEF g, whole, new
    <3> QED
      BY <2>1, <3>1, InsertMemberIs
  <2> HIDE DEF second, row, new
  <2> QED
    BY <1>3, <2>2
<1>6. whole => trace[Len(trace)] = second
  BY Traces
<1>7. /\ Fits(done, first) /\ done.next = g + 1 /\ done.groups = With(mem.groups, g, new)
      /\ done.invites = With(mem.invites, c, g) /\ done.groupOf = With(mem.groupOf, p, g)
      /\ done.role = With(mem.role, p, "owner") /\ done.nodes = With(mem.nodes, g, Founded(p))
      /\ done.announced = mem.announced
  <2>1. g \in DOMAIN first.groups \ DOMAIN db.groups
    BY <1>2, <1>4
  <2> HIDE DEF done
  <2> QED
    BY <1>1, <1>2, <1>4, <2>1, CreateFits DEF done
<1> HIDE DEF second, done, trace
<1>8. ASSUME mem = Rebuilt(db)
      PROVE  IF whole THEN done = Rebuilt(trace[Len(trace)]) ELSE mem = Rebuilt(trace[Len(trace)])
  <2>1. Indexes(mem, db) /\ Rosters(mem, db)
    BY <1>2, <1>8, RebuiltIndexes
  <2>2. whole
    BY <1>1, <2>1 DEF Indexes
  <2>3. /\ second.groups = With(db.groups, g, new) /\ second.addrs = db.addrs
        /\ second.members = With(db.members, p, row) /\ Db(second)
    BY <1>5, <2>2
  <2>4. /\ DOMAIN second.groups = DOMAIN db.groups \union {g} /\ second.groups[g].code = c
        /\ \A h \in DOMAIN db.groups : second.groups[h] = db.groups[h]
    BY <1>2, <2>3 DEF With
  <2>5. /\ DOMAIN second.members = DOMAIN db.members \union {p} /\ second.members[p] = row
        /\ \A q \in DOMAIN db.members : second.members[q] = db.members[q]
    BY <2>2, <2>3 DEF With
  <2>6. row.group = g /\ row.host = 2 /\ row.role = "owner"
    OBVIOUS
  <2>7. NextSubnet(second.groups) = g + 1
    <3>1. g = NextSubnet(db.groups)
      BY <2>1 DEF Indexes
    <3>2. \A h \in DOMAIN db.groups : h < NextSubnet(db.groups)
      BY <1>2, NextSubnetIs
    <3>3. DOMAIN second.groups \subseteq Subnets /\ g \in DOMAIN second.groups
      BY <1>2, <2>4
    <3>4. \A h \in DOMAIN second.groups : h <= g
      <4>1. \A h \in Subnets : h \in Nat
        BY DEF Subnets
      <4> QED
        BY <1>2, <2>4, <3>1, <3>2, <4>1
    <3> QED
      BY <3>3, <3>4, NextSubnetIs
  <2> HIDE DEF g, row, whole
  <2>8. Indexes(done, second)
    <3>1. Memory(done) /\ Map(done.invites) /\ Map(done.groupOf) /\ Map(done.role) /\ Map(done.nodes)
      BY <1>7 DEF Fits, Partial
    <3>2. done.groups = second.groups /\ done.announced = second.addrs /\ done.next = NextSubnet(second.groups)
      BY <1>7, <2>1, <2>3, <2>7 DEF Indexes
    <3>3. DOMAIN done.nodes = DOMAIN second.groups
      BY <1>7, <2>1, <2>4 DEF Indexes, With
    <3>4. /\ DOMAIN done.groupOf = DOMAIN second.members
          /\ \A q \in DOMAIN second.members : done.groupOf[q] = second.members[q].group
      BY <1>1, <1>7, <2>1, <2>5, <2>6 DEF Indexes, With
    <3>5. /\ DOMAIN done.role = DOMAIN second.members
          /\ \A q \in DOMAIN second.members : done.role[q] = second.members[q].role
      BY <1>1, <1>7, <2>1, <2>5, <2>6 DEF Indexes, With
    <3>6. /\ \A x : x \in DOMAIN done.invites <=> x = c \/ x \in DOMAIN mem.invites
          /\ done.invites[c] = g /\ \A x \in DOMAIN mem.invites : done.invites[x] = mem.invites[x]
      BY <1>1, <1>7 DEF With
    <3>7. \A x : x \in DOMAIN mem.invites <=> \E y \in DOMAIN db.groups : db.groups[y].code = x
      BY <2>1 DEF Indexes
    <3>8. ASSUME NEW x PROVE x \in DOMAIN done.invites <=> \E y \in DOMAIN second.groups : second.groups[y].code = x
      BY <2>4, <3>6, <3>7
    <3>9. ASSUME NEW y \in DOMAIN second.groups PROVE done.invites[second.groups[y].code] = y
      <4>1. CASE y \in DOMAIN db.groups
        <5>1. second.groups[y].code = db.groups[y].code /\ mem.invites[db.groups[y].code] = y
          BY <2>1, <2>4, <4>1 DEF Indexes
        <5> QED
          BY <3>6, <3>7, <4>1, <5>1
      <4>2. CASE y = g
        BY <2>4, <3>6, <4>2
      <4> QED
        BY <2>4, <4>1, <4>2
    <3> QED
      BY <3>1, <3>2, <3>3, <3>4, <3>5, <3>8, <3>9 DEF Indexes
  <2>9. Rosters(done, second)
    <3> SUFFICES ASSUME NEW x \in DOMAIN second.groups
                 PROVE  /\ Map(done.nodes[x])
                        /\ \A q : q \in DOMAIN done.nodes[x] <=> q \in DOMAIN second.members /\ second.members[q].group = x
                        /\ \A q \in DOMAIN done.nodes[x] : done.nodes[x][q] = second.members[q].host
      BY DEF Rosters
    <3>1. \A q \in DOMAIN db.members : db.members[q].group \in DOMAIN db.groups
      BY <1>2 DEF Db
    <3>2. CASE x = g
      <4>1. done.nodes[x] = Founded(p)
        BY <1>7, <3>2 DEF With
      <4>2. /\ Map(Founded(p)) /\ \A q : q \in DOMAIN Founded(p) <=> q = p
            /\ Founded(p)[p] = 2
        BY DEF Founded, NewNodes, Nothing, With, Map
      <4>3. \A q \in DOMAIN db.members : db.members[q].group # g
        BY <1>2, <3>1
      <4> QED
        BY <2>5, <2>6, <3>2, <4>1, <4>2, <4>3
    <3>3. CASE x # g
      <4>1. x \in DOMAIN db.groups /\ done.nodes[x] = mem.nodes[x]
        BY <1>7, <2>1, <2>4, <3>3 DEF With, Indexes
      <4>2. p \notin DOMAIN db.members
        BY <2>2 DEF whole
      <4> QED
        BY <2>1, <2>5, <2>6, <3>3, <4>1, <4>2 DEF Rosters
    <3> QED
      BY <3>2, <3>3
  <2>10. done = Rebuilt(second)
    BY <2>3, <2>8, <2>9, IndexesRebuilt
  <2> QED
    BY <1>6, <2>2, <2>10
<1>9. whole \in BOOLEAN
  OBVIOUS
<1> HIDE DEF whole, told
<1> QED
  BY <1>1, <1>8, <1>9, PerformExact

LEMMA JoinExact ==
  ASSUME Sound, Exact, NEW p \in Peers, NEW c \in Codes, Join(p, c) PROVE Exact'
<1> DEFINE g     == mem.invites[c]
           h     == Enroll(g, p)
           row   == [group |-> g, host |-> h, role |-> "member"]
           whole == p \notin DOMAIN db.members
           first == InsertMember(db, p, g, h, "member")
           second == Bump(first, g)
           new   == With(mem.nodes[g], p, h)
           part  == Enrolled(mem, g, new)
           go    == With(mem.groupOf, p, g)
           ro    == With(mem.role, p, "member")
           done  == Counted(part, g, go, ro, part.announced)
           told  == With(promised, p, row)
           trace == IF whole THEN <<db, first, second>> ELSE <<db>>
<1>1. /\ pc = "up" /\ c \in DOMAIN mem.invites
      /\ p \in DOMAIN mem.groupOf => mem.groupOf[p] = g
      /\ p \in DOMAIN mem.nodes[g] \/ Free(g) # {}
      /\ \E then : then = [part EXCEPT !.groupOf = go, !.role = ro,
                                       !.groups[g].version = part.groups[g].version + 1]
                   /\ Perform(trace, whole, then, part, told, promised)
  BY DEF Join, Enrolled
<1>2. /\ Db(db) /\ Fits(mem, db) /\ g \in DOMAIN mem.groups /\ g \in DOMAIN db.groups
      /\ h \in Hosts /\ (p \in DOMAIN mem.nodes[g] => h = mem.nodes[g][p])
  <2>1. Db(db) /\ Fits(mem, db)
    BY <1>1 DEF Sound
  <2>2. g \in DOMAIN mem.groups
    BY <1>1, <2>1 DEF Fits, Partial
  <2> QED
    BY <1>1, <2>1, <2>2, EnrollIs DEF Fits
<1> HIDE DEF g, h
<1>3. ASSUME whole
      PROVE  /\ Db(second) /\ second.groups = Raise(db.groups, g) /\ second.addrs = db.addrs
             /\ second.members = With(db.members, p, row)
  <2>1. /\ Db(first) /\ first.groups = db.groups /\ first.addrs = db.addrs
        /\ first.members = With(db.members, p, row)
    <3>1. p \in Peers \ DOMAIN db.members /\ "member" \in {"owner", "member"}
      BY <1>3
    <3> HIDE DEF whole
    <3> QED
      BY <1>2, <3>1, InsertMemberIs
  <2> HIDE DEF first
  <2> QED
    BY <1>2, <2>1, BumpIs
<1>4. /\ Partial(new, Peers, Hosts) /\ new[p] = h /\ DOMAIN new = DOMAIN mem.nodes[g] \union {p}
      /\ \A q \in DOMAIN mem.nodes[g] : q # p => new[q] = mem.nodes[g][q]
  <2>1. Partial(mem.nodes[g], Peers, Hosts)
    BY <1>2 DEF Fits
  <2> QED
    BY <1>2, <2>1, PartialWith DEF With
<1> HIDE DEF new
<1>5. /\ Fits(part, db) /\ part.groups = mem.groups /\ part.groupOf = mem.groupOf
      /\ part.role = mem.role /\ part.announced = mem.announced /\ part.invites = mem.invites
      /\ part.next = mem.next /\ DOMAIN part.nodes = DOMAIN mem.nodes /\ part.nodes[g] = new
      /\ \A x \in DOMAIN mem.nodes : x # g => part.nodes[x] = mem.nodes[x]
  BY <1>2, <1>4, EnrollFits
<1> HIDE DEF part
<1>6. /\ Partial(go, Peers, DOMAIN mem.groups) /\ Partial(ro, Peers, {"owner", "member"})
      /\ DOMAIN go = DOMAIN mem.groupOf \union {p} /\ DOMAIN ro = DOMAIN go
      /\ go[p] = g /\ ro[p] = "member"
      /\ \A q \in DOMAIN mem.groupOf : q # p => go[q] = mem.groupOf[q] /\ ro[q] = mem.role[q]
  <2>1. Partial(go, Peers, DOMAIN mem.groups)
    BY <1>2, PartialWith DEF Fits
  <2>2. Partial(ro, Peers, {"owner", "member"})
    BY <1>2, PartialWith DEF Fits
  <2> QED
    BY <1>2, <2>1, <2>2 DEF Fits, With
<1> HIDE DEF go, ro
<1>7. /\ Fits(done, db) /\ done.groupOf = go /\ done.role = ro /\ done.nodes = part.nodes
      /\ done.announced = mem.announced /\ done.invites = mem.invites /\ done.next = mem.next
      /\ done.groups = Raise(mem.groups, g)
  BY <1>2, <1>5, <1>6, MembersFit
<1>8. Perform(trace, whole, done, part, told, promised)
  <2>1. done = [part EXCEPT !.groupOf = go, !.role = ro,
                            !.groups[g].version = part.groups[g].version + 1]
    BY <1>5 DEF Fits, Memory, Counted
  <2> HIDE DEF done, trace, whole, told
  <2> QED
    BY <1>1, <2>1
<1>9. IF whole THEN trace[Len(trace)] = second ELSE trace[Len(trace)] = db
  BY Traces
<1> HIDE DEF first, second, done, trace
<1>10. ASSUME mem = Rebuilt(db), ~whole PROVE part = Rebuilt(db)
  <2>1. Indexes(mem, db) /\ Rosters(mem, db)
    BY <1>2, <1>10, RebuiltIndexes
  <2>2. p \in DOMAIN mem.nodes[g]
    BY <1>1, <1>2, <1>10, <2>1 DEF Indexes, Rosters
  <2>3. Indexes(part, db)
    <3>1. Memory(part) /\ Map(part.nodes)
      BY <1>5 DEF Fits
    <3> QED
      BY <1>5, <2>1, <3>1 DEF Indexes
  <2>4. Rosters(part, db)
    <3> SUFFICES ASSUME NEW x \in DOMAIN db.groups
                 PROVE  /\ Map(part.nodes[x])
                        /\ \A q : q \in DOMAIN part.nodes[x] <=> q \in DOMAIN db.members /\ db.members[q].group = x
                        /\ \A q \in DOMAIN part.nodes[x] : part.nodes[x][q] = db.members[q].host
      BY DEF Rosters
    <3>1. CASE x = g
      BY <1>2, <1>4, <1>5, <2>1, <2>2, <3>1 DEF Rosters, Partial
    <3>2. CASE x # g
      BY <1>5, <2>1, <3>2 DEF Rosters, Indexes
    <3> QED
      BY <3>1, <3>2
  <2> QED
    BY <1>2, <2>3, <2>4, IndexesRebuilt
<1>11. ASSUME mem = Rebuilt(db), whole PROVE done = Rebuilt(second)
  <2>1. Indexes(mem, db) /\ Rosters(mem, db)
    BY <1>2, <1>11, RebuiltIndexes
  <2>2. /\ second.groups = Raise(db.groups, g) /\ second.addrs = db.addrs
        /\ second.members = With(db.members, p, row) /\ Db(second)
    BY <1>3, <1>11
  <2>3. /\ DOMAIN second.groups = DOMAIN db.groups
        /\ \A x \in DOMAIN db.groups : second.groups[x].code = db.groups[x].code
    BY <1>2, <2>2, RaiseIs DEF Raise, Db
  <2>4. /\ DOMAIN second.members = DOMAIN db.members \union {p} /\ second.members[p] = row
        /\ p \notin DOMAIN db.members
        /\ \A q \in DOMAIN db.members : second.members[q] = db.members[q]
    BY <1>11, <2>2 DEF With
  <2>5. row.group = g /\ row.host = h /\ row.role = "member"
    OBVIOUS
  <2> HIDE DEF row, whole
  <2>6. NextSubnet(second.groups) = NextSubnet(db.groups)
    BY <2>3, NextIsOfTheNumbers
  <2>7. Indexes(done, second)
    <3>1. Memory(done) /\ Map(done.invites) /\ Map(done.groupOf) /\ Map(done.role) /\ Map(done.nodes)
      BY <1>7 DEF Fits, Partial
    <3>2. done.groups = second.groups /\ done.announced = second.addrs /\ done.next = NextSubnet(second.groups)
      BY <1>7, <2>1, <2>2, <2>6 DEF Indexes
    <3>3. DOMAIN done.nodes = DOMAIN second.groups
      BY <1>5, <1>7, <2>1, <2>3 DEF Indexes
    <3>4. /\ DOMAIN done.groupOf = DOMAIN second.members /\ DOMAIN done.role = DOMAIN second.members
          /\ \A q \in DOMAIN second.members : /\ done.groupOf[q] = second.members[q].group
                                              /\ done.role[q] = second.members[q].role
      BY <1>6, <1>7, <2>1, <2>4, <2>5 DEF Indexes
    <3>5. /\ \A x : x \in DOMAIN done.invites <=> \E y \in DOMAIN second.groups : second.groups[y].code = x
          /\ \A y \in DOMAIN second.groups : done.invites[second.groups[y].code] = y
      BY <1>7, <2>1, <2>3 DEF Indexes
    <3> QED
      BY <3>1, <3>2, <3>3, <3>4, <3>5 DEF Indexes
  <2>8. Rosters(done, second)
    <3> SUFFICES ASSUME NEW x \in DOMAIN db.groups
                 PROVE  /\ Map(done.nodes[x])
                        /\ \A q : q \in DOMAIN done.nodes[x] <=> q \in DOMAIN second.members /\ second.members[q].group = x
                        /\ \A q \in DOMAIN done.nodes[x] : done.nodes[x][q] = second.members[q].host
      BY <2>3 DEF Rosters
    <3>1. CASE x = g
      <4>1. done.nodes[x] = new /\ Map(new)
        BY <1>4, <1>5, <1>7, <3>1 DEF Partial
      <4> QED
        BY <1>4, <2>1, <2>4, <2>5, <3>1, <4>1 DEF Rosters
    <3>2. CASE x # g
      <4>1. done.nodes[x] = mem.nodes[x]
        BY <1>5, <1>7, <2>1, <3>2 DEF Indexes
      <4> QED
        BY <2>1, <2>4, <2>5, <3>2, <4>1 DEF Rosters
    <3> QED
      BY <3>1, <3>2
  <2> QED
    BY <2>2, <2>7, <2>8, IndexesRebuilt
<1>12. whole \in BOOLEAN
  OBVIOUS
<1> HIDE DEF whole, told
<1>13. mem = Rebuilt(db) => IF whole THEN done = Rebuilt(trace[Len(trace)])
                                     ELSE part = Rebuilt(trace[Len(trace)])
  BY <1>9, <1>10, <1>11
<1> QED
  BY <1>1, <1>8, <1>12, <1>13, PerformExact

LEMMA ExactStep == Sound /\ Kept /\ Shown /\ Exact /\ [Next]_vars => Exact'
<1> SUFFICES ASSUME Sound, Kept, Shown, Exact, [Next]_vars PROVE Exact'
  OBVIOUS
<1>1. CASE UNCHANGED vars
  BY <1>1 DEF vars, disk, repair, counts, Exact
<1> QED
  BY <1>1, CreateExact, JoinExact, ResetExact, KickExact, AnnounceExact, StartSteps, RepairSteps DEF Next

\* As long as no statement has failed, what the running service has in memory - its groups,
\* invitations, members, their roles and addresses, the next subnet - is exactly what a
\* restart would build from the file: no operation keeps something in memory that is not in
\* the tables, or the reverse, and a death between two statements does not make them differ.
THEOREM RestartsChangeNothing == Spec => []RestartChangesNothing
<1>1. Exact => RestartChangesNothing
  BY DEF Exact, RestartChangesNothing
<1> QED
  BY <1>1, Begins, SoundStep, ExactStep, PTL DEF Spec

=============================================================================
