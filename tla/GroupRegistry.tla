---------------------------- MODULE GroupRegistry ----------------------------
(***************************************************************************)
(* The group registry of the control plane: the indexes in memory          *)
(* (app/ctl/internal/logic/group/registry.go, logic/node/registry.go) and  *)
(* the SQLite file behind them (store.go, migrate.go).                     *)
(*                                                                         *)
(* Every operation holds r.mu from its checks to its end, so it is one     *)
(* action; inside it, the process can die between two SQL statements, or a *)
(* statement can fail and the operation return with what it has changed so *)
(* far.  A failed statement has changed nothing.  Starting (migrate and    *)
(* restore) and the repair command are made of smaller steps.              *)
(*                                                                         *)
(* A group is its subnet index (its id, CIDR and /64 derive from it), a    *)
(* member's two addresses are their common host number, and of a peer's    *)
(* announced addresses only their existence is kept.  A request that is    *)
(* refused changes nothing and is left out; so is an expired invitation.   *)
(***************************************************************************)
EXTENDS Naturals, FiniteSets, Sequences

CONSTANTS
  Peers,        \* peer IDs
  Codes,        \* invitation codes
  SubnetMax,    \* 255: the last subnet index
  HostMax,      \* 254: the last host number; the first is 2
  MaxVersion,   \* bound: the version of a group
  MaxFailures,  \* bound: SQL statements that fail
  MaxCrashes    \* bound: deaths of the process, of the service or of the repair command

ASSUME RegistryAssumption ==
  /\ SubnetMax \in Nat /\ HostMax \in Nat /\ HostMax >= 2
  /\ MaxVersion \in Nat /\ MaxFailures \in Nat /\ MaxCrashes \in Nat

Subnets == 0 .. SubnetMax
Hosts   == 2 .. HostMax

VARIABLES
  db,               \* the tables: groups, members (those without an IPv6 address: bare),
                    \* announced_addrs
  schema, ledger,   \* the columns that exist, and the version schema_migrations records
  mem,              \* the indexes of Registry and the node.Registry of each group
  pc,               \* "down", "opening", "recording", "up", or "refill" (the repair command)
  backups, saved,   \* the copies that repair has made, and the rows it has read
  promised,         \* history: what a peer was told by an answer, until a kick is tried
  wiped,            \* history: repair has removed the file
  failures, crashes \* counters of the two bounds

disk   == <<db, schema, ledger>>
repair == <<backups, saved, wiped>>
counts == <<failures, crashes>>
vars   == <<disk, mem, pc, repair, promised, counts>>

Nothing  == [x \in {} |-> x]
NoTables == [groups |-> Nothing, members |-> Nothing, bare |-> {}, addrs |-> {}]

With(f, k, v) == [x \in DOMAIN f \union {k} |-> IF x = k THEN v ELSE f[x]]
Without(f, k) == [x \in DOMAIN f \ {k} |-> f[x]]

-----------------------------------------------------------------------------
(* Restore *)

LoadGroups(d)         == d.groups
LoadAnnouncedAddrs(d) == d.addrs

\* loadMembersByGroup
Roster(d, g) == [p \in {q \in DOMAIN d.members : d.members[q].group = g} |-> d.members[p].host]

\* RestoreNode refuses an address that another member has; restore gives up then.
Restorable(d) ==
  \A p, q \in DOMAIN d.members :
    p # q /\ d.members[p].group = d.members[q].group => d.members[p].host # d.members[q].host

\* Mutant of NextSubnet: the highest subnet in use is handed out again.
NextSubnetAgain(groups) ==
  IF DOMAIN groups = {} THEN 0
  ELSE CHOOSE g \in DOMAIN groups : \A h \in DOMAIN groups : h <= g

\* restore: the next subnet is one past the highest in use.
NextSubnet(groups) ==
  IF DOMAIN groups = {} THEN 0
  ELSE 1 + CHOOSE g \in DOMAIN groups : \A h \in DOMAIN groups : h <= g

\* restore and rebuildGroup
Rebuilt(d) ==
  LET groups == LoadGroups(d)
  IN  [next |-> NextSubnet(groups),
       groups |-> groups,
       invites |-> [c \in {groups[g].code : g \in DOMAIN groups} |->
                      CHOOSE g \in DOMAIN groups : groups[g].code = c],
       groupOf |-> [p \in DOMAIN d.members |-> d.members[p].group],
       role |-> [p \in DOMAIN d.members |-> d.members[p].role],
       announced |-> LoadAnnouncedAddrs(d),
       nodes |-> [g \in DOMAIN groups |-> Roster(d, g)]]

\* rebuildGroup completes the rows of members that have no IPv6 address.
Backfill(d, done) == [d EXCEPT !.bare = @ \ done]

\* A database of the version before IPv6, with one group.
Legacy(p, c) ==
  [groups |-> With(Nothing, 0, [code |-> c, version |-> 1]),
   members |-> With(Nothing, p, [group |-> 0, host |-> 2, role |-> "owner"]),
   bare |-> {p}, addrs |-> {}]

Init ==
  /\ \/ db = NoTables /\ schema = 0 /\ ledger = 0
     \/ (\E p \in Peers, c \in Codes : db = Legacy(p, c)) /\ schema = 1 /\ ledger = 1
  /\ mem = Rebuilt(NoTables)
  /\ pc = "down"
  /\ backups = {} /\ saved = NoTables /\ wiped = FALSE
  /\ promised = Nothing
  /\ failures = 0 /\ crashes = 0

-----------------------------------------------------------------------------
(* The operations *)

\* An operation takes the tables through the states of trace, one statement each.  It
\* comes to its end if whole; a statement fails, or a constraint refuses one, and it
\* leaves part of its effect in memory; or the process dies.
Completes(trace, done, told) ==
  /\ db' = trace[Len(trace)] /\ mem' = done /\ promised' = told
  /\ UNCHANGED <<pc, counts>>

BreaksOff(trace, whole, part, told) ==
  /\ \E k \in DOMAIN trace :
       /\ db' = trace[k]
       /\ IF k = Len(trace) /\ ~whole THEN failures' = failures
          ELSE k < Len(trace) /\ failures < MaxFailures /\ failures' = failures + 1
  /\ mem' = part /\ promised' = told
  /\ UNCHANGED <<pc, crashes>>

Dies(trace, told) ==
  /\ crashes < MaxCrashes /\ crashes' = crashes + 1
  /\ \E k \in DOMAIN trace : db' = trace[k]
  /\ mem' = Rebuilt(NoTables) /\ pc' = "down" /\ promised' = told
  /\ UNCHANGED failures

Perform(trace, whole, done, part, told, doubt) ==
  /\ \/ whole /\ Completes(trace, done, told)
     \/ BreaksOff(trace, whole, part, doubt)
     \/ Dies(trace, doubt)
  /\ UNCHANGED <<schema, ledger, repair>>

InsertGroup(d, g, c)       == [d EXCEPT !.groups = With(@, g, [code |-> c, version |-> 1])]
InsertMember(d, p, g, h, r) ==
  [d EXCEPT !.members = With(@, p, [group |-> g, host |-> h, role |-> r])]

\* Mutant of DeleteMember: the statement has lost its condition on the peer.
DeleteMembers(d, p) ==
  [d EXCEPT !.members = [q \in {m \in DOMAIN @ : @[m].group # @[p].group} |-> @[q]],
            !.bare = {}, !.addrs = {}]

DeleteMember(d, p)   == [d EXCEPT !.members = Without(@, p), !.bare = @ \ {p}, !.addrs = @ \ {p}]
Bump(d, g)           == [d EXCEPT !.groups[g].version = @ + 1]
UpdateInvite(d, g, c) == [d EXCEPT !.groups[g].code = c]
ReplaceAddrs(d, p)    == [d EXCEPT !.addrs = @ \union {p}]

\* Mutant of Free: addresses in use are not passed over.
FreeAny(g) == Hosts

\* nextHost
Free(g) == Hosts \ {mem.nodes[g][p] : p \in DOMAIN mem.nodes[g]}
NextHost(g) == CHOOSE h \in Free(g) : \A k \in Free(g) : h <= k

\* Of the registry of nodes of a group: a peer that has a host number keeps it.
Enroll(g, p) ==
  IF p \in DOMAIN mem.nodes[g] THEN mem.nodes[g][p] ELSE NextHost(g)
RemoveNode(g, p) == [mem EXCEPT !.nodes[g] = Without(@, p)]

\* node.NewRegistry, and the first member of a new group, who gets the first address.
NewNodes    == Nothing
Founded(p)  == With(NewNodes, p, 2)

Fresh(c) == c \notin DOMAIN mem.invites /\ \A g \in DOMAIN db.groups : db.groups[g].code # c

\* The version can go up, within the bound.
Bumpable(g) == mem.groups[g].version < MaxVersion /\ db.groups[g].version < MaxVersion

\* Create.  insertMember is refused when the tables hold a membership that memory has not;
\* insertGroup, when an earlier attempt has left the group there (that changes nothing).
Create(p, c) ==
  LET g     == mem.next
      row   == [group |-> g, host |-> 2, role |-> "owner"]
      whole == p \notin DOMAIN db.members
      first == InsertGroup(db, g, c)
      done  == [mem EXCEPT !.next = g + 1,
                           !.groups = With(@, g, [code |-> c, version |-> 1]),
                           !.invites = With(@, c, g),
                           !.groupOf = With(@, p, g), !.role = With(@, p, "owner"),
                           !.nodes = With(@, g, Founded(p))]
  IN  /\ pc = "up" /\ p \notin DOMAIN mem.groupOf /\ g <= SubnetMax /\ Fresh(c)
      /\ g \notin DOMAIN db.groups
      /\ Perform(IF whole THEN <<db, first, InsertMember(first, p, g, 2, "owner")>> ELSE <<db, first>>,
                 whole, done, mem, With(promised, p, row), promised)

\* Join.  Enroll gives the address first, or the one the peer has; the membership of a
\* peer that is in the tables cannot be inserted again.
Join(p, c) ==
  LET g     == mem.invites[c]
      h     == Enroll(g, p)
      row   == [group |-> g, host |-> h, role |-> "member"]
      whole == p \notin DOMAIN db.members
      first == InsertMember(db, p, g, h, "member")
      part  == [mem EXCEPT !.nodes[g] = With(@, p, h)]
      done  == [part EXCEPT !.groupOf = With(@, p, g), !.role = With(@, p, "member"),
                            !.groups[g].version = @ + 1]
  IN  /\ pc = "up" /\ c \in DOMAIN mem.invites
      /\ p \in DOMAIN mem.groupOf => mem.groupOf[p] = g
      /\ p \in DOMAIN mem.nodes[g] \/ Free(g) # {}
      /\ Bumpable(g)
      /\ Perform(IF whole THEN <<db, first, Bump(first, g)>> ELSE <<db>>,
                 whole, done, part, With(promised, p, row), promised)

Owns(p, g) ==
  /\ g \in DOMAIN mem.groups
  /\ p \in DOMAIN mem.groupOf /\ mem.groupOf[p] = g /\ mem.role[p] = "owner"

\* ResetInvite
ResetInvite(p, g, c) ==
  LET first == UpdateInvite(db, g, c)
      old   == mem.groups[g].code
      done  == [mem EXCEPT !.groups[g] = [code |-> c, version |-> @.version + 1],
                           !.invites = With(Without(@, old), c, g)]
  IN  /\ pc = "up" /\ Owns(p, g) /\ Fresh(c) /\ Bumpable(g)
      /\ Perform(<<db, first, Bump(first, g)>>, TRUE, done, mem, promised, promised)

\* Kick: RemoveNode gives the address back before the tables are changed.
Kick(p, t, g) ==
  LET first == DeleteMember(db, t)
      part  == RemoveNode(g, t)
      done  == [part EXCEPT !.groupOf = Without(@, t), !.role = Without(@, t),
                            !.announced = @ \ {t}, !.groups[g].version = @ + 1]
  IN  /\ pc = "up" /\ Owns(p, g) /\ t # p /\ t \in DOMAIN mem.groupOf /\ mem.groupOf[t] = g
      /\ t \in DOMAIN mem.nodes[g]
      /\ Bumpable(g)
      /\ Perform(<<db, first, Bump(first, g)>>, TRUE, done, part, Without(promised, t), Without(promised, t))

\* Announce, in one transaction; the tables refuse addresses of one who is no member there.
Announce(p) ==
  /\ pc = "up" /\ p \in DOMAIN mem.groupOf /\ p \in DOMAIN db.members
  /\ Perform(<<db, ReplaceAddrs(db, p)>>, TRUE,
             [mem EXCEPT !.announced = @ \union {p}], mem, promised, promised)

\* NetMapFor: the members of the group of p, by the group's registry of nodes; one without a
\* role counts as a member.
NetMapFor(p) ==
  LET g == mem.groupOf[p]
  IN  {[peer |-> q, group |-> g, host |-> mem.nodes[g][q],
        role |-> IF q \in DOMAIN mem.role THEN mem.role[q] ELSE "member"] : q \in DOMAIN mem.nodes[g]}

-----------------------------------------------------------------------------
(* Starting, and the repair command *)

Open ==
  /\ pc = "down" /\ pc' = "opening"
  /\ UNCHANGED <<disk, mem, repair, promised, counts>>

\* Migrate: the columns of a version, then its record.  The first version creates what is
\* not there; the second adds a column, and fails where it is there already.
Migrates == ledger = 0 \/ schema = 1

Apply ==
  /\ pc = "opening" /\ ledger < 2 /\ Migrates
  /\ schema' = IF schema > ledger THEN schema ELSE ledger + 1
  /\ pc' = "recording"
  /\ UNCHANGED <<db, ledger, mem, repair, promised, counts>>

Record ==
  /\ pc = "recording" /\ ledger' = ledger + 1 /\ pc' = "opening"
  /\ UNCHANGED <<db, schema, mem, repair, promised, counts>>

Starts ==
  /\ pc = "opening" /\ ledger = 2 /\ Restorable(db)
  /\ db' = Backfill(db, db.bare) /\ mem' = Rebuilt(db) /\ pc' = "up"
  /\ UNCHANGED <<schema, ledger, repair, promised, counts>>

\* A row that cannot be completed ends the start; those before it are.
BackfillFails ==
  /\ pc = "opening" /\ ledger = 2 /\ Restorable(db) /\ db.bare # {}
  /\ failures < MaxFailures /\ failures' = failures + 1
  /\ \E done \in SUBSET db.bare : done # db.bare /\ db' = Backfill(db, done)
  /\ pc' = "down"
  /\ UNCHANGED <<schema, ledger, mem, repair, promised, crashes>>

\* registerServices panics when the database does not open or is not restored.
Panics ==
  /\ pc = "opening" /\ ((ledger < 2 /\ ~Migrates) \/ (ledger = 2 /\ ~Restorable(db)))
  /\ pc' = "down"
  /\ UNCHANGED <<disk, mem, repair, promised, counts>>

SnapshotBackup == backups' = backups \union {db}

\* RepairDatabase: a copy, then a migration where that works.
RepairMigrates ==
  /\ pc = "down" /\ (ledger = 2 \/ Migrates)
  /\ SnapshotBackup
  /\ schema' = 2 /\ ledger' = 2
  /\ UNCHANGED <<db, mem, pc, saved, wiped, promised, counts>>

\* snapshot: no row is damaged, and each is read; the IPv6 addresses are not.
Snapshot == [db EXCEPT !.bare = DOMAIN db.members]

\* rebuildWithData, where it does not: the rows are read and the file removed ...
RepairWipes ==
  /\ pc = "down" /\ ledger < 2 /\ ~Migrates
  /\ SnapshotBackup /\ saved' = Snapshot /\ wiped' = TRUE
  /\ db' = NoTables /\ schema' = 0 /\ ledger' = 0
  /\ pc' = "refill"
  /\ UNCHANGED <<mem, promised, counts>>

\* ... and a new one is made and filled in one transaction.
RepairRefills ==
  /\ pc = "refill"
  /\ db' = saved /\ schema' = 2 /\ ledger' = 2 /\ pc' = "down"
  /\ UNCHANGED <<mem, repair, promised, counts>>

\* The process dies between two operations, while it starts, or while it refills.
Crash ==
  /\ pc # "down" /\ crashes < MaxCrashes /\ crashes' = crashes + 1
  /\ pc' = "down" /\ mem' = Rebuilt(NoTables)
  /\ IF pc = "refill"
     THEN \E s \in 0 .. 2 : schema' = s /\ ledger' \in {s} \union ({s - 1} \intersect Nat)
     ELSE UNCHANGED <<schema, ledger>>
  /\ UNCHANGED <<db, repair, promised, failures>>

Repair == RepairMigrates \/ RepairWipes \/ RepairRefills
Start  == Apply \/ Record \/ Starts \/ BackfillFails \/ Panics

Next ==
  \/ \E p \in Peers, c \in Codes : Create(p, c) \/ Join(p, c)
  \/ \E p \in Peers, g \in Subnets, c \in Codes : ResetInvite(p, g, c)
  \/ \E p, t \in Peers, g \in Subnets : Kick(p, t, g)
  \/ \E p \in Peers : Announce(p)
  \/ Open \/ Start \/ Repair \/ Crash

Spec == Init /\ [][Next]_vars

\* A service that is down is started, over and over; the operator who sees it fail runs
\* the repair command; and both go on once they have begun.
FairSpec == Spec /\ SF_vars(Open) /\ WF_vars(Start) /\ SF_vars(Repair)

-----------------------------------------------------------------------------
(* Properties *)

Row == [group : Subnets, host : Hosts, role : {"owner", "member"}]

\* The tables and the indexes have their types: every address announced is of a member, every
\* member is of a group, every invitation is the one its group has now.
TypeOK ==
  /\ DOMAIN db.members \subseteq Peers /\ \A p \in DOMAIN db.members : db.members[p] \in Row
  /\ DOMAIN db.groups \subseteq Subnets /\ db.addrs \union db.bare \subseteq DOMAIN db.members
  /\ \A p \in DOMAIN mem.groupOf : p \in DOMAIN mem.role /\ mem.groupOf[p] \in DOMAIN mem.groups
  /\ \A c \in DOMAIN mem.invites : mem.groups[mem.invites[c]].code = c
  /\ pc = "up" => DOMAIN mem.nodes = DOMAIN mem.groups
  /\ schema \in 0 .. 2 /\ ledger \in 0 .. schema

\* What a peer was told when it created or joined a group - its group, its address, its
\* role - is in the tables whatever failed or died since, unless somebody tried to kick it,
\* and its network map says the same.  If the repair command has removed the file, it is in
\* the tables or in a copy.
PromiseKept ==
  \A p \in DOMAIN promised :
    /\ \E d \in {db} \union IF wiped THEN backups ELSE {} :
         p \in DOMAIN d.members /\ d.members[p] = promised[p]
    /\ pc = "up" /\ ~wiped =>
         /\ p \in DOMAIN mem.groupOf
         /\ [peer |-> p, group |-> promised[p].group, host |-> promised[p].host,
             role |-> promised[p].role] \in NetMapFor(p)

\* As long as no statement has failed, a restart gives back exactly the indexes there are.
RestartChangesNothing == pc = "up" /\ failures = 0 => mem = Rebuilt(db)

\* The service comes back after every crash, with the repair command if need be.
ComesBack == [](failures = 0) => []<>(pc = "up")

\* The same, also when a statement has failed, does not hold: see "Also seen" in the README.
AlwaysComesBack == []<>(pc = "up")

=============================================================================
