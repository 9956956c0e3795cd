# A verification project for lanet

lanet (the program `pvn`) is a virtual LAN between peers, written in Go on
libp2p. Each node has a TUN device; an IPv4 or IPv6 packet for an address of the
virtual network is carried over a libp2p stream to the node that owns the
address. It runs in two ways: *serverless*, where nodes find and admit each
other through an info protocol, a DHT and a persisted list of friends, and
*managed*, where a control plane keeps groups, addresses and relays.

This directory holds TLA+ modules translated from the Go code, the TLC
configurations that model-check them, and proofs of theorems about them. Source
lines below are relative to `src/`.

```
cd tla
tlc -workers 2 -config RouterFlows_flows.cfg MCRouterFlows.tla   # check one run
tlapm RouterFlowsProofs.tla                                       # check one module of proofs
```

## 1. The system

| part | source | state | operations | module |
|---|---|---|---|---|
| Router: flow table | `pkg/tundevice/router.go`, `router_flow_lifecycle.go` | `flows` (peer to stream), `flowByAddr` (address to stream), `dialing`, candidates and retiring flows, a mutex | send to an address, dial or join a dial, accept a stream, arbitrate two streams, read loop, retire, reap idle, `Close` | `RouterFlows` |
| Router: outbound queues | `pkg/tundevice/router.go:300-560` | a worker and a bounded queue per destination, a byte budget | hand a packet over, deliver, go idle, stop | `OutboundQueue` |
| Tunnel service, relay reservations | `pkg/tunnel/service.go`, `pkg/serverless/relay.go` | dials under way, their waiters and limits; reservations held and when to renew them | dial, join a dial, try relays, reserve in rounds | `TunnelService` |
| Friendship | `pkg/serverless/serverless.go`, `sdk/go/lanet/peers.go`, `pkg/peersdb` | members, guard of deleted nodes, known peers, tombstones, pending requests | add, approve, reject, remove, warm up; info handshake; unfriend notice | `Friendship` |
| Discovery scheduler | `pkg/serverless/scheduler.go` | calls under way, a queue of 128, retry table, closed flag | request, submit, worker, close | `DiscoveryScheduler` |
| Virtual addresses | `pkg/serverless/vaddr_conflict.go`, `vaddr.go` | base claims, conflict groups, salts, decisions, address index | claim, remove, resolve | `VirtualIPs` |
| Member table | `pkg/serverless/serverless.go`, `member_quarantine.go`, `control.go` | members, when they were last heard, expired IDs that are remembered | announce, identify, hear of, expire | `MemberLife` |
| Discovery service, public DHT, control channel | `pkg/serverless/serverless.go`, `control.go` | the service's context, instances of the public DHT and their timers, probes | start, close, switch, retire, time out, probe | `DiscoveryService` |
| Seeds | `pkg/serverless/seedex.go`, `pkg/peersdb/seeds.go`, `sdk/go/lanet/seeds.go` | seed rows, the gate of exchanges, scopes switched on | exchange, merge, verify, evict, switch | `SeedExchange` |
| Control plane | `app/ctl` | groups, members, address pools, in memory and in a database | create, join, reset the invitation, kick, announce, migrate, restore, repair | `GroupRegistry` |
| Self-update | `pkg/selfupdate`, `app/agent/cmd/pvn-node/{update,p2pupdate,update_helper,singleton}.go` | six files, a lock, a gate, attempts | fetch, stage, apply, roll back, confirm, clean up | `SelfUpdate` |
| Gateway | `app/gateway` | sessions, their queues and streams, pipes | authenticate, register, dial, bridge, data, close, reset, end | `Gateway` |
| Client SDK | `sdk/go/lanet/{client,listenfwd,portfwd,console}.go`, `pkg/serverless/dns.go` | what is open, the table of forwards, listeners, connections | new, roll back, close, set forwards, accept, copy | `ClientNode` |
| Transport | `pkg/p2pkit`, `app/relay` | libp2p host, relay, reachability | configuration | none |
| TUN, framing, firewall, invites | `pkg/tundevice`, `pkg/firewall`, `pkg/invitecode`, `pkg/protocol` | byte layout, rules, codes | read, write, filter, encode | none |

How they interact. `Router.Run` reads packets off the TUN device and hands each
to the worker of its destination. The worker asks the NetMap (`PeerRoute`) which
peer owns the address, takes the flow of that peer or dials one through the
tunnel service, and writes the packet. Streams that peers open arrive at
`handleStream`. Every stream that is kept gets a read loop that writes to the TUN
device. The tunnel service falls back on relays when a peer cannot be reached,
and that peer renews its reservations at relays of its own choice. The NetMap is
fed by the member table. *Friendship* decides who may be in that table,
*MemberLife* how long; each change of it calls the address arbitration, whose
outcome is the address the NetMap gives a member. The scheduler bounds and
merges the handshakes all of them make. First peers come from the public DHT,
which is given up once the group is found, and from seeds that nodes exchange. The
client SDK opens and closes all of this; the agent is a client that also
replaces its own program, and the gateway one that serves browsers.

What is hard. Two nodes dial each other at once and both ends must keep a stream.
`forwardPacket` drops the mutex while it dials and uses afterwards what it looked
up before. `Close` races accepted streams, dials, timers and switches. A queue is
handed packets while its worker decides to leave. A node is deleted while a
handshake with it is past its check. Notices of a deletion are lost, late, or
overtaken by a new addition. A caller joins a background handshake that is not
the one it asked for. The incremental address table must equal the one computed
from nothing. What others say of a node outlives the node. An update moves the
program that performs it, and may be cut off between any two moves. A database
statement fails after the memory was changed. Nothing of this is visible to a
test that calls the functions one after the other. `PROJECT.json` lists these
hazards at their lines.

What makes each part correct:

- *Flow table*: one live flow per peer, no stream forgotten, a packet written only
  to the peer it was looked up for, a read loop for every kept flow, a quiet
  router after `Close`, and a sender that ends.
- *Outbound queues*: per-destination FIFO, an exact budget, no packet stranded
  behind a worker that left, a stop that ends.
- *Tunnel*: counts that come back whatever way a call ends, no relay left out
  while there is time, a call that gets through in the end.
- *Friendship*: a deletion beats automatic acceptance; a deleted node does not
  come back into the member table; both sides agree in the end; friends meet.
- *Scheduler*: one handshake per peer at a time, every caller answered, and with
  the truth.
- *Addresses and members*: an outcome that depends on who is there and not on the
  order of arrival; the dead stay out, the living are not kept out.
- *Discovery service and seeds*: nothing outlives `Close`, no bootstrap instance
  stays for ever, no hearsay is handed on, no place in the gate is lost.
- *Control plane*: what was promised to a member stays so, in memory, in the
  database and after a restart; the service starts again.
- *Self-update*: a program that can be started is always left; what has landed stays;
  a node offers its own program only; the node runs again.
- *Gateway*: every session ends; frames of a stream come in an order the client
  understands; an end at one side reaches the other.
- *Client*: the listeners are those of the last table; all that was opened goes.

## 2. The modules

| module | models | extends or uses |
|---|---|---|
| `RouterFlows` | flow table of one router with every worker, accepting goroutine, read loop, reaper and closer | |
| `PacketLanes` | abstract specification: what the outbound queues promise, one lane per destination | |
| `OutboundQueue` | the queues as coded, with the refinement to `PacketLanes` | `PacketLanes` |
| `TunnelService` | the calls of one node, their gate and their attempts, and the reservations of the node they call | |
| `Friendship` | two nodes, their users, the protocols between them | |
| `DiscoveryScheduler` | scheduler, workers, callers, closer | |
| `VirtualIPs` | the decision and the incremental table | |
| `MemberLife` | the member table over the address table: a composition | `VirtualIPs` |
| `DiscoveryService` | life of the service and of the instances of the public DHT | |
| `SeedExchange` | seeds within the service they are part of: a composition | `DiscoveryService` |
| `GroupRegistry` | registry in memory, database, migrations, restart | |
| `SelfUpdate` | files, node, helpers | |
| `Gateway` | sessions, streams, bridges | |
| `ClientNode` | life of a node, forwards | |
| `MC...` | the constants' values for TLC | the module named |
| `RouterFlowsProofs`, `OutboundQueueProofs`, `TunnelServiceProofs`, `SeedExchangeProofs`, `GroupRegistryProofs`, `GatewayProofs` | the inductive invariants and the theorems, see section 4 | the module named, `TLAPS` |
| `MembershipProofs` | the theorems about trust, the addresses and the member table, which inherits those of the addresses, and the calls that look for members | `Friendship`, `MemberLife`, `DiscoveryScheduler`, `TLAPS` |
| `AgentProofs` | the theorems about the program of a node and its forwards | `SelfUpdate`, `ClientNode`, `TLAPS` |

A module of proofs may speak of several modules at once; where two of these would use one
name for their own, one of them has a longer name (`SchedulerSpec`, `TableSpec`,
`UpdateSpec`, `SchedulerTypes`).

### RouterFlows

A goroutine is a program counter with its local variables; an action is one
critical section of `r.mu`, one atomic operation, or one stream call. This is
exactly the grain at which the code can be interleaved: between two actions of
one goroutine any other may act. A forwarding goroutine goes through `lookupPeer`
(`router.go:640-670`), `flowTo`, `dialStream` (757-790), `attachFlow`, the
re-check of 689 and the write. The arbitration of two streams (960-1000) compares
the two peer IDs, so a peer is a number and the router is `Self`. A stream is
open or closed by this end. Disturbances
(streams that peers open, streams broken by the network, scans of the idle
reaper, moves of an address to another peer in the NetMap) are counted up to
`MaxDisturbances`.

### OutboundQueue and PacketLanes

`enqueuePacket` finds or starts the worker of a destination, reserves bytes from the
budget and queues the packet, or drops it. A worker delivers, tries to leave when
idle (the decision of `router.go:539-560`, under the lock), and drains when
stopped. `PacketLanes` has one sequence per destination and three actions:
accept a packet at the end, take one from the front, stop. `ImplementsLanes` says that
the queues implement it, with the lane of a destination the queue of its worker.

### Friendship

Two nodes, each with its persisted trust and tombstone (`peersdb/store.go`), its
member table and guard (`serverless.go`), and the orders its user gives
(`peers.go`): add, add by address, approve, reject, remove. An info handshake is
a client's program and a handler's program, each split where the code lets go of
its lock or asks the store. The unfriend notice is a one-way message that may be
lost. `Lossy` is the set of nodes whose exchanges may break off at any point;
`Warm` is the set of nodes that call the friends they know when they start
(`startWarmup`), and `Patient` that of the users who wait for an order to be done
before the next. `MaxOrders` bounds orders and warm-ups together.

### DiscoveryScheduler

`request`, `submit`, the worker and `close` with the mutex sections they
have. The queue's capacity and the retry table's limit are constants.
The merge rule is the source's: a caller that finds a background call for its peer
waits for it and then asks again. For liveness, `Paced` states that the cooldown (24 s at the
least: 30 s with a jitter of 0.8, `scheduler.go:49`, 127-134) outlasts the way of a
waiting caller to the lock: without it the model would let the clock run that long
between two instructions.

### VirtualIPs

`Decide` is `decideVirtualIPsWithBlocked`; the table with its conflict groups is
the incremental resolver. The addresses a member has by the hash (`base`, `salted`)
are any function of member and salt, chosen at the start, so collisions of every form
occur. `Resolve` is the look-up of the router: `HistoryDoesNotMatter` says of the
table, and of where packets go, that both are what the decision gives for the members
there are.

### TunnelService

A call is a record with a program counter: refused, waiting for the dial of
another call, or leading a dial through the attempts of `DialRoute` in their
order (a standing connection, a direct dial, the candidates of `relay.go`, each
with a share of the time that is left). An element of `Views` is what a node may
know of relays, a set of entries; `Keys`, `Before` and `OrderRelayCandidates` are
the comparison and the sort of the source, and `Candidates` is the sorted list cut
to the limit. The target keeps its own list, reserves in rounds over *all* of it, and refreshes
or replaces what has broken. Time is a small number of units per call that
attempts use up.

### MemberLife over VirtualIPs

`MemberLife` gives the table of `VirtualIPs` the rules by which members come and
go: a handshake in two steps (the answer of the peer, and the critical section
that uses it), an expiry that puts the ID into the quarantine, and provider records
and summaries of others, which may name a dead node for as long as they like
(`Found`, `PexSnapshot`, `ControlHints`). When more IDs expire than can be remembered,
the quarantine is full for good, and every unknown ID needs a handshake.

### DiscoveryService and SeedExchange

`DiscoveryService` has the field `dhtPublic` and, apart from it, the instances
that goroutines hold: each of the ends (a peer of the group was found, a timer,
the switch, `Close`) takes the instance out of the field in one step and shuts it
in another, so that any two can meet. `SeedExchange` extends it: the same `Start`
and `Close` register and remove the handlers of the seeds, and the loop, the
exchanges in both directions and the verifier run inside the same life. The rows
of the seed table are states of a peer (heard of, verified, public); a cooldown (5 minutes)
outlasts the exchange that set it (20 s); `given` and
`met` are history variables of what was handed on and who was ever connected;
`SeedCandidates` are the peers the relay layer asks first, under the same gate.

### GroupRegistry

An operation is one action, as the code holds `r.mu` from its checks to its end,
but its body is a list of prefixes: the process may die after each SQL
statement, or a statement may fail and the operation return with what it has
changed so far, in memory and in the file. `Open` runs the migrations one
statement at a time, `Start` restores, and `Repair` is the command that copies the
file and begins anew. A history variable holds what each peer was told.

### SelfUpdate

Six files hold a version, nothing, or a damaged program. The update round and the
console are two actors in the node that share its gate; a helper is a program of
its own with one step per file operation, and there may be two. Any file operation
fails or not, but for those that take back another. A crash ends every process
at once and leaves the files.

Staging is four steps, as in `stageNewBinary`: the old marker goes, the staged file
is published, it is read back for its digest (`Digests`), and the marker with that digest
is written. `Spoils` may fall between any two of them. A file that is damaged before it
is read back (`Altered(v)`, which still says of itself that it is `v`) gets a marker that
fits, so a helper puts it in place; one that is damaged later (`Damaged`) fits no marker.
The lock file can be used: the start without a lock is left out (section 6).

### Gateway

A session has a reader, a writer with a bounded queue and a pump per stream, and
`closeAllStreams` is run by whichever comes first. Streams have two ends; a
bridge joins the ends of two sessions through the pipe of `bridge_pipe.go`, with
its data, its two closing flags and its reset. `told` is what the client at an
end has been queued about the stream.

### ClientNode

`New` is a program that opens one part after the other and on failure runs
`Close`; `Close` lets the parts go in the order of the source. Callers that set the
table of forwards, the listeners with their accept loops, connections and copies
run meanwhile, each with the mutex it takes (`fwMu`, `lfReconcileMu`, `lfMu`).

## 3. Runs

| run | shows | instance | distinct states |
|---|---|---|---|
| `router_flows` | `OneLiveFlow`, `NoLeakedStream`, `QuietAfterClose`, `WriteReachesPeer`; `ForwardEnds`, `FlowGetsPump` | 2 remote peers (one above and one below `Self`), 2 addresses of one of them, 2 streams, limit 1, 1 disturbance | 62 thousand |
| `outbound_lanes` | `BudgetExact`; refinement to `PacketLanes` (`ImplementsLanes`), `StopReturns` | 3 destinations, 2 workers, queue 2, budget 3, 4 packets of size 1 and 2 | 46 thousand |
| `friendship_safety` | `TombstoneBeatsTrust`, `NoGhost` | 2 orders, waiting users; one node warms up and accepts nobody unasked, the other accepts automatically and its exchanges may break off | 1.19 million |
| `friendship_live` | `FriendsMeet`, `DeletionSpreads` | 2 orders by a waiting user, nothing lost | 103 thousand |
| `scheduler_calls` | `OneCallPerPeer`, `RequestWasMade`; `RequestReturns` | 2 peers, 2 workers, 1 caller, 2 calls, queue 1, retry limit 1 | 217 thousand |
| `members_table` | `HistoryDoesNotMatter`, `ConflictsAreSettled`; `DeadStayDead`, `IsolationIsNoBan` | 3 members on 2 addresses, every derivation, one salt, quarantine of 1, one report at a time | 75 thousand |
| `group_restart` | `PromiseKept`, `RestartChangesNothing`; `ComesBack` | 3 peers, 2 codes, 2 subnets, pools of 2, 1 failing statement, 1 crash | 211 thousand |
| `update_files` | `NothingLost`, `OffersItself`; `LandedIsKept`, `ComesBack` | one newer release, 2 helpers, crashes and failures at any time, the release or its altered form cannot be executed | 682 thousand |
| `gateway_bridge` | `AnswerFirst`, `EOFAfterData`; `SessionEnds`, `EndIsPassedOn` | 2 sessions, 1 pipe, queue 1, 2 streams and frames, 1 fault | 171 thousand |
| `client_forwards` | `LastTableWins`; `EverythingGoes` | 1 port, 2 callers and `New` itself, 3 listeners, 1 connection, 1 fault | 463 thousand |
| `service` | `NoHearsay`, `NothingStays`; `PlacesComeBack`, `BootstrapEnds` | 2 instances, 2 users, 2 peers of which one is public, 1 exchange, 1 row, 1 probe | 303 thousand |
| `tunnel_relay` | `GateExact`, `GivesUpLast`; `NATsMeet` | 2 callers, 1 target behind NAT, 3 relays of which one is healthy, 1 dial, 1 waiter, 3 candidates, 1 fault | 540 thousand |

Before the semicolon stand the invariants, behind it the action and temporal
properties. Each property has a mutant in its module, a definition changed by a
plausible mistake (a count not given back, a guard dropped, an order swapped), with
which the run fails; the mutants stand before what they change.

**Bounds.** They are set at the smallest size at which the interesting case
happens.

- *Router*: two peers on the two sides of `Self`, as the arbitration is asymmetric;
  one flow less than there are peers, so that a flow is refused at the limit; two
  streams allow a simultaneous dial. One disturbance sees one accepted stream, one
  failure, one idle scan or one change of the NetMap against all local
  concurrency. The proofs of section 4 hold for all of these constants, so the
  bounds matter to the two liveness properties only. The same is true of the other
  modules that section 4 names.
- *Queues*: the budget is less than the packets' sum, the queue smaller than the
  packets of one destination, and workers fewer than destinations, so each limit
  refuses something.
- *Friendship*: two orders allow an addition and a deletion in each order, by one or by
  both users. `NoGhost` speaks of the node that accepts nobody unasked, which is the one
  that warms up; for the other see finding 2.
- *Scheduler*: queue and table hold one entry, so both overflow.
- *Members*: three members are a conflict with a third party; the derivations
  are all pairs up to the names of the addresses; a quarantine of one overflows
  with the second expiry.
- *Registry*: two subnets and two free numbers in each; with three peers a number is
  freed and given again. One failure and one crash, in either order, at every
  statement.
- *Update*: one newer release suffices for all the moves; two helpers contend for
  the lock. Crashes and failures are not bounded. `Unsuited` lists what the system
  cannot execute: in one case the release (2), in the other what it becomes when it is
  altered (4), so that each of the two is both started and taken back in some behaviour.
- *Gateway*: a queue of one overflows; an overflow counts as the fault it is.
  The gateway stops only when at most one session is left.
- *Client*: three listeners for one port are one each of the two tables and one that is
  replaced. The start finds no state file.
- *Service*: in one behaviour either the public DHT is used or the seeds are
  (`used`), each together with `Start`, `Close` and both users: together they
  would multiply and they share nothing but the context. One scope of the two.
- *Tunnel*: 4 units of time for a call, 1 for its direct part and 3 at most for one
  relay. What is left after the direct part does for one relay of full length, or
  for a share for each of the three, as the 12 s that are left in the source do
  not for ten relays at 3 s. Three relays with one healthy one let it be the first, the
  last or in the middle.

**Deadlock.** Checking is switched off where the program really stops: after
`Close` or `Stop`, when the gateway or the node has gone, and where the bounds of
orders, calls, events or faults are used up. That nobody waits for ever is a liveness
property instead (`StopReturns`, `RequestReturns`, `ForwardEnds`, `SessionEnds`,
`EverythingGoes`, `PlacesComeBack`).

**Fairness.** A goroutine that can take its next step takes it: weak fairness of
each program's step, which the Go scheduler gives. A mutex is held within one
action, so weak fairness of the waiting step is enough. A dial, a handshake or an
exchange ends, by its time limit; a read ends when its stream is closed. Nothing
is assumed of the kernel's packets, the network, the NetMap or users, except
what is said here:

- *Queues*: of the ready cases of a `select` Go takes one at random, so `Take` and
  `Quit` of a worker are strongly fair.
- *Friendship*: discovery calls a trusted node again and again (`CallStarts`), and
  the guard is looked at against the clock, which is strong fairness of
  `GuardExpires`; that action waits for what overlapped the deletion, as five
  minutes are longer than any handshake. `FriendsMeet` has as its premise that a
  node is at rest between its calls again and again, which the 30 s between two
  rounds of discovery leave room for.
- *Scheduler*: workers and callers are fair, and a close runs through; new requests
  are not fair. `Paced` states that the cooldown (24 s at the least,
  with the jitter) outlasts the way of a waiting caller to the lock: without it
  the model would let the clock run that long between two instructions.
- *Members*: time goes on for who is silent, and who is up is announced and
  answers, again and again.
- *Registry*: somebody starts a service that is down, and runs the repair command
  when it does not start (strong fairness of both, as a failure may come in
  between).
- *Update*: somebody starts the program when nothing of it runs. A process that has no
  marker to hand over, or was told by a helper to hold off, and that finds the lock free
  again and again gets it (strong fairness of `Settles`). Nothing of the kind is assumed of
  one that finds a marker: it hands over whenever a helper can be spawned
  (`update_helper.go:68-80`), and becomes the node only where that stays impossible, as the
  program in place cannot be executed or the bound on helpers is reached (weak
  fairness of `Stranded`). So the storm in which each helper starts a node that spawns the
  next helper is a fair behaviour of the model. The code prevents it by telling the node
  to hold off; without that (`StartsUntold`) `ComesBack` fails with a single
  helper. `ComesBack` excepts behaviours in which crashes or second launches never end.
- *Gateway, client*: one condition for all goroutines together; it is weaker
  than one for each, and enough, because none can be busy for ever.
- *Tunnel*: the rounds of the target go on, and each call takes its next step. A healthy
  relay does not refuse.

## 4. Proofs

What the runs show for one small instance, the theorems state for every value of the
constants: any peers, members, addresses, groups, calls and limits, and any number of
events. Every module of proofs holds the invariants it needs, a lemma for each action
or group of actions, and the theorems at the end of the part they belong to.

| module of proofs | theorem | states | run's property |
|---|---|---|---|
| `RouterFlowsProofs` | `OneLiveFlowPerPeer` | a peer never has two live flows | `OneLiveFlow` |
| | `StreamsAreOwned` | an open stream is in the table or in somebody's hands | `NoLeakedStream` |
| | `CloseIsQuiet` | nothing is delivered after `Close` | `QuietAfterClose` |
| | `WritesReachTheirPeer` | a packet is written to the peer it was looked up for | `WriteReachesPeer` |
| | `FlowsLeaveRetired` | a flow comes into the table fit for use and leaves it retired, or to `Close` (an action property) | |
| | `Inductive`, `TypeCorrect` | `IInv` and the types | |
| `OutboundQueueProofs` | `LanesAreKept` | `Spec => Lanes!LaneSpec`, the refinement | the safety of `ImplementsLanes` |
| | `BudgetIsExact` | the budget is the sum of what is in flight | `BudgetExact` |
| | `TypeCorrect` | types; queues and budget within their limits | |
| `TunnelServiceProofs` | `GateIsExact` | the counts of dials and waiting calls are exact | `GateExact` |
| | `NoRelayIsLeftOut` | a call that fails has tried every relay it knew | `GivesUpLast` |
| `MembershipProofs` | `DeletionWins` | no trust beside a tombstone | `TombstoneBeatsTrust` |
| | `GoneForGood` | a node that accepts nobody unasked, and whose user waits, has nobody it has deleted in its table, whatever the other node does | `NoGhost` |
| | `TypeCorrect` | types | |
| | `SingleFlight` | one handshake per peer at a time | `OneCallPerPeer` |
| | `RequestsAreMade` | a request that reports success was made | `RequestWasMade` |
| | `Inductive`, `SchedulerTypeCorrect` | `IInv` and the types, with the limit of the queue | |
| | `NoHistory` | the incremental table is what the decision gives for the members of now | `HistoryDoesNotMatter` |
| | `ReportsAreTrue` | records of conflicts are complete and not all resolved | `ConflictsAreSettled` |
| | `IndexesAreExact` | the owner index and the counter are what counting afresh gives | |
| | `LifeImplementsTable` | `LifeSpec => TableSpec`: the member table moves the address table by its own actions only | |
| | `NoReturnByHearsay` | who expired comes back by its own answer or call only | |
| `SeedExchangeProofs` | `NothingIsLeft` | `Close` leaves no handler and no instance | `NothingStays` |
| | `OnlyTheMet` | only peers that were met are handed on | `NoHearsay` |
| | `GateIsExact` | the counter of the gate is the number of exchanges | |
| `GroupRegistryProofs` | `PromisesAreKept` | what a peer was told is in the tables and its map | `PromiseKept` |
| | `RestartsChangeNothing` | what is in memory is what a restart would build | `RestartChangesNothing` |
| | `TypeCorrect` | tables and indexes are well formed and fit each other | |
| `AgentProofs` | `NothingIsLost` | a program that can be executed is always on disk, and none that was damaged after its digest was taken is put in place | `NothingLost` |
| | `ItOffersItself` | a node hands out the program it has in place | `OffersItself` |
| | `WhatLandedIsKept` | after an update has landed nothing touches its marker (an action property) | `LandedIsKept` |
| | `UpdateInvariance`, `TypeCorrect` | `UpdateInv` and the types | |
| | `TheLastTableWins` | the listeners end as the last table says, and none begins behind the back of `Close` | `LastTableWins` |
| | `ClientInvariance` | `ClientInv` | |
| `GatewayProofs` | `TheAnswerComesFirst` | no pump runs before its client knows the stream | `AnswerFirst` |
| | `TheEndComesLast` | the end of a stream comes after its data | `EOFAfterData` |
| | `StreamIDsAreUnique` | a session never lists two streams under one ID | |
| | `SessionsKeepTheirQuota` | a session lists at most `MaxStreams` streams | |
| | `ClosedSessionsListNothing` | a session that was closed lists nothing again | |
| | `Invariance` | `IInv` | |

**Assumptions.** The theorems use the `ASSUME`s of the modules and nothing else. TLC evaluates each on the module's run. Most give
the types of the constants and that a value that means "none" is not one of the
others. Those that say more:

- `QueueAssumption`: a channel has room for a packet, a packet is not empty, the
  workers are finitely many.
- `TunnelAssumption`: what a node knows of relays is finite, and the time that is left
  after the direct attempt is at least one unit per candidate. In the source 12 s are
  left for at most ten (`service.go`, `relay.go`), and a share is not rounded to nothing.
- `FriendshipAssumption`: two nodes, and the bound `MaxOrders` has room for the
  warm-ups, which it counts too.
- `RegistryAssumption`: a group has room for its founder (`HostMax >= 2`; the source
  has 254).
- `ServiceAssumption`: there is a probe, and an instance is none of the states of a user.
- `UpdateAssumption`: there is a release, the credential that is compiled into the
  program is for the first one, or there is none, and the first one can be executed. That the
  lock file can be used is not an `ASSUME`, as the model knows no other: the
  theorems about `SelfUpdate` hold where it can.
- `GatewayAssumption`: the queue of a client has room for a frame.

**Arguments.** None of the properties is inductive. What each needs besides:

- *Flow table.* That a peer has one live flow follows from where a flow can be: in the
  table, under the peer it belongs to (`TableOwn`); in the hands of one goroutine that
  has yet to install it (`Candidates`); or taken out and marked retired
  (`RetiringRetired`). `StartedAttached` ties a read loop to a flow that was installed,
  and `ClosedEmpty` says that `Close` leaves the table empty and that nothing is
  installed afterwards, because `attachFlow` looks at `closed` under the same lock.
  With these, `NoLeakedStream` survives the steps at which a stream changes hands,
  `QuietAfterClose` the wait for the read loops, and `WriteReachesPeer` the gap between
  look-up and write, as the re-check of line 689 compares with the table. For
  `FlowsLeaveRetired` it needs besides that a stream not yet installed is open, that
  nobody has retired it, and that the reaper has not taken it up (`CandidatesFit`): who fails,
  ends or is idle has been in the table before.
- *Queues.* `Wired`: while the router runs, a worker that is not about to end has the entry
  of its destination, and one that is about to end has nothing left. So at most one worker
  has packets of a destination (`OneLoaded`), the lane is that worker's queue with the
  packet it holds, and each step leaves all lanes, adds to one or takes from one. The budget
  is a fold over the workers of a fold over a queue; the folds are recursions, whose
  values were obtained as the one sum that does not depend on the order
  (`Adds`, `AddsSomehow`), by taking a least counterexample.
- *Tunnel.* `Gate` ties the counters to the sets of calls that are dialling and
  waiting, and the entry of a target to the one call that leads its dial. `TriedAll`
  says that the candidates not yet tried are still before the call, with a unit of time
  for each; a share is the time left divided by the number of candidates left, rounded down,
  and the lemma `ShareLeaves` shows that this leaves the others theirs.
- *Friendship.* `Gone` says that after a deletion a handler, a reconnection or a
  discovery that has passed the trust check still meets the guard, or there is none: the guard
  is lifted only when nothing overlaps it any more. `NoGhost` speaks of the nodes in
  `Calm` only. Both exceptions are needed: with a node that accepts automatically there is
  finding 2, and with a user who does not wait the way back of "Also seen".
- *Scheduler.* `Listed`, `OnePlace` and `ListedFor`: a call in the queue or with a worker is the
  one that the table lists for its peer, and is in one place. `Waiting` and `Woken` say
  what a caller knows of the call it waits for, from which it follows that good news of a call
  that did not carry the flag is not taken for an answer.
- *Addresses.* `Table` is the specification of the incremental resolver: leases, owners,
  counter and known conflicts are functions of the members of now. That `Taken`, which is
  recursive over the peers, has a solution and depends on the members only is proved by
  the least peer for which it would not. With `LifeImplementsTable` all of it holds of the
  member table as well.
- *Service and seeds.* `OneHolder`: an instance that has been made is closed, or exactly one
  of the field, a goroutine and a caller will close it. `AllMet`: the rows marked as met, what was
  handed on and what is connected were all met. `Gate`: an exchange's peer is in
  cooldown as long as it lasts, so no peer is admitted twice.
- *Registry.* `Sound` (tables well formed after every statement, indexes fit
  them), `Kept` and `Shown` (a promise is in the tables and in the map). One lemma about
  `Perform` (`PerformIs`) takes care of failure and death; for each operation remains that
  its trace, what it does to the indexes and what it promises are as `Careful` says. For
  `RestartsChangeNothing` each operation is shown to leave, field by field, the indexes that
  `Rebuilt` gives for the tables after its last statement (`Indexes`, `Rosters`,
  `IndexesRebuilt`); an operation that cannot be whole is one whose rows are there already.
- *Update.* `UpdateInv` says what the six files hold at each step of a helper
  (`Contents`). The hard part is that a helper whose program would not start goes on to
  put the backup back while anything may have been started beside it. `OneOwner` (the lock)
  does not exclude this, as the lock is let go before the program is started; what does is
  that the helper has taken the marker away by then, that no actor puts another one there before
  it is done, and that no other helper applies anything without one (`OnlyOne`). `InHand`
  says that the program in place can be executed or a helper is about to mend it. So a file is
  overwritten only while another holds a good program, whichever step a crash falls on.
  "Good" is that it can be executed: it may have been altered before its digest was
  taken. `Sound` carries the second half of `NothingLost`: a program that was damaged after
  that is neither marked nor running, and is not in the staged file when its digest is taken;
  from the comparison with the marker on, the lock keeps the staged file as it is (`Contents`).
- *Forwards.* `InLine`: somebody has yet to compare the listeners with the table
  (`Pending`), or one caller has compared and knows what is left to do (`Plans`), or each port
  is as the table has it (`Settled`). A caller that stores a table makes itself pending, so
  the one that is at work may finish for the table before; `lfReconcileMu` lets only one
  compare and work at a time (`OneAligns`).
- *Gateway.* The claim of `AnswerFirst` is about a pump, but a pump is started by one
  session for the stream of another. So the invariant says to whom a stream belongs until its
  first pump runs (`Young`): to one reader that opens it or answers for it (`Dialling`), or
  to the dispatcher of the services (`Dispatching`), and never to two of them; that it can be
  let go of by `closeAllStreams` of either session meanwhile is why `Dialling` does not
  say that it is listed. `Drained` is `EOFAfterData` for ends that are no longer read.
  `OneStreamPerID` stands as it is: `track` refuses an ID that is listed, and nothing else
  lists one. For the quota and for what is left of a session that was closed every step is
  shown to be one of three (`Moves`): it lists nothing more, it files one end that `track`
  lets in, or it is `closeAllStreams`; and what is listed keeps its session, as a stream is
  made of ends that nothing lists yet.

**Every invariant that a run checks is proved, without a hypothesis, and so is the action
property `LandedIsKept`.**

**Only model-checked, because out of the prover's reach.** The liveness properties, which
rest on fairness and `ENABLED` (`ForwardEnds`, `FlowGetsPump`, `StopReturns`, `FriendsMeet`,
`DeletionSpreads`, `RequestReturns`, `DeadStayDead`, `IsolationIsNoBan`, both `ComesBack`,
`SessionEnds`, `EndIsPassedOn`, `EverythingGoes`, `PlacesComeBack`, `BootstrapEnds`,
`NATsMeet`, and the part `Departs` of `ImplementsLanes`). What an
arbitrary recursion computes needs an induction over an operator; where it was
needed, the least counterexample replaced it. No module has a `RECURSIVE` operator.

## 5. Where the code does not do what it says

No run expects a violation. The properties below are stated as comments of the code
state them, and TLC refutes them, each with the instance named; they stand in their
modules, used by no run.

1. **A stale alias stops a destination for ever** (`ForwardReturns` of
   `RouterFlows`, `pkg/tundevice/router.go:689`; two peers, one change of the
   NetMap). `dialStream` files a flow under the peer the stream really reached, so
   that a stale NetMap still ends at the right peer (767). `forwardPacket` then
   re-checks the table with the peer of its earlier look-up. When the address has
   meanwhile moved, this never succeeds, and nothing clears the alias: the worker
   dials for ever and the packets behind it wait. `ForwardEnds` is the property
   without this case.
2. **A deleted node comes back** (`NoGhostAnywhere` of `Friendship`,
   `pkg/serverless/serverless.go:1693`; three orders, one node accepting automatically).
   A handler that has accepted a deleted node again deletes the guard later, without
   asking again. If the user deletes the node once more in between, the handler removes
   the new guard and puts the node into the table, against `sdk/go/lanet/peers.go:1091`
   and `serverless.go:2018-2022`. `NoGhost` is the property for the nodes that accept
   nobody unasked.
3. **A node whose trust is restored is refused** (`GuardSparesTrusted` of
   `Friendship`, `pkg/serverless/serverless.go:1765`; three orders). Approving a
   node (`peers.go:1027`) and adding one by address (`peers.go:791`,
   `client.go:873-883`) do not lift the guard, contrary to lines 1004 and 1996; for up to five minutes the trusted node's
   handshakes end without an answer.
4. **Two members on one address** (`UniqueAddresses` of `VirtualIPs`,
   `pkg/serverless/vaddr_conflict.go:189`; three members, three addresses). The
   addresses a loser may not take are those of the heads of conflicts only, not
   those of the whole table as line 185 says.
5. **A registry that does not start again** (`AlwaysComesBack` of `GroupRegistry`,
   `app/ctl/internal/logic/group/registry.go:445`; the instance of `group_restart`). A
   kick frees the address and then fails to delete the row; a join gives the
   address to another peer. From then on the restore finds two rows with one
   address and fails, at every start, whereas `store.go:13` promises that the
   service comes back as it was. The repair command, meant for this, begins with
   an empty file.
6. **The switch of the seed exchange starts nothing** (`SwitchTakesEffect` of
   `SeedExchange`, `pkg/serverless/seedex.go:192-193`, `sdk/go/lanet/seeds.go:167-170`; an
   instance of 8,640 states). The loop is started by `Run` alone
   (`serverless.go:1078`), which returns if no scope is on by then. The client does not
   pass the scopes to `New` (`client.go:486-512`), reads the settings 12 s after it
   is ready (`seeds.go:36`, 234-252), and the agent calls `Run` right after `New`
   (`main.go:455`); `EnableSeedExchange` (215) registers handlers and starts no
   loop. In the shipped node the loop never runs.

7. **A failed staging is not tried again** (`MayTryAgain` of `SelfUpdate`,
   `app/agent/cmd/pvn-node/p2pupdate.go:187`; the instance of `update_files`). The
   gate is released so that the next round may try again, but the attempt stays
   marked done in the coordinator.

Also seen while modelling:

*Router.* `router.go:771` and 1027 resolve an alias twice, on the two sides of a dial; it
can name another flow the second time. A dialling goroutine writes its first
packet (773, 788) before the read loop (783) has started. `reapIdle` decides
under the lock and retires outside it (484-493, 162), so it can retire a flow
that has just been written to.

*Friendship.* A deletion is marked as told before the answer that tells it has been
sent (`serverless.go:1703-1712` against 1663-1665). A client that is rejected removes
the member without setting a guard (1476-1487), and a late rejection can remove a
node that has been added again. With users who do not wait for an order to end,
the late write of the order before can undo the guard of the next.

*Addresses and members.* The node's own address is not part of its arbitration (516
against `vaddr_conflict.go:298-302`). A third member can change the decision
between two others (20-21), and a conflict that has ended still counts (243-247,
472-482 against 241-242, 415-417). The quarantine is kept in memory only, and once
full it stays so until the process ends. Provider records are not bounded.

*Tunnel.* The streams that waiting calls open are not recorded as relayed or direct,
so the path that is shown may be an older one. A call that waited is refused at
the limit of active dials although a connection stands.

*Public DHT and seeds.* The timer of an instance looks whether it is still the current
one and then retires whatever is current; so does a late goroutine of
`retirePublicDHT`. Two nodes that ask each other at the same time refuse each
other, as one gate serves both directions, and back off for an hour. The scopes
share the cooldown. `PruneTrustedSeeds` is never called. An exchange replaces the
addresses of a seed that was verified with others, and these are then handed on.
`EvictSeeds` counts and deletes in two statements.

*Control plane.* The second migration cannot be run twice, though `migrate.go:24` says
that each can: a crash before its record needs the repair command. A `Create`
whose second insert fails leaves a group without members. A `Join` whose
version update fails has the member in the file and not in memory. A member
that joins again is refused by the primary key.

*Self-update.* The digest in the marker is that of the staged file as `stageNewBinary` reads
it back (`update.go:768-773`), not the one that was verified: damage between the renaming and
this reading is not noticed, and the damaged program is put in place. A node that still runs
its old image may stage a program older than the
one in place. The file `.old` is removed when a node comes up, so that after an undo
that failed the last good copy may go. A helper that starts over after a failed
undo overwrites `.rollback`. Putting the backup back after a failed start is done without
the lock. If no helper can be spawned the gate stays closed until the node
ends. A release that cannot be started is fetched and taken back again and
again.

*Gateway.* `FullyHalfClosed` counts the closings of one end only
(`bridge_pipe.go:28`, 143-148): a bridge whose ends were both half-closed stays
listed, and 128 of them use up the limit. A pump that has seen the end of its
stream does not learn that the partner died. A client's own stream IDs and those of the
server both start at 1; where they meet, the bridge is refused. A deferred `untrack` may
remove a newer stream of the same ID. A reader that is blocked in a write to a mesh
stream does not notice a reset.

*Client.* A `New` that is cancelled inside `disc.Start` returns before the service is
in its field, so that the roll-back (`client.go:386`) leaves it open (513-520).
Saving the state file is not serialised. An accept loop that ends on a temporary error
leaves a listener in the list that accepts nothing. `Discovery.running` is never
reset.

## 6. What is left out

*Inside the modelled parts.* Packet contents, checks of source addresses,
statistics and logging in the router. Member data and the order of the console's
lists in `Friendship`. Blocked addresses and reporting in `VirtualIPs`. The exact
backoff of the scheduler. `Reconnect` and `RequestConnect` in `MemberLife`: they
insert without asking the quarantine, and are in `Friendship`. Path records, and
dialling a remembered circuit address, in `TunnelService`. The cooldown of
control exchanges and the life of proofs, the private DHT and mDNS in
`DiscoveryService`; the second scope, the addresses of a seed and the exclusion of
friends in `SeedExchange`, where saving the switch (three writes, then a read) is
one step. Corrupt database files and expired invitations in `GroupRegistry`. In
`SelfUpdate` the vote of the peers is its outcome (any of the newer releases that
are offered), and the release of the lock and the exit of the process are one
step; the start of a node without the lock, where the lock file cannot be opened or
locked for another reason than that it is busy (`main.go:193-197`, `singleton.go:77-97`),
is left out. Such a node may run beside another, and a helper that does get the lock may
move its files and its marker: what `OffersItself` and `LandedIsKept` say is not
claimed there. A staged file is not damaged while a helper applies it. `Run` and the HTTP handlers in `ClientNode`; the quota of a listener may
refuse at any time.

*Whole parts.* The TUN device, framing, invites and keys are byte layout and
cryptography. The libp2p host and its reachability are configuration of a
library. Tray, service and logs of the agent are operating system integration.
The web console, the SDKs in other languages and the tools keep no state of the
mesh.

## 7. Plan

The core of the mesh, the addresses, the tunnel, the seeds, the control plane, the update,
the gateway and the forwards are modelled, checked and proved about. What
would come next:

- The second scope of the seeds, and the exclusion of friends from it.
