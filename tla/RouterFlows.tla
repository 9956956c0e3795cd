---------------------------- MODULE RouterFlows ----------------------------
(***************************************************************************)
(* The flow table of one Router (pkg/tundevice/router.go).                 *)
(*                                                                         *)
(* A Router keeps one duplex stream ("flow") per remote peer, indexed by   *)
(* PeerID, and an alias index from virtual addresses to PeerIDs.  One      *)
(* outbound worker per destination address looks the peer up, obtains the  *)
(* flow (dialling it if there is none, one dial per peer at a time),       *)
(* re-checks it and writes.  Inbound streams enter the same table through  *)
(* the same arbitration.  Every published flow is read by one pump         *)
(* goroutine, an idle reaper retires unused flows, and Close() stops it    *)
(* all.  Each action below is one critical section of r.mu, one atomic     *)
(* operation on a flow, or one call on a stream.                           *)
(*                                                                         *)
(* PeerIDs are naturals: arbitration only compares them.  A packet is its  *)
(* destination address.  Packet bytes, deadlines and logging are left out. *)
(***************************************************************************)
EXTENDS Naturals, FiniteSets

CONSTANTS
  Self,          \* r.selfID
  Peers,         \* the remote PeerIDs
  Addrs,         \* virtual addresses (IPv4 and IPv6 alike)
  Busy,          \* the destinations this host sends to: one outbound worker each
  Streams,       \* stream identities; one is recycled once nothing refers to it
  NoPeer, NoFlow,
  FlowLimit,     \* maxOutboundWorkers, as the bound on len(r.flows)
  InitialAddrs,  \* the NetMap at start: the addresses of each member
  MaxDisturbances  \* bound: changes of the NetMap, and events: inbound streams, streams
                   \* broken by the network, idle scans

ASSUME RouterAssumption ==
  /\ Self \in Nat /\ Peers \subseteq Nat /\ Self \notin Peers
  /\ Busy \subseteq Addrs
  /\ NoPeer \notin Peers /\ NoFlow \notin Streams
  /\ FlowLimit \in Nat /\ MaxDisturbances \in Nat
  /\ InitialAddrs \in [Peers -> SUBSET Addrs]

VARIABLES
  members,       \* the NetMap: the virtual addresses of every member
  flows,         \* r.flows
  flowByAddr,    \* r.flowByAddr
  dialing,       \* the keys of r.dialing
  closed,        \* r.closed
  closeDone,     \* r.closeDone has been closed
  taken,         \* the flows Close() took from the table and has not reset yet
  peerOf, initiator, addrs, retired,   \* the fields of a peerFlow
  pump,          \* its read loop: "none", "reading", "delivering" or "done"
  conn,          \* its stream: "none", "open", or "closed" by this end (Close or Reset)
  retiring,      \* retireFlow has won the CAS, its critical section is to come
  arrived,       \* inbound streams whose handler has not reached installFlow
  greeting,      \* inbound flows installed, ensurePump still to come
  stale,         \* what reapIdle collected and has not retired yet
  pc, target, names, remote, got,      \* control and locals of the workers
  moves, events  \* what counts for the bound

table == <<flows, flowByAddr, dialing>>
life  == <<closed, closeDone, taken>>
ident == <<peerOf, initiator>>
local == <<target, names, remote, got>>
bound == <<moves, events>>
vars  == <<members, table, life, ident, addrs, retired, pump, conn, retiring,
           arrived, greeting, stale, pc, local, bound>>

PumpStates == {"none", "reading", "delivering", "done"}
ConnStates == {"none", "open", "closed"}
Labels == {"idle", "backfill", "flow", "wait", "opening", "install", "pump",
           "recheck", "write"}

Init ==
  /\ members = InitialAddrs
  /\ flows = [p \in Peers |-> NoFlow]
  /\ flowByAddr = [x \in Addrs |-> NoPeer]
  /\ dialing = {}
  /\ closed = FALSE /\ closeDone = FALSE /\ taken = {}
  /\ peerOf = [s \in Streams |-> NoPeer]
  /\ initiator = [s \in Streams |-> Self]
  /\ addrs = [s \in Streams |-> {}]
  /\ retired = [s \in Streams |-> FALSE]
  /\ pump = [s \in Streams |-> "none"]
  /\ conn = [s \in Streams |-> "none"]
  /\ retiring = {} /\ arrived = {} /\ greeting = {} /\ stale = {}
  /\ pc = [a \in Busy |-> "idle"]
  /\ target = [a \in Busy |-> NoPeer]
  /\ names = [a \in Busy |-> {}]
  /\ remote = [a \in Busy |-> NoPeer]
  /\ got = [a \in Busy |-> NoFlow]
  /\ moves = 0 /\ events = 0

-----------------------------------------------------------------------------
(* Streams and the NetMap *)

Undisturbed == moves + events < MaxDisturbances

\* Service.PeerRoute over Discovery.Resolve: an address claimed by two members,
\* or by none, is not routable.
Owner(x) ==
  LET claims == {p \in Peers : x \in members[p]}
  IN  IF Cardinality(claims) = 1 THEN CHOOSE p \in claims : TRUE ELSE NoPeer

InTable(s) == \E p \in Peers : flows[p] = s

\* Nothing in the router refers to s: its identity may name a new stream.
Fresh(s) ==
  /\ conn[s] # "open"
  /\ pump[s] \in {"none", "done"}
  /\ s \notin taken \union retiring \union arrived
              \union greeting \union stale
  /\ ~InTable(s)
  /\ \A a \in Busy : got[a] # s

\* newPeerFlow on a stream just opened with p.
NewFlow(s, p, first, names4and6) ==
  /\ Fresh(s)
  /\ conn' = [conn EXCEPT ![s] = "open"]
  /\ peerOf' = [peerOf EXCEPT ![s] = p]
  /\ initiator' = [initiator EXCEPT ![s] = first]
  /\ addrs' = [addrs EXCEPT ![s] = names4and6]
  /\ retired' = [retired EXCEPT ![s] = FALSE]
  /\ pump' = [pump EXCEPT ![s] = "none"]

\* The members table changes under the router: members come and go, and the address
\* arbitration rewrites the addresses of all of them in one critical section.
Move ==
  /\ Undisturbed
  /\ moves' = moves + 1
  /\ members' \in [Peers -> SUBSET Addrs] \ {members}
  /\ UNCHANGED <<table, life, ident, addrs, retired, pump, conn, retiring,
                 arrived, greeting, stale, pc, local, events>>

-----------------------------------------------------------------------------
(* The alias index *)

Purge(index, p) == [x \in Addrs |-> IF index[x] = p THEN NoPeer ELSE index[x]]

\* An address that is bound is never taken over.
MergeAddrs(index, p, xs) ==
  [x \in Addrs |-> IF x \in xs /\ index[x] = NoPeer THEN p ELSE index[x]]

Unbound(index, xs) == {x \in xs : index[x] = NoPeer}

-----------------------------------------------------------------------------
(* Retirement *)

\* retireFlow, its CAS: only the first caller goes on.
Retire(s) ==
  /\ retired' = [retired EXCEPT ![s] = TRUE]
  /\ retiring' = IF retired[s] THEN retiring ELSE retiring \union {s}

\* retireFlow, its critical section and the Close or Reset of the stream that follows
\* it: between the two nobody reads what the section wrote together with the stream.
Unlink(s) ==
  /\ s \in retiring
  /\ retiring' = retiring \ {s}
  /\ LET p == peerOf[s]
     IN  IF flows[p] = s
         THEN /\ flows' = [flows EXCEPT ![p] = NoFlow]
              /\ flowByAddr' = Purge(flowByAddr, p)
         ELSE UNCHANGED <<flows, flowByAddr>>
  /\ conn' = [conn EXCEPT ![s] = "closed"]
  /\ UNCHANGED <<members, dialing, life, ident, addrs, retired, pump, arrived,
                 greeting, stale, pc, local, bound>>

-----------------------------------------------------------------------------
(* Arbitration *)

\* Between streams of the same initiator only a redial by the remote replaces.
CandidateWins(e, c) ==
  e # NoFlow =>
    \/ retired[e]
    \/ initiator[c] < initiator[e]
    \/ initiator[c] = initiator[e] /\ initiator[c] = peerOf[c] /\ initiator[c] # Self

Existing(s) == flows[peerOf[s]]

\* Mutant of Rejected: the closed router still installs.
RejectedOpen(s) ==
  Existing(s) = NoFlow /\ Cardinality({p \in Peers : flows[p] # NoFlow}) >= FlowLimit

\* installFlow refuses: the router is closed, or full and the peer is new to it.
Rejected(s) ==
  \/ closed
  \/ /\ Existing(s) = NoFlow
     /\ Cardinality({p \in Peers : flows[p] # NoFlow}) >= FlowLimit

Loses(s) == ~Rejected(s) /\ ~CandidateWins(Existing(s), s)
Wins(s)  == ~Rejected(s) /\ CandidateWins(Existing(s), s)

\* installFlow when the router is closed or full: the stream is closed.
InstallRejected(s) ==
  /\ Rejected(s)
  /\ conn' = [conn EXCEPT ![s] = "closed"]
  /\ UNCHANGED <<flows, flowByAddr, addrs, retired>>

\* Mutant of InstallLost: the losing stream is forgotten without a Close.
InstallLeaked(s) ==
  /\ Loses(s)
  /\ flowByAddr' = MergeAddrs(flowByAddr, peerOf[s], addrs[s])
  /\ addrs' = [addrs EXCEPT ![Existing(s)] = @ \union Unbound(flowByAddr, addrs[s])]
  /\ UNCHANGED <<flows, retired, conn>>

\* installFlow when the flow in place stays: it inherits the loser's aliases.
InstallLost(s) ==
  /\ Loses(s)
  /\ LET e == Existing(s)
     IN  /\ flowByAddr' = MergeAddrs(flowByAddr, peerOf[s], addrs[s])
         /\ addrs' = [addrs EXCEPT ![e] = @ \union Unbound(flowByAddr, addrs[s])]
  /\ conn' = [conn EXCEPT ![s] = "closed"]
  /\ UNCHANGED <<flows, retired>>

\* Mutant of InstallWon: the replaced flow is not retired with the replacement.
InstallBeside(s) ==
  /\ Wins(s)
  /\ flows' = [flows EXCEPT ![peerOf[s]] = s]
  /\ flowByAddr' = MergeAddrs(Purge(flowByAddr, peerOf[s]), peerOf[s], addrs[s])
  /\ UNCHANGED <<addrs, retired, conn>>

\* installFlow when the candidate is published; a flow it replaces is retired in
\* the same critical section and closed after it.
InstallWon(s) ==
  /\ Wins(s)
  /\ LET e      == Existing(s)
         p      == peerOf[s]
         mine   == MergeAddrs(Purge(flowByAddr, p), p, addrs[s])
         legacy == IF e = NoFlow THEN {} ELSE addrs[e]
     IN  /\ flows' = [flows EXCEPT ![p] = s]
         /\ flowByAddr' = MergeAddrs(mine, p, legacy)
         /\ addrs' = [addrs EXCEPT ![s] = @ \union Unbound(mine, legacy)]
         /\ IF e = NoFlow
            THEN UNCHANGED <<retired, conn>>
            ELSE /\ retired' = [retired EXCEPT ![e] = TRUE]
                 /\ conn' = [conn EXCEPT ![e] = "closed"]

\* ensurePump: the CAS on pumped lets only one caller start the read loop.
EnsurePump(s) == pump' = [pump EXCEPT ![s] = IF @ = "none" THEN "reading" ELSE @]

-----------------------------------------------------------------------------
(* The outbound worker of destination a: forwardPacket *)

Goto(a, l) == pc' = [pc EXCEPT ![a] = l]

\* forwardPacket returns: the next packet starts from a clean frame.
Return(a) ==
  /\ Goto(a, "idle")
  /\ target' = [target EXCEPT ![a] = NoPeer]
  /\ got' = [got EXCEPT ![a] = NoFlow]

\* lookupPeer, alias hit.
LookupHit(a) ==
  /\ pc[a] = "idle" /\ ~closed
  /\ flowByAddr[a] # NoPeer
  /\ target' = [target EXCEPT ![a] = flowByAddr[a]]
  /\ Goto(a, "flow")
  /\ UNCHANGED <<members, table, life, ident, addrs, retired, pump, conn, retiring,
                 arrived, greeting, stale, names, remote, got, bound>>

\* lookupPeer, alias miss: the NetMap is read outside the lock.
LookupMiss(a) ==
  /\ pc[a] = "idle" /\ ~closed
  /\ flowByAddr[a] = NoPeer /\ Owner(a) # NoPeer
  /\ target' = [target EXCEPT ![a] = Owner(a)]
  /\ names' = [names EXCEPT ![a] = members[Owner(a)]]
  /\ Goto(a, "backfill")
  /\ UNCHANGED <<members, table, life, ident, addrs, retired, pump, conn, retiring,
                 arrived, greeting, stale, remote, got, bound>>

\* lookupPeer, second critical section.
Backfill(a) ==
  /\ pc[a] = "backfill"
  /\ names' = [names EXCEPT ![a] = {}]
  /\ \/ /\ closed
        /\ Return(a)
        /\ UNCHANGED flowByAddr
     \/ /\ ~closed /\ flowByAddr[a] # NoPeer
        /\ target' = [target EXCEPT ![a] = flowByAddr[a]]
        /\ Goto(a, "flow")
        /\ UNCHANGED <<flowByAddr, got>>
     \/ /\ ~closed /\ flowByAddr[a] = NoPeer
        /\ flowByAddr' = MergeAddrs(flowByAddr, target[a], names[a])
        /\ Goto(a, "flow")
        /\ UNCHANGED <<target, got>>
  /\ UNCHANGED <<members, flows, dialing, life, ident, addrs, retired, pump, conn,
                 retiring, arrived, greeting, stale, remote, bound>>

HasFlow(p) == flows[p] # NoFlow /\ ~retired[flows[p]]

\* flowTo, its critical section: a live flow, a dial to wait for, or a dial to make.
\* The dial resolves the destination again (OpenStreamToVirtualIP).
FlowTo(a) ==
  /\ pc[a] = "flow"
  /\ \/ /\ closed
        /\ Return(a)
        /\ UNCHANGED <<dialing, remote>>
     \/ /\ ~closed /\ HasFlow(target[a])
        /\ got' = [got EXCEPT ![a] = flows[target[a]]]
        /\ Goto(a, "recheck")
        /\ UNCHANGED <<dialing, target, remote>>
     \/ /\ ~closed /\ ~HasFlow(target[a]) /\ target[a] \in dialing
        /\ Goto(a, "wait")
        /\ UNCHANGED <<dialing, target, remote, got>>
     \/ /\ ~closed /\ ~HasFlow(target[a]) /\ target[a] \notin dialing
        /\ dialing' = dialing \union {target[a]}
        /\ remote' = [remote EXCEPT ![a] = Owner(a)]
        /\ Goto(a, "opening")
        /\ UNCHANGED <<target, got>>
  /\ UNCHANGED <<members, flows, flowByAddr, life, ident, addrs, retired, pump, conn,
                 retiring, arrived, greeting, stale, names, bound>>

\* flowTo, the wait for another caller's dial, or for the context to be cancelled.
Waited(a) ==
  /\ pc[a] = "wait"
  /\ \/ /\ target[a] \notin dialing /\ Goto(a, "flow")
        /\ UNCHANGED <<target, got>>
     \/ closed /\ Return(a)
  /\ UNCHANGED <<members, table, life, ident, addrs, retired, pump, conn, retiring,
                 arrived, greeting, stale, names, remote, bound>>

\* Mutant of DialFail: the error path leaves the call in r.dialing.
DialFailStuck(a) ==
  /\ pc[a] = "opening"
  /\ remote' = [remote EXCEPT ![a] = NoPeer]
  /\ Return(a)
  /\ UNCHANGED <<members, table, life, ident, addrs, retired, pump, conn, retiring,
                 arrived, greeting, stale, names, bound>>

\* The dial fails or times out; flowTo ends the single flight with the error.
DialFail(a) ==
  /\ pc[a] = "opening"
  /\ remote' = [remote EXCEPT ![a] = NoPeer]
  /\ dialing' = dialing \ {target[a]}
  /\ Return(a)
  /\ UNCHANGED <<members, flows, flowByAddr, life, ident, addrs, retired, pump, conn,
                 retiring, arrived, greeting, stale, names, bound>>

\* The stream is up.  The aliases come from yet another PeerRoute of the destination.
DialOpen(a) ==
  /\ pc[a] = "opening" /\ remote[a] # NoPeer
  /\ \E s \in Streams :
       /\ NewFlow(s, remote[a], Self,
                  IF Owner(a) = NoPeer THEN {} ELSE members[Owner(a)])
       /\ got' = [got EXCEPT ![a] = s]
  /\ remote' = [remote EXCEPT ![a] = NoPeer]
  /\ Goto(a, "install")
  /\ UNCHANGED <<members, table, life, retiring, arrived, greeting, stale, target,
                 names, bound>>

\* dialStream hands its candidate to installFlow and keeps what that returns; a
\* rejection ends the single flight with an error.
DialInstall(a) ==
  /\ pc[a] = "install"
  /\ \/ /\ InstallRejected(got[a])
        /\ dialing' = dialing \ {target[a]}
        /\ Return(a)
     \/ /\ InstallLost(got[a])
        /\ got' = [got EXCEPT ![a] = Existing(@)]
        /\ Goto(a, "pump")
        /\ UNCHANGED <<dialing, target>>
     \/ /\ InstallWon(got[a])
        /\ Goto(a, "pump")
        /\ UNCHANGED <<dialing, target, got>>
  /\ UNCHANGED <<members, life, ident, pump, retiring, arrived, greeting, stale,
                 names, remote, bound>>

\* Mutant of DialPump: the dialled flow gets no read loop (the regression of 0.5.96).
DialUnpumped(a) ==
  /\ pc[a] = "pump"
  /\ dialing' = dialing \ {target[a]}
  /\ Goto(a, "recheck")
  /\ UNCHANGED <<members, flows, flowByAddr, life, ident, addrs, retired, pump, conn,
                 retiring, arrived, greeting, stale, local, bound>>

\* dialStream starts the read loop; flowTo ends the single flight with the flow.
DialPump(a) ==
  /\ pc[a] = "pump"
  /\ EnsurePump(got[a])
  /\ dialing' = dialing \ {target[a]}
  /\ Goto(a, "recheck")
  /\ UNCHANGED <<members, flows, flowByAddr, life, ident, addrs, retired, conn,
                 retiring, arrived, greeting, stale, local, bound>>

\* Mutant of Recheck: only the flow is looked at, not whose flow it is.
RecheckFlowOnly(a) ==
  /\ pc[a] = "recheck"
  /\ IF ~retired[got[a]] /\ ~closed THEN Goto(a, "write") ELSE Goto(a, "flow")
  /\ UNCHANGED <<members, table, life, ident, addrs, retired, pump, conn, retiring,
                 arrived, greeting, stale, local, bound>>

\* forwardPacket re-checks under the lock that the flow is still the peer's flow,
\* and counts the write; otherwise it asks flowTo again.
Recheck(a) ==
  /\ pc[a] = "recheck"
  /\ IF flows[target[a]] = got[a] /\ ~retired[got[a]] /\ ~closed
     THEN Goto(a, "write") /\ UNCHANGED <<target, got>>
     ELSE IF closed THEN Return(a)
     ELSE /\ Goto(a, "flow")
          /\ got' = [got EXCEPT ![a] = NoFlow]
          /\ UNCHANGED target
  /\ UNCHANGED <<members, table, life, ident, addrs, retired, pump, conn, retiring,
                 arrived, greeting, stale, names, remote, bound>>

\* flow.writes: the writes in flight on s.
Writers(s) == {a \in Busy : pc[a] = "write" /\ got[a] = s}

\* The packet goes out (writeMu makes it one uninterrupted write).
WriteOK(a) ==
  /\ pc[a] = "write" /\ conn[got[a]] = "open"
  /\ Return(a)
  /\ UNCHANGED <<members, table, life, ident, addrs, retired, pump, conn, retiring,
                 arrived, greeting, stale, names, remote, bound>>

\* The write fails: on a stream closed here, broken by the network, or reset
\* because Close() has cancelled the worker's context.
WriteFail(a) ==
  /\ pc[a] = "write"
  /\ \/ conn[got[a]] # "open" /\ UNCHANGED <<conn, events>>
     \/ /\ conn[got[a]] = "open" /\ closed
        /\ conn' = [conn EXCEPT ![got[a]] = "closed"]
        /\ UNCHANGED events
     \/ /\ conn[got[a]] = "open" /\ Undisturbed
        /\ events' = events + 1
        /\ UNCHANGED conn
  /\ Retire(got[a])
  /\ Return(a)
  /\ UNCHANGED <<members, table, life, ident, addrs, pump, arrived,
                 greeting, stale, names, remote, moves>>

-----------------------------------------------------------------------------
(* Inbound streams: ServeInboundStreamAliases *)

\* A stream of a known member; an unknown one is closed without any effect.
Arrive(s) ==
  /\ Undisturbed /\ events' = events + 1
  /\ \E p \in Peers : members[p] # {} /\ NewFlow(s, p, p, members[p])
  /\ arrived' = arrived \union {s}
  /\ UNCHANGED <<members, table, life, retiring, greeting, stale, pc, local,
                 moves>>

InboundInstall(s) ==
  /\ s \in arrived
  /\ arrived' = arrived \ {s}
  /\ \/ InstallRejected(s) /\ UNCHANGED greeting
     \/ InstallLost(s) /\ UNCHANGED greeting
     \/ InstallWon(s) /\ greeting' = greeting \union {s}
  /\ UNCHANGED <<members, dialing, life, ident, pump, retiring, stale, pc, local,
                 bound>>

InboundPump(s) ==
  /\ s \in greeting
  /\ greeting' = greeting \ {s}
  /\ EnsurePump(s)
  /\ UNCHANGED <<members, table, life, ident, addrs, retired, conn, retiring,
                 arrived, stale, pc, local, bound>>

-----------------------------------------------------------------------------
(* The read loop: pumpFromStream *)

\* Data came: a retired flow delivers nothing more.
PumpRead(s) ==
  /\ pump[s] = "reading" /\ conn[s] \in {"open", "closed"}
  /\ pump' = [pump EXCEPT ![s] = IF retired[s] THEN "done" ELSE "delivering"]
  /\ UNCHANGED <<members, table, life, ident, addrs, retired, conn, retiring,
                 arrived, greeting, stale, pc, local, bound>>

PumpDeliver(s) ==
  /\ pump[s] = "delivering"
  /\ pump' = [pump EXCEPT ![s] = "reading"]
  /\ UNCHANGED <<members, table, life, ident, addrs, retired, conn, retiring,
                 arrived, greeting, stale, pc, local, bound>>

\* The read ends with EOF or an error; the loop retires its flow on the way out.
PumpExit(s) ==
  /\ pump[s] = "reading"
  /\ \/ conn[s] # "open" /\ UNCHANGED events
     \/ conn[s] = "open" /\ Undisturbed /\ events' = events + 1
  /\ pump' = [pump EXCEPT ![s] = "done"]
  /\ Retire(s)
  /\ UNCHANGED <<members, table, life, ident, addrs, conn, arrived,
                 greeting, stale, pc, local, moves>>

-----------------------------------------------------------------------------
(* The idle reaper *)

\* reapIdle collects under the lock flows without a write in flight and retires them
\* after it.  Which flows have been idle for streamIdle is left open; that this
\* happens is an event of the bound, for a flow just opened cannot be idle for long.
ReapScan ==
  /\ stale = {} /\ ~closed
  /\ Undisturbed /\ events' = events + 1
  /\ \E S \in SUBSET {s \in Streams : InTable(s) /\ Writers(s) = {}} :
       S # {} /\ stale' = S
  /\ UNCHANGED <<members, table, life, ident, addrs, retired, pump, conn, retiring,
                 arrived, greeting, pc, local, moves>>

ReapRetire(s) ==
  /\ s \in stale
  /\ stale' = stale \ {s}
  /\ Retire(s)
  /\ UNCHANGED <<members, table, life, ident, addrs, pump, conn, arrived,
                 greeting, pc, local, bound>>

-----------------------------------------------------------------------------
(* Close *)

CloseBegin ==
  /\ ~closed
  /\ closed' = TRUE
  /\ taken' = {s \in Streams : InTable(s)}
  /\ flows' = [p \in Peers |-> NoFlow]
  /\ flowByAddr' = [x \in Addrs |-> NoPeer]
  /\ UNCHANGED <<members, dialing, closeDone, ident, addrs, retired, pump, conn,
                 retiring, arrived, greeting, stale, pc, local, bound>>

\* Close(), for each flow it took: retired and reset.
CloseReset(s) ==
  /\ s \in taken
  /\ taken' = taken \ {s}
  /\ retired' = [retired EXCEPT ![s] = TRUE]
  /\ conn' = [conn EXCEPT ![s] = "closed"]
  /\ UNCHANGED <<members, table, closed, closeDone, ident, addrs, pump, retiring,
                 arrived, greeting, stale, pc, local, bound>>

\* workers.Wait() and pumps.Wait() return.  Inbound handlers are not waited for.
CloseEnd ==
  /\ closed /\ ~closeDone /\ taken = {} /\ stale = {} /\ retiring = {}
  /\ \A a \in Busy : pc[a] = "idle"
  /\ \A s \in Streams : pump[s] \in {"none", "done"}
  /\ closeDone' = TRUE
  /\ UNCHANGED <<members, table, closed, taken, ident, addrs, retired, pump, conn,
                 retiring, arrived, greeting, stale, pc, local, bound>>

-----------------------------------------------------------------------------

Worker(a) ==
  \/ Backfill(a) \/ FlowTo(a) \/ Waited(a) \/ DialFail(a) \/ DialOpen(a)
  \/ DialInstall(a) \/ DialPump(a) \/ Recheck(a)
  \/ WriteOK(a) \/ WriteFail(a)

Packet(a) == LookupHit(a) \/ LookupMiss(a)

Retirement(s) == Unlink(s) \/ ReapRetire(s)
Inbound(s)    == InboundInstall(s) \/ InboundPump(s)
Pump(s)       == PumpRead(s) \/ PumpDeliver(s) \/ PumpExit(s)
Closing       == CloseEnd \/ \E s \in Streams : CloseReset(s)

Next ==
  \/ Move \/ ReapScan \/ CloseBegin \/ Closing
  \/ \E a \in Busy : Packet(a) \/ Worker(a)
  \/ \E s \in Streams : Arrive(s) \/ Inbound(s) \/ Retirement(s) \/ Pump(s)

Spec == Init /\ [][Next]_vars

\* Goroutines that can run do run; a dial and a read on a stream closed here end
\* (totalDialTimeout, the local Close).  A worker that waits for the dial of another is
\* woken, and gets its turn between two dials of the other.  Nothing is assumed of the kernel's packets,
\* of the network, of the NetMap or of the caller of Close().
Fairness ==
  /\ \A a \in Busy :
       /\ WF_vars(Worker(a)) /\ SF_vars(Waited(a))
       /\ SF_vars(FlowTo(a) /\ target[a] \notin dialing)
  /\ \A s \in Streams :
       /\ WF_vars(Inbound(s)) /\ WF_vars(PumpDeliver(s))
       /\ WF_vars(Unlink(s)) /\ WF_vars(ReapRetire(s))
       /\ WF_vars(PumpExit(s) /\ conn[s] # "open")
  /\ WF_vars(CloseEnd) /\ \A s \in Streams : WF_vars(CloseReset(s))

FairSpec == Spec /\ Fairness

-----------------------------------------------------------------------------
(* Properties *)

\* Every variable keeps its type; a worker past the lookup has a peer, and past flowTo a
\* flow ("a flow or an error" is what flowTo returns).
TypeOK ==
  /\ members \in [Peers -> SUBSET Addrs]
  /\ flows \in [Peers -> Streams \union {NoFlow}]
  /\ flowByAddr \in [Addrs -> Peers \union {NoPeer}]
  /\ dialing \subseteq Peers
  /\ closed \in BOOLEAN /\ closeDone \in BOOLEAN
  /\ peerOf \in [Streams -> Peers \union {NoPeer}]
  /\ initiator \in [Streams -> Peers \union {Self}]
  /\ addrs \in [Streams -> SUBSET Addrs]
  /\ retired \in [Streams -> BOOLEAN]
  /\ pump \in [Streams -> PumpStates]
  /\ conn \in [Streams -> ConnStates]
  /\ taken \subseteq Streams /\ retiring \subseteq Streams
  /\ arrived \subseteq Streams /\ greeting \subseteq Streams /\ stale \subseteq Streams
  /\ pc \in [Busy -> Labels]
  /\ target \in [Busy -> Peers \union {NoPeer}]
  /\ names \in [Busy -> SUBSET Addrs]
  /\ remote \in [Busy -> Peers \union {NoPeer}]
  /\ got \in [Busy -> Streams \union {NoFlow}]
  /\ moves \in Nat /\ events \in Nat
  /\ \A a \in Busy :
       /\ pc[a] # "idle" => target[a] \in Peers
       /\ pc[a] \in {"install", "pump", "recheck", "write"} => got[a] \in Streams

\* s is read into the TUN device: its read loop runs and it is not retired.
Live(s) == pump[s] \in {"reading", "delivering"} /\ ~retired[s]

\* A peer never has two live flows: whatever dials, inbound streams, failures and
\* reaping overlap, its packets cannot enter the host twice (router.go: "at any
\* moment there is one and only one live duplex stream per peer").
OneLiveFlow ==
  \A s, t \in Streams : Live(s) /\ Live(t) /\ peerOf[s] = peerOf[t] => s = t

\* No stream is left open behind the router's back: an open stream is in the table,
\* in the hands of a goroutine that will install it, or on its way to being closed.
NoLeakedStream ==
  \A s \in Streams : conn[s] = "open" =>
    \/ InTable(s)
    \/ s \in arrived \union retiring \union taken
    \/ \E a \in Busy : pc[a] = "install" /\ got[a] = s

\* Once Close() has returned no read loop delivers into the device it closed, not even
\* one started late by an inbound handler that Close() does not wait for.
QuietAfterClose ==
  closeDone => \A s \in Streams : pump[s] # "delivering"

\* A packet is written to a flow of the peer its address was looked up to be, however
\* the table and the NetMap changed in between.
WriteReachesPeer ==
  \A a \in Busy : pc[a] = "write" => peerOf[got[a]] = target[a]

\* Every packet handed to forwardPacket is written, refused or failed, unless the NetMap
\* changes.  (If it does, a worker may dial for ever: dialStream files the flow under the
\* peer that the address belongs to now, and the worker looks under the one it had been.)
ForwardEnds == \A a \in Busy : (pc[a] # "idle") ~> (pc[a] = "idle" \/ moves > 0)

\* The same without the exception does not hold.
ForwardReturns == \A a \in Busy : (pc[a] # "idle") ~> (pc[a] = "idle")

\* A published flow is read, or replaced: no flow stays write-only.
FlowGetsPump ==
  \A p \in Peers, s \in Streams :
    (flows[p] = s /\ pump[s] = "none") ~> (flows[p] # s \/ pump[s] # "none")

=============================================================================
