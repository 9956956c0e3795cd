------------------------- MODULE RouterFlowsProofs -------------------------
(* What is proved of RouterFlows, for every value of its constants. *)
EXTENDS RouterFlows, FiniteSetTheorems, TLAPS

\* s is known to nobody but the goroutine that is about to install it.
Candidate(s) ==
  /\ peerOf[s] \in Peers /\ pump[s] = "none"
  /\ ~InTable(s) /\ s \notin taken \union greeting

\* Every stream on its way to installFlow is a candidate, of one goroutine.
Candidates ==
  /\ \A s \in arrived : Candidate(s) /\ \A a \in Busy : got[a] # s
  /\ \A a \in Busy : pc[a] = "install" =>
       /\ Candidate(got[a])
       /\ \A b \in Busy : got[b] = got[a] => b = a

\* The table holds a flow under its own peer.
TableOwn == \A p \in Peers : flows[p] # NoFlow => peerOf[flows[p]] = p

Attached(s) == InTable(s) \/ s \in taken

\* s is read, or some goroutine is about to start its read loop.
Started(s) ==
  \/ pump[s] \in {"reading", "delivering"}
  \/ s \in greeting
  \/ \E a \in Busy : pc[a] = "pump" /\ got[a] = s

\* A flow that is read is in the table, or Close() holds it, or it is retired.
StartedAttached ==
  \A s \in Streams : Started(s) /\ ~retired[s] => Attached(s)

RetiringRetired == \A s \in retiring : retired[s]

\* Close() leaves the table empty; only it takes flows, one of each peer.
ClosedEmpty ==
  /\ closed => \A p \in Peers : flows[p] = NoFlow
  /\ ~closed => taken = {} /\ ~closeDone
  /\ closeDone => taken = {}
  /\ \A s, t \in taken : peerOf[s] = peerOf[t] => s = t

\* The inductive invariant.
IInv ==
  /\ TypeOK /\ TableOwn /\ Candidates /\ StartedAttached /\ RetiringRetired
  /\ ClosedEmpty /\ NoLeakedStream /\ QuietAfterClose /\ WriteReachesPeer

\* PeerRoute names a member or nobody.
LEMMA OwnerType ==
  ASSUME NEW x PROVE Owner(x) \in Peers \union {NoPeer}
<1> DEFINE claims == {p \in Peers : x \in members[p]}
<1>1. CASE Cardinality(claims) = 1
  <2>1. claims # {}
    BY <1>1, FS_EmptySet
  <2>2. (CHOOSE p \in claims : TRUE) \in Peers
    BY <2>1
  <2> QED
    BY <1>1, <2>2 DEF Owner
<1>2. CASE Cardinality(claims) # 1
  BY <1>2 DEF Owner
<1> QED
  BY <1>1, <1>2

\* installFlow keeps the types of the table and of the flows.
LEMMA InstallType ==
  ASSUME TypeOK, NEW s \in Streams, Candidate(s),
         InstallRejected(s) \/ InstallLost(s) \/ InstallWon(s)
  PROVE  /\ flows' \in [Peers -> Streams \union {NoFlow}]
         /\ flowByAddr' \in [Addrs -> Peers \union {NoPeer}]
         /\ addrs' \in [Streams -> SUBSET Addrs]
         /\ retired' \in [Streams -> BOOLEAN] /\ conn' \in [Streams -> ConnStates]
<1> USE DEF TypeOK, Candidate, ConnStates
<1>1. CASE InstallRejected(s)
  BY <1>1 DEF InstallRejected
<1>2. CASE InstallLost(s)
  <2>1. MergeAddrs(flowByAddr, peerOf[s], addrs[s]) \in [Addrs -> Peers \union {NoPeer}]
    BY DEF MergeAddrs
  <2>2. Unbound(flowByAddr, addrs[s]) \subseteq Addrs
    BY DEF Unbound
  <2> QED
    BY <1>2, <2>1, <2>2 DEF InstallLost
<1>3. CASE InstallWon(s)
  <2> DEFINE e      == Existing(s)
             mine   == MergeAddrs(Purge(flowByAddr, peerOf[s]), peerOf[s], addrs[s])
             legacy == IF e = NoFlow THEN {} ELSE addrs[e]
  <2>1. mine \in [Addrs -> Peers \union {NoPeer}]
    BY DEF MergeAddrs, Purge
  <2>2. legacy \subseteq Addrs
    BY DEF Existing
  <2>3. MergeAddrs(mine, peerOf[s], legacy) \in [Addrs -> Peers \union {NoPeer}]
    <3> HIDE DEF mine, legacy
    <3> QED BY <2>1 DEF MergeAddrs
  <2>4. Unbound(mine, legacy) \subseteq Addrs
    <3> HIDE DEF mine, legacy
    <3> QED BY <2>2 DEF Unbound
  <2>5. /\ flows' = [flows EXCEPT ![peerOf[s]] = s]
        /\ flowByAddr' = MergeAddrs(mine, peerOf[s], legacy)
        /\ addrs' = [addrs EXCEPT ![s] = @ \union Unbound(mine, legacy)]
        /\ \/ UNCHANGED <<retired, conn>>
           \/ /\ retired' = [retired EXCEPT ![e] = TRUE]
              /\ conn' = [conn EXCEPT ![e] = "closed"]
    BY <1>3 DEF InstallWon
  <2> HIDE DEF mine, legacy, e
  <2> QED
    BY <2>3, <2>4, <2>5
<1> QED
  BY <1>1, <1>2, <1>3

\* A refused stream is closed and nothing else changes.
LEMMA InstallRejectedEffect ==
  ASSUME IInv, NEW s \in Streams, Candidate(s), InstallRejected(s)
  PROVE  /\ conn'[s] # "open" /\ UNCHANGED <<flows, retired>>
         /\ \A t \in Streams : InTable(t)' <=> InTable(t)
         /\ \A t \in Streams : conn'[t] = "open" => conn[t] = "open"
BY DEF IInv, TypeOK, InstallRejected, InTable

\* A stream that loses is closed; the flow it lost against is in the table.
LEMMA InstallLostEffect ==
  ASSUME IInv, NEW s \in Streams, Candidate(s), InstallLost(s)
  PROVE  /\ Existing(s) \in Streams /\ InTable(Existing(s))
         /\ conn'[s] # "open" /\ UNCHANGED <<flows, retired>>
         /\ \A t \in Streams : InTable(t)' <=> InTable(t)
         /\ \A t \in Streams : conn'[t] = "open" => conn[t] = "open"
BY DEF IInv, TypeOK, InstallLost, Loses, CandidateWins, Existing, InTable, Candidate

\* A stream that wins is in the table, and the flow that was there is retired and closed.
LEMMA InstallWonEffect ==
  ASSUME IInv, NEW s \in Streams, Candidate(s), InstallWon(s)
  PROVE  /\ InTable(s)'
         /\ \A t \in Streams : InTable(t) /\ ~retired'[t] => InTable(t)'
         /\ \A t \in Streams : retired[t] => retired'[t]
         /\ \A t \in Streams : t # s /\ InTable(t)' => InTable(t)
         /\ \A t \in Streams : conn'[t] = "open" => conn[t] = "open" /\ (InTable(t) => InTable(t)')
<1> DEFINE e == Existing(s)
<1>1. /\ flows' = [flows EXCEPT ![peerOf[s]] = s]
      /\ IF e = NoFlow THEN UNCHANGED <<retired, conn>>
         ELSE /\ retired' = [retired EXCEPT ![e] = TRUE]
              /\ conn' = [conn EXCEPT ![e] = "closed"]
  BY DEF InstallWon
<1>2. peerOf[s] \in Peers /\ e = flows[peerOf[s]]
  BY DEF Candidate, Existing
<1>3. \A t \in Streams : InTable(t) /\ t # e => InTable(t)'
  BY <1>1, <1>2 DEF IInv, TypeOK, InTable
<1>4. \A t \in Streams : t # s /\ InTable(t)' => InTable(t)
  BY <1>1, <1>2 DEF IInv, TypeOK, InTable
<1>5. e # NoFlow => e \in Streams
  BY <1>2 DEF IInv, TypeOK
<1>6. InTable(s)'
  BY <1>1, <1>2 DEF IInv, TypeOK, InTable
<1> HIDE DEF e
<1> QED
  BY <1>1, <1>3, <1>4, <1>5, <1>6, RouterAssumption DEF IInv, TypeOK


\* A change of the NetMap touches nothing the router keeps.
LEMMA MoveStep ==
  ASSUME IInv, Move
  PROVE  IInv'
<1>1. TypeOK'
  BY RouterAssumption DEF IInv, TypeOK, Labels, PumpStates, ConnStates, Move, table,
     life, ident, local
<1>2. (/\ TableOwn /\ Candidates /\ StartedAttached /\ RetiringRetired
       /\ ClosedEmpty /\ NoLeakedStream /\ QuietAfterClose /\ WriteReachesPeer)'
  BY DEF IInv, TableOwn, Candidates, StartedAttached, RetiringRetired, ClosedEmpty,
     NoLeakedStream, QuietAfterClose, WriteReachesPeer, Candidate, InTable, Started,
     Attached, Move, table, life, ident, local
<1> QED BY <1>1, <1>2 DEF IInv

\* The second half of retireFlow takes out of the table only a retired flow, and closes it.
LEMMA UnlinkStep ==
  ASSUME IInv, NEW s \in Streams, Unlink(s)
  PROVE  IInv'
<1>1. TypeOK'
  BY RouterAssumption DEF IInv, TypeOK, Labels, PumpStates, ConnStates, Unlink, Purge,
     life, ident, local, bound
<1>2. TableOwn'
  BY DEF IInv, TypeOK, TableOwn, Unlink, Purge, life, ident, local, bound
<1>3. Candidates'
  BY RouterAssumption DEF IInv, TypeOK, Candidates, Candidate, InTable, Unlink, Purge,
     life, ident, local, bound
<1>4. StartedAttached'
  BY RouterAssumption DEF IInv, TypeOK, StartedAttached, Started, Attached, InTable,
     RetiringRetired, Unlink, life, local, bound
<1>5. RetiringRetired'
  BY DEF IInv, TypeOK, RetiringRetired, Unlink, Purge, life, ident, local, bound
<1>6. ClosedEmpty'
  BY DEF IInv, TypeOK, ClosedEmpty, InTable, Unlink, Purge, life, ident, local, bound
<1>7. NoLeakedStream'
  BY DEF IInv, TypeOK, NoLeakedStream, InTable, Unlink, Purge, life, ident, local, bound
<1>8. (QuietAfterClose /\ WriteReachesPeer)'
  BY DEF IInv, QuietAfterClose, WriteReachesPeer, Unlink, life, ident, local, bound
<1> QED BY <1>1, <1>2, <1>3, <1>4, <1>5, <1>6, <1>7, <1>8 DEF IInv

\* An alias hit only chooses the peer.
LEMMA LookupHitStep ==
  ASSUME IInv, NEW a \in Busy, LookupHit(a)
  PROVE  IInv'
<1>1. TypeOK'
  BY RouterAssumption DEF IInv, TypeOK, Labels, PumpStates, ConnStates, LookupHit, Goto,
     table, life, ident, bound
<1>2. Candidates'
  BY DEF IInv, TypeOK, Candidates, Candidate, InTable, LookupHit, Goto, table, life,
     ident, bound
<1>3. StartedAttached'
  BY DEF IInv, TypeOK, StartedAttached, Started, Attached, InTable, LookupHit, Goto,
     table, life, ident, bound
<1>4. NoLeakedStream'
  BY DEF IInv, TypeOK, NoLeakedStream, InTable, LookupHit, Goto, table, life, ident,
     bound
<1>5. WriteReachesPeer'
  BY DEF IInv, TypeOK, WriteReachesPeer, LookupHit, Goto, table, life, ident, bound
<1>6. (TableOwn /\ RetiringRetired /\ ClosedEmpty /\ QuietAfterClose)'
  BY DEF IInv, TableOwn, RetiringRetired, ClosedEmpty, QuietAfterClose, InTable,
     LookupHit, table, life, ident, bound
<1> QED BY <1>1, <1>2, <1>3, <1>4, <1>5, <1>6 DEF IInv

\* An alias miss takes the peer from the NetMap.
LEMMA LookupMissStep ==
  ASSUME IInv, NEW a \in Busy, LookupMiss(a)
  PROVE  IInv'
<1>1. TypeOK'
  <2>1. Owner(a) \in Peers
    BY OwnerType DEF IInv, TypeOK, LookupMiss
  <2>2. target' \in [Busy -> Peers \union {NoPeer}] /\ names' \in [Busy -> SUBSET Addrs]
    BY <2>1 DEF IInv, TypeOK, LookupMiss
  <2>3. pc' \in [Busy -> Labels]
    BY DEF IInv, TypeOK, LookupMiss, Goto, Labels
  <2> QED
    BY <2>1, <2>2, <2>3 DEF IInv, TypeOK, LookupMiss, Goto, table, life, ident, bound
<1>2. Candidates'
  BY DEF IInv, TypeOK, Candidates, Candidate, InTable, LookupMiss, Goto, table, life,
     ident, bound
<1>3. StartedAttached'
  BY DEF IInv, TypeOK, StartedAttached, Started, Attached, InTable, LookupMiss, Goto,
     table, life, ident, bound
<1>4. NoLeakedStream'
  BY DEF IInv, TypeOK, NoLeakedStream, InTable, LookupMiss, Goto, table, life, ident,
     bound
<1>5. WriteReachesPeer'
  BY DEF IInv, TypeOK, WriteReachesPeer, LookupMiss, Goto, table, life, ident, bound
<1>6. (TableOwn /\ RetiringRetired /\ ClosedEmpty /\ QuietAfterClose)'
  BY DEF IInv, TableOwn, RetiringRetired, ClosedEmpty, QuietAfterClose, InTable,
     LookupMiss, table, life, ident, bound
<1> QED BY <1>1, <1>2, <1>3, <1>4, <1>5, <1>6 DEF IInv

\* The backfill binds aliases, never flows.
LEMMA BackfillStep ==
  ASSUME IInv, NEW a \in Busy, Backfill(a)
  PROVE  IInv'
<1>1. TypeOK'
  BY RouterAssumption DEF IInv, TypeOK, Labels, PumpStates, ConnStates, Backfill, Goto,
     Return, MergeAddrs, life, ident, bound
<1>2. Candidates'
  BY RouterAssumption DEF IInv, TypeOK, Candidates, Candidate, InTable, Backfill, Goto,
     Return, MergeAddrs, life, ident, bound
<1>3. StartedAttached'
  BY DEF IInv, TypeOK, StartedAttached, Started, Attached, InTable, Backfill, Goto,
     Return, MergeAddrs, life, ident, bound
<1>4. NoLeakedStream'
  BY DEF IInv, TypeOK, NoLeakedStream, InTable, Backfill, Goto, Return, MergeAddrs,
     life, ident, bound
<1>5. WriteReachesPeer'
  BY DEF IInv, TypeOK, WriteReachesPeer, Backfill, Goto, Return, MergeAddrs, life,
     ident, bound
<1>6. (TableOwn /\ RetiringRetired /\ ClosedEmpty /\ QuietAfterClose)'
  BY DEF IInv, TableOwn, RetiringRetired, ClosedEmpty, QuietAfterClose, InTable,
     Backfill, life, ident, bound
<1> QED BY <1>1, <1>2, <1>3, <1>4, <1>5, <1>6 DEF IInv

\* flowTo hands out the flow in the table, which is nobody's candidate.
LEMMA FlowToStep ==
  ASSUME IInv, NEW a \in Busy, FlowTo(a)
  PROVE  IInv'
<1>1. TypeOK'
  <2>1. target[a] \in Peers
    BY DEF IInv, TypeOK, FlowTo
  <2>2. Owner(a) \in Peers \union {NoPeer}
    BY OwnerType DEF IInv, TypeOK
  <2>3. CASE ~closed /\ HasFlow(target[a])
    BY <2>1, <2>3 DEF IInv, TypeOK, FlowTo, Goto, HasFlow, Labels, life, ident, bound
  <2>4. CASE closed \/ ~HasFlow(target[a])
    <3>1. dialing' \subseteq Peers /\ remote' \in [Busy -> Peers \union {NoPeer}]
      BY <2>1, <2>2, <2>4 DEF IInv, TypeOK, FlowTo
    <3>2. /\ pc' \in [Busy -> Labels] /\ got' \in [Busy -> Streams \union {NoFlow}]
          /\ target' \in [Busy -> Peers \union {NoPeer}]
          /\ \A b \in Busy :
               /\ pc'[b] # "idle" => target'[b] \in Peers
               /\ pc'[b] \in {"install", "pump", "recheck", "write"} => got'[b] \in Streams
      BY <2>1, <2>4 DEF IInv, TypeOK, FlowTo, Goto, Return, Labels
    <3> QED
      BY <3>1, <3>2 DEF IInv, TypeOK, FlowTo, life, ident, bound
  <2> QED
    BY <2>3, <2>4
<1>2. Candidates'
  <2>1. target[a] \in Peers
    BY DEF IInv, TypeOK, FlowTo
  <2>2. UNCHANGED <<arrived, peerOf, pump, flows, taken, greeting>>
    BY DEF FlowTo, life, ident
  <2>3. CASE ~closed /\ HasFlow(target[a])
    <3>1. InTable(flows[target[a]])
      BY <2>1 DEF InTable
    <3>2. /\ got' = [got EXCEPT ![a] = flows[target[a]]]
          /\ pc' = [pc EXCEPT ![a] = "recheck"]
      BY <2>3 DEF FlowTo, Goto
    <3> QED
      BY <2>2, <3>1, <3>2 DEF IInv, TypeOK, Candidates, Candidate, InTable
  <2>4. CASE closed \/ ~HasFlow(target[a])
    <3>1. /\ got' = got \/ got' = [got EXCEPT ![a] = NoFlow]
          /\ \E l \in Labels \ {"install"} : pc' = [pc EXCEPT ![a] = l]
      BY <2>4 DEF FlowTo, Goto, Return, Labels
    <3> QED
      BY <2>2, <3>1, RouterAssumption
      DEF IInv, TypeOK, Candidates, Candidate, InTable, Labels
  <2> QED
    BY <2>3, <2>4
<1>3. StartedAttached'
  BY DEF IInv, TypeOK, StartedAttached, Started, Attached, InTable, FlowTo, Goto,
     Return, HasFlow, life, ident, bound
<1>4. NoLeakedStream'
  BY DEF IInv, TypeOK, NoLeakedStream, InTable, FlowTo, Goto, Return, HasFlow, life,
     ident, bound
<1>5. WriteReachesPeer'
  BY DEF IInv, TypeOK, WriteReachesPeer, FlowTo, Goto, Return, HasFlow, life, ident,
     bound
<1>6. (TableOwn /\ RetiringRetired /\ ClosedEmpty /\ QuietAfterClose)'
  BY DEF IInv, TableOwn, RetiringRetired, ClosedEmpty, QuietAfterClose, InTable, FlowTo,
     life, ident, bound
<1> QED BY <1>1, <1>2, <1>3, <1>4, <1>5, <1>6 DEF IInv

\* A waiter only looks again.
LEMMA WaitedStep ==
  ASSUME IInv, NEW a \in Busy, Waited(a)
  PROVE  IInv'
<1>1. TypeOK'
  BY RouterAssumption DEF IInv, TypeOK, Labels, PumpStates, ConnStates, Waited, Goto,
     Return, table, life, ident, bound
<1>2. Candidates'
  BY RouterAssumption DEF IInv, TypeOK, Candidates, Candidate, InTable, Waited, Goto,
     Return, table, life, ident, bound
<1>3. StartedAttached'
  BY DEF IInv, TypeOK, StartedAttached, Started, Attached, InTable, Waited, Goto,
     Return, table, life, ident, bound
<1>4. NoLeakedStream'
  BY DEF IInv, TypeOK, NoLeakedStream, InTable, Waited, Goto, Return, table, life,
     ident, bound
<1>5. WriteReachesPeer'
  BY DEF IInv, TypeOK, WriteReachesPeer, Waited, Goto, Return, table, life, ident, bound
<1>6. (TableOwn /\ RetiringRetired /\ ClosedEmpty /\ QuietAfterClose)'
  BY DEF IInv, TableOwn, RetiringRetired, ClosedEmpty, QuietAfterClose, InTable, Waited,
     table, life, ident, bound
<1> QED BY <1>1, <1>2, <1>3, <1>4, <1>5, <1>6 DEF IInv

\* A failed dial leaves no stream.
LEMMA DialFailStep ==
  ASSUME IInv, NEW a \in Busy, DialFail(a)
  PROVE  IInv'
<1>1. TypeOK'
  BY RouterAssumption DEF IInv, TypeOK, Labels, PumpStates, ConnStates, DialFail, Goto,
     Return, life, ident, bound
<1>2. Candidates'
  BY RouterAssumption DEF IInv, TypeOK, Candidates, Candidate, InTable, DialFail, Goto,
     Return, life, ident, bound
<1>3. StartedAttached'
  BY DEF IInv, TypeOK, StartedAttached, Started, Attached, InTable, DialFail, Goto,
     Return, life, ident, bound
<1>4. NoLeakedStream'
  BY DEF IInv, TypeOK, NoLeakedStream, InTable, DialFail, Goto, Return, life, ident,
     bound
<1>5. WriteReachesPeer'
  BY DEF IInv, TypeOK, WriteReachesPeer, DialFail, Goto, Return, life, ident, bound
<1>6. (TableOwn /\ RetiringRetired /\ ClosedEmpty /\ QuietAfterClose)'
  BY DEF IInv, TableOwn, RetiringRetired, ClosedEmpty, QuietAfterClose, InTable,
     DialFail, life, ident, bound
<1> QED BY <1>1, <1>2, <1>3, <1>4, <1>5, <1>6 DEF IInv

\* A dial takes a fresh stream: it is a candidate of this worker alone.
LEMMA DialOpenStep ==
  ASSUME IInv, NEW a \in Busy, DialOpen(a)
  PROVE  IInv'
<1>1. TypeOK'
  <2>1. remote[a] \in Peers /\ Owner(a) \in Peers \union {NoPeer}
    BY OwnerType DEF IInv, TypeOK, DialOpen
  <2>2. PICK s \in Streams :
          /\ NewFlow(s, remote[a], Self,
                     IF Owner(a) = NoPeer THEN {} ELSE members[Owner(a)])
          /\ got' = [got EXCEPT ![a] = s]
    BY DEF DialOpen
  <2>3. addrs' \in [Streams -> SUBSET Addrs]
    BY <2>1, <2>2 DEF IInv, TypeOK, NewFlow
  <2>4. /\ peerOf' \in [Streams -> Peers \union {NoPeer}]
        /\ initiator' \in [Streams -> Peers \union {Self}]
        /\ retired' \in [Streams -> BOOLEAN]
        /\ pump' \in [Streams -> PumpStates] /\ conn' \in [Streams -> ConnStates]
    BY <2>1, <2>2 DEF IInv, TypeOK, NewFlow, PumpStates, ConnStates
  <2> QED
    BY <2>1, <2>2, <2>3, <2>4 DEF IInv, TypeOK, DialOpen, Goto, Labels, table, life,
       bound
<1>2. TableOwn'
  <2>1. remote[a] \in Peers
    BY DEF IInv, TypeOK, DialOpen
  <2>2. PICK s \in Streams : ~InTable(s) /\ peerOf' = [peerOf EXCEPT ![s] = remote[a]]
    BY DEF DialOpen, NewFlow, Fresh
  <2> QED
    BY <2>1, <2>2 DEF IInv, TypeOK, TableOwn, InTable, DialOpen, table
<1>3. Candidates'
  BY DEF IInv, TypeOK, Candidates, Candidate, InTable, DialOpen, Goto, NewFlow, Fresh,
     table, life, bound
<1>4. StartedAttached'
  BY DEF IInv, TypeOK, StartedAttached, Started, Attached, InTable, DialOpen, Goto,
     NewFlow, Fresh, table, life, bound
<1>5. RetiringRetired'
  BY DEF IInv, TypeOK, RetiringRetired, DialOpen, Goto, NewFlow, Fresh, table, life,
     bound
<1>6. ClosedEmpty'
  BY DEF IInv, TypeOK, ClosedEmpty, InTable, DialOpen, Goto, NewFlow, Fresh, table,
     life, bound
<1>7. NoLeakedStream'
  BY DEF IInv, TypeOK, NoLeakedStream, InTable, DialOpen, Goto, NewFlow, Fresh, table,
     life, bound
<1>8. QuietAfterClose'
  BY DEF IInv, TypeOK, QuietAfterClose, DialOpen, Goto, NewFlow, Fresh, table, life,
     bound
<1>9. WriteReachesPeer'
  BY DEF IInv, TypeOK, WriteReachesPeer, DialOpen, Goto, NewFlow, Fresh, table, life,
     bound
<1> QED BY <1>1, <1>2, <1>3, <1>4, <1>5, <1>6, <1>7, <1>8, <1>9 DEF IInv

\* The dialled stream is closed, or loses to the flow in the table, or replaces it.
LEMMA DialInstallStep ==
  ASSUME IInv, NEW a \in Busy, DialInstall(a)
  PROVE  IInv'
<1>1. TypeOK'
  <2>1. PICK c \in Streams : c = got[a] /\ Candidate(c)
    BY DEF IInv, TypeOK, Candidates, DialInstall
  <2>2. InstallRejected(c) \/ InstallLost(c) \/ InstallWon(c)
    BY <2>1 DEF DialInstall
  <2>3. /\ flows' \in [Peers -> Streams \union {NoFlow}]
        /\ flowByAddr' \in [Addrs -> Peers \union {NoPeer}]
        /\ addrs' \in [Streams -> SUBSET Addrs]
        /\ retired' \in [Streams -> BOOLEAN] /\ conn' \in [Streams -> ConnStates]
    BY <2>1, <2>2, InstallType DEF IInv
  <2>4. InstallLost(c) => Existing(c) \in Streams
    BY <2>1, InstallLostEffect
  <2>5. /\ pc' \in [Busy -> Labels] /\ target' \in [Busy -> Peers \union {NoPeer}]
        /\ got' \in [Busy -> Streams \union {NoFlow}]
        /\ \A b \in Busy :
             /\ pc'[b] # "idle" => target'[b] \in Peers
             /\ pc'[b] \in {"install", "pump", "recheck", "write"} => got'[b] \in Streams
    BY <2>1, <2>4 DEF IInv, TypeOK, DialInstall, Goto, Return, Labels
  <2>6. dialing' \subseteq Peers
    BY DEF IInv, TypeOK, DialInstall
  <2> QED
    BY <2>3, <2>5, <2>6 DEF IInv, TypeOK, DialInstall, life, ident, bound
<1>2. TableOwn'
  BY DEF IInv, TypeOK, TableOwn, DialInstall, Goto, Return, InstallRejected,
     InstallLost, InstallWon, Loses, Wins, Rejected, CandidateWins, Existing, life,
     ident, bound
<1>3. Candidates'
  <2>1. PICK c \in Streams :
          /\ c = got[a] /\ Candidate(c) /\ c \notin arrived
          /\ \A b \in Busy : got[b] = c => b = a
    BY DEF IInv, TypeOK, Candidates, DialInstall
  <2>2. UNCHANGED <<arrived, peerOf, pump, taken, greeting>>
    BY DEF DialInstall, life, ident
  <2>3. \A t \in Streams : t # c /\ InTable(t)' => InTable(t)
    BY <2>1, InstallRejectedEffect, InstallLostEffect, InstallWonEffect DEF DialInstall
  <2>4. \A b \in Busy \ {a} : pc'[b] = pc[b] /\ got'[b] = got[b]
    BY DEF IInv, TypeOK, DialInstall, Goto, Return
  <2>5. pc'[a] # "install"
    BY DEF IInv, TypeOK, DialInstall, Goto, Return
  <2>6. got'[a] \in Streams => got'[a] = c \/ InTable(got'[a])
    BY <2>1, InstallLostEffect, RouterAssumption DEF IInv, TypeOK, DialInstall, Return
  <2>7. \A t \in Streams : t # c /\ Candidate(t) => Candidate(t)'
    BY <2>2, <2>3 DEF Candidate
  <2>8. \A t \in arrived : Candidate(t)' /\ \A b \in Busy : got'[b] # t
    BY <2>1, <2>4, <2>6, <2>7 DEF IInv, TypeOK, Candidates, Candidate
  <2>9. ASSUME NEW b \in Busy, pc'[b] = "install"
        PROVE  Candidate(got[b])' /\ \A d \in Busy : got'[d] = got'[b] => d = b
    <3>1. b # a /\ pc[b] = "install" /\ got[b] \in Streams
      BY <2>4, <2>5, <2>9 DEF IInv, TypeOK
    <3>2. got[b] # c /\ Candidate(got[b]) /\ \A d \in Busy : got[d] = got[b] => d = b
      BY <2>1, <3>1 DEF IInv, Candidates
    <3> QED
      BY <2>4, <2>6, <2>7, <3>1, <3>2 DEF Candidate
  <2> QED
    BY <2>2, <2>8, <2>9 DEF Candidates
<1>4. StartedAttached'
  <2>1. PICK c \in Streams : c = got[a] /\ Candidate(c)
    BY DEF IInv, TypeOK, Candidates, DialInstall
  <2>2. UNCHANGED <<pump, taken>>
    BY DEF DialInstall, life
  <2>3. CASE InstallRejected(c)
    <3>1. UNCHANGED <<flows, retired, greeting>>
      BY <2>3 DEF DialInstall, InstallRejected, InstallLost, InstallWon, Loses, Wins
    <3>2. \A t \in Streams : Started(t)' => Started(t)
      BY <2>1, <2>2, <2>3, <3>1 DEF IInv, TypeOK, Started, DialInstall, InstallRejected,
         InstallLost, InstallWon, Loses, Wins, Goto, Return, local
    <3> QED
      BY <2>2, <3>1, <3>2 DEF IInv, StartedAttached, Attached, InTable
  <2>4. CASE InstallLost(c)
    <3>1. UNCHANGED <<flows, retired>> /\ InTable(Existing(c))
      BY <2>1, <2>4, InstallLostEffect
    <3>2. \A t \in Streams : Started(t)' => Started(t) \/ t = Existing(c)
      BY <2>1, <2>2, <2>4, <3>1 DEF IInv, TypeOK, Started, DialInstall, InstallRejected,
         InstallLost, InstallWon, Loses, Wins, Goto, Return, local
    <3> QED
      BY <2>2, <3>1, <3>2 DEF IInv, StartedAttached, Attached, InTable
  <2>5. CASE InstallWon(c)
    <3>1. /\ InTable(c)'
          /\ \A t \in Streams : InTable(t) /\ ~retired'[t] => InTable(t)'
          /\ \A t \in Streams : retired[t] => retired'[t]
      BY <2>1, <2>5, InstallWonEffect
    <3>2. \A t \in Streams : Started(t)' => Started(t) \/ t = c
      BY <2>1, <2>2, <2>5 DEF IInv, TypeOK, Started, DialInstall, InstallRejected,
         InstallLost, InstallWon, Loses, Wins, Goto, Return, local
    <3> QED
      BY <2>2, <3>1, <3>2 DEF IInv, TypeOK, StartedAttached, Attached
  <2> QED
    BY <2>1, <2>3, <2>4, <2>5 DEF DialInstall
<1>5. RetiringRetired'
  BY DEF IInv, TypeOK, RetiringRetired, DialInstall, Goto, Return, InstallRejected,
     InstallLost, InstallWon, Loses, Wins, Rejected, CandidateWins, Existing, life,
     ident, bound
<1>6. ClosedEmpty'
  BY DEF IInv, TypeOK, ClosedEmpty, InTable, DialInstall, Goto, Return, InstallRejected,
     InstallLost, InstallWon, Loses, Wins, Rejected, CandidateWins, Existing, life,
     ident, bound
<1>7. NoLeakedStream'
  <2>1. PICK c \in Streams : c = got[a] /\ Candidate(c)
    BY DEF IInv, TypeOK, Candidates, DialInstall
  <2>2. UNCHANGED <<retiring, taken>>
    BY DEF DialInstall, life
  <2>3. \A t \in Streams : conn'[t] = "open" => conn[t] = "open" /\ (InTable(t) => InTable(t)')
    BY <2>1, InstallRejectedEffect, InstallLostEffect, InstallWonEffect DEF DialInstall
  <2>4. conn'[c] = "open" => InTable(c)'
    BY <2>1, InstallRejectedEffect, InstallLostEffect, InstallWonEffect DEF DialInstall
  <2>5. \A t \in Streams :
          t # c /\ (\E b \in Busy : pc[b] = "install" /\ got[b] = t)
            => \E b \in Busy : pc'[b] = "install" /\ got'[b] = t
    BY <2>1 DEF IInv, TypeOK, DialInstall, Goto, Return, local
  <2>6. arrived' = arrived
    BY DEF DialInstall
  <2> QED
    BY <2>2, <2>3, <2>4, <2>5, <2>6 DEF IInv, NoLeakedStream
<1>8. WriteReachesPeer'
  BY DEF IInv, TypeOK, WriteReachesPeer, DialInstall, Goto, Return, InstallRejected,
     InstallLost, InstallWon, Loses, Wins, Rejected, CandidateWins, Existing, life,
     ident, bound
<1>9. (QuietAfterClose)'
  BY DEF IInv, QuietAfterClose, DialInstall, life, ident, bound
<1> QED BY <1>1, <1>2, <1>3, <1>4, <1>5, <1>6, <1>7, <1>8, <1>9 DEF IInv

\* The read loop is started on a flow that is attached or retired.
LEMMA DialPumpStep ==
  ASSUME IInv, NEW a \in Busy, DialPump(a)
  PROVE  IInv'
<1>1. TypeOK'
  BY RouterAssumption DEF IInv, TypeOK, Labels, PumpStates, ConnStates, DialPump, Goto,
     EnsurePump, life, ident, local, bound
<1>2. Candidates'
  BY DEF IInv, TypeOK, Candidates, Candidate, InTable, DialPump, Goto, EnsurePump, life,
     ident, local, bound
<1>3. StartedAttached'
  BY DEF IInv, TypeOK, StartedAttached, Started, Attached, InTable, DialPump, Goto,
     EnsurePump, life, ident, local, bound
<1>4. NoLeakedStream'
  BY DEF IInv, TypeOK, NoLeakedStream, InTable, DialPump, Goto, EnsurePump, life, ident,
     local, bound
<1>5. QuietAfterClose'
  BY DEF IInv, TypeOK, QuietAfterClose, DialPump, Goto, EnsurePump, life, ident, local,
     bound
<1>6. WriteReachesPeer'
  BY DEF IInv, TypeOK, WriteReachesPeer, DialPump, Goto, EnsurePump, life, ident, local,
     bound
<1>7. (TableOwn /\ RetiringRetired /\ ClosedEmpty)'
  BY DEF IInv, TableOwn, RetiringRetired, ClosedEmpty, InTable, DialPump, life, ident,
     local, bound
<1> QED BY <1>1, <1>2, <1>3, <1>4, <1>5, <1>6, <1>7 DEF IInv

\* A flow that passes the re-check is in the table under the target.
LEMMA RecheckStep ==
  ASSUME IInv, NEW a \in Busy, Recheck(a)
  PROVE  IInv'
<1>1. TypeOK'
  BY RouterAssumption DEF IInv, TypeOK, Labels, PumpStates, ConnStates, Recheck, Goto,
     Return, table, life, ident, bound
<1>2. Candidates'
  BY RouterAssumption DEF IInv, TypeOK, Candidates, Candidate, InTable, Recheck, Goto,
     Return, table, life, ident, bound
<1>3. StartedAttached'
  BY DEF IInv, TypeOK, StartedAttached, Started, Attached, InTable, Recheck, Goto,
     Return, table, life, ident, bound
<1>4. NoLeakedStream'
  BY DEF IInv, TypeOK, NoLeakedStream, InTable, Recheck, Goto, Return, table, life,
     ident, bound
<1>5. WriteReachesPeer'
  <2>1. target[a] \in Peers /\ got[a] \in Streams
    BY DEF IInv, TypeOK, Recheck
  <2>2. CASE flows[target[a]] = got[a] /\ ~retired[got[a]] /\ ~closed
    <3>1. peerOf[got[a]] = target[a]
      BY <2>1, <2>2, RouterAssumption DEF IInv, TableOwn
    <3> QED
      BY <2>2, <3>1 DEF IInv, TypeOK, WriteReachesPeer, Recheck, Goto, ident
  <2>3. CASE ~(flows[target[a]] = got[a] /\ ~retired[got[a]] /\ ~closed)
    BY <2>3 DEF IInv, TypeOK, WriteReachesPeer, Recheck, Goto, Return, ident
  <2> QED
    BY <2>2, <2>3
<1>6. (TableOwn /\ RetiringRetired /\ ClosedEmpty /\ QuietAfterClose)'
  BY DEF IInv, TableOwn, RetiringRetired, ClosedEmpty, QuietAfterClose, InTable,
     Recheck, table, life, ident, bound
<1> QED BY <1>1, <1>2, <1>3, <1>4, <1>5, <1>6 DEF IInv

\* A write that succeeds changes nothing.
LEMMA WriteOKStep ==
  ASSUME IInv, NEW a \in Busy, WriteOK(a)
  PROVE  IInv'
<1>1. TypeOK'
  BY RouterAssumption DEF IInv, TypeOK, Labels, PumpStates, ConnStates, WriteOK, Goto,
     Return, table, life, ident, bound
<1>2. Candidates'
  BY RouterAssumption DEF IInv, TypeOK, Candidates, Candidate, InTable, WriteOK, Goto,
     Return, table, life, ident, bound
<1>3. StartedAttached'
  BY DEF IInv, TypeOK, StartedAttached, Started, Attached, InTable, WriteOK, Goto,
     Return, table, life, ident, bound
<1>4. NoLeakedStream'
  BY DEF IInv, TypeOK, NoLeakedStream, InTable, WriteOK, Goto, Return, table, life,
     ident, bound
<1>5. WriteReachesPeer'
  BY DEF IInv, TypeOK, WriteReachesPeer, WriteOK, Goto, Return, table, life, ident,
     bound
<1>6. (TableOwn /\ RetiringRetired /\ ClosedEmpty /\ QuietAfterClose)'
  BY DEF IInv, TableOwn, RetiringRetired, ClosedEmpty, QuietAfterClose, InTable,
     WriteOK, table, life, ident, bound
<1> QED BY <1>1, <1>2, <1>3, <1>4, <1>5, <1>6 DEF IInv

\* A write that fails retires its flow.
LEMMA WriteFailStep ==
  ASSUME IInv, NEW a \in Busy, WriteFail(a)
  PROVE  IInv'
<1>1. TypeOK'
  BY RouterAssumption DEF IInv, TypeOK, Labels, PumpStates, ConnStates, WriteFail, Goto,
     Return, Retire, table, life, ident
<1>2. Candidates'
  BY RouterAssumption DEF IInv, TypeOK, Candidates, Candidate, InTable, WriteFail, Goto,
     Return, Retire, table, life, ident
<1>3. StartedAttached'
  BY DEF IInv, TypeOK, StartedAttached, Started, Attached, InTable, WriteFail, Goto,
     Return, Retire, table, life, ident
<1>4. RetiringRetired'
  BY DEF IInv, TypeOK, RetiringRetired, WriteFail, Goto, Return, Retire, table, life,
     ident
<1>5. NoLeakedStream'
  BY DEF IInv, TypeOK, NoLeakedStream, InTable, WriteFail, Goto, Return, Retire, table,
     life, ident
<1>6. WriteReachesPeer'
  BY DEF IInv, TypeOK, WriteReachesPeer, WriteFail, Goto, Return, Retire, table, life,
     ident
<1>7. (TableOwn /\ ClosedEmpty /\ QuietAfterClose)'
  BY DEF IInv, TableOwn, ClosedEmpty, QuietAfterClose, InTable, WriteFail, table, life,
     ident
<1> QED BY <1>1, <1>2, <1>3, <1>4, <1>5, <1>6, <1>7 DEF IInv

\* An inbound stream is fresh: a candidate of its handler alone.
LEMMA ArriveStep ==
  ASSUME IInv, NEW s \in Streams, Arrive(s)
  PROVE  IInv'
<1>1. TypeOK'
  BY RouterAssumption DEF IInv, TypeOK, Labels, PumpStates, ConnStates, Arrive, NewFlow,
     Fresh, table, life, local
<1>2. TableOwn'
  <2>1. PICK p \in Peers : ~InTable(s) /\ peerOf' = [peerOf EXCEPT ![s] = p]
    BY DEF Arrive, NewFlow, Fresh
  <2> QED
    BY <2>1 DEF IInv, TypeOK, TableOwn, InTable, Arrive, table
<1>3. Candidates'
  BY DEF IInv, TypeOK, Candidates, Candidate, InTable, Arrive, NewFlow, Fresh, table,
     life, local
<1>4. StartedAttached'
  BY DEF IInv, TypeOK, StartedAttached, Started, Attached, InTable, Arrive, NewFlow,
     Fresh, table, life, local
<1>5. RetiringRetired'
  BY DEF IInv, TypeOK, RetiringRetired, Arrive, NewFlow, Fresh, table, life, local
<1>6. ClosedEmpty'
  BY DEF IInv, TypeOK, ClosedEmpty, InTable, Arrive, NewFlow, Fresh, table, life, local
<1>7. NoLeakedStream'
  BY DEF IInv, TypeOK, NoLeakedStream, InTable, Arrive, NewFlow, Fresh, table, life,
     local
<1>8. QuietAfterClose'
  BY DEF IInv, TypeOK, QuietAfterClose, Arrive, NewFlow, Fresh, table, life, local
<1>9. WriteReachesPeer'
  BY DEF IInv, TypeOK, WriteReachesPeer, Arrive, NewFlow, Fresh, table, life, local
<1> QED BY <1>1, <1>2, <1>3, <1>4, <1>5, <1>6, <1>7, <1>8, <1>9 DEF IInv

\* The inbound stream is closed, or loses, or replaces the flow in the table.
LEMMA InboundInstallStep ==
  ASSUME IInv, NEW s \in Streams, InboundInstall(s)
  PROVE  IInv'
<1>1. TypeOK'
  <2>1. s \in Streams /\ Candidate(s)
    BY DEF IInv, TypeOK, Candidates, InboundInstall
  <2>2. InstallRejected(s) \/ InstallLost(s) \/ InstallWon(s)
    BY <2>1 DEF InboundInstall
  <2>3. /\ flows' \in [Peers -> Streams \union {NoFlow}]
        /\ flowByAddr' \in [Addrs -> Peers \union {NoPeer}]
        /\ addrs' \in [Streams -> SUBSET Addrs]
        /\ retired' \in [Streams -> BOOLEAN] /\ conn' \in [Streams -> ConnStates]
    BY <2>1, <2>2, InstallType DEF IInv
  <2> QED
    BY <2>3 DEF IInv, TypeOK, InboundInstall, life, ident, local, bound
<1>2. TableOwn'
  BY DEF IInv, TypeOK, TableOwn, InboundInstall, InstallRejected, InstallLost,
     InstallWon, Loses, Wins, Rejected, CandidateWins, Existing, life, ident, local,
     bound
<1>3. Candidates'
  BY DEF IInv, TypeOK, Candidates, Candidate, InTable, InboundInstall, InstallRejected,
     InstallLost, InstallWon, Loses, Wins, Rejected, CandidateWins, Existing, life,
     ident, local, bound
<1>4. StartedAttached'
  <2>1. s \in Streams /\ Candidate(s)
    BY DEF IInv, TypeOK, Candidates, InboundInstall
  <2>2. UNCHANGED <<pump, taken>>
    BY DEF InboundInstall, life
  <2>3. CASE InstallRejected(s)
    <3>1. UNCHANGED <<flows, retired, greeting>>
      BY <2>3 DEF InboundInstall, InstallRejected, InstallLost, InstallWon, Loses, Wins
    <3>2. \A t \in Streams : Started(t)' => Started(t)
      BY <2>1, <2>2, <2>3, <3>1 DEF IInv, TypeOK, Started, InboundInstall,
         InstallRejected,
         InstallLost, InstallWon, Loses, Wins, local
    <3> QED
      BY <2>2, <3>1, <3>2 DEF IInv, StartedAttached, Attached, InTable
  <2>4. CASE InstallLost(s)
    <3>1. UNCHANGED <<flows, retired>> /\ InTable(Existing(s))
      BY <2>1, <2>4, InstallLostEffect
    <3>2. \A t \in Streams : Started(t)' => Started(t) \/ t = Existing(s)
      BY <2>1, <2>2, <2>4, <3>1 DEF IInv, TypeOK, Started, InboundInstall,
         InstallRejected,
         InstallLost, InstallWon, Loses, Wins, local
    <3> QED
      BY <2>2, <3>1, <3>2 DEF IInv, StartedAttached, Attached, InTable
  <2>5. CASE InstallWon(s)
    <3>1. /\ InTable(s)'
          /\ \A t \in Streams : InTable(t) /\ ~retired'[t] => InTable(t)'
          /\ \A t \in Streams : retired[t] => retired'[t]
      BY <2>1, <2>5, InstallWonEffect
    <3>2. \A t \in Streams : Started(t)' => Started(t) \/ t = s
      BY <2>1, <2>2, <2>5 DEF IInv, TypeOK, Started, InboundInstall, InstallRejected,
         InstallLost, InstallWon, Loses, Wins, local
    <3> QED
      BY <2>2, <3>1, <3>2 DEF IInv, TypeOK, StartedAttached, Attached
  <2> QED
    BY <2>1, <2>3, <2>4, <2>5 DEF InboundInstall
<1>5. RetiringRetired'
  BY DEF IInv, TypeOK, RetiringRetired, InboundInstall, InstallRejected, InstallLost,
     InstallWon, Loses, Wins, Rejected, CandidateWins, Existing, life, ident, local,
     bound
<1>6. ClosedEmpty'
  BY DEF IInv, TypeOK, ClosedEmpty, InTable, InboundInstall, InstallRejected,
     InstallLost, InstallWon, Loses, Wins, Rejected, CandidateWins, Existing, life,
     ident, local, bound
<1>7. NoLeakedStream'
  <2>1. s \in Streams /\ Candidate(s)
    BY DEF IInv, TypeOK, Candidates, InboundInstall
  <2>2. UNCHANGED <<retiring, taken>>
    BY DEF InboundInstall, life
  <2>3. \A t \in Streams : conn'[t] = "open" => conn[t] = "open" /\ (InTable(t) => InTable(t)')
    BY <2>1, InstallRejectedEffect, InstallLostEffect, InstallWonEffect DEF
       InboundInstall
  <2>4. conn'[s] = "open" => InTable(s)'
    BY <2>1, InstallRejectedEffect, InstallLostEffect, InstallWonEffect DEF
       InboundInstall
  <2>5. \A t \in Streams : t # s =>
          (t \in arrived => t \in arrived')
    BY DEF InboundInstall
  <2>6. UNCHANGED <<pc, got>>
    BY DEF InboundInstall, local
  <2> QED
    BY <2>2, <2>3, <2>4, <2>5, <2>6 DEF IInv, NoLeakedStream
<1>8. (QuietAfterClose /\ WriteReachesPeer)'
  BY DEF IInv, QuietAfterClose, WriteReachesPeer, InboundInstall, life, ident, local,
     bound
<1> QED BY <1>1, <1>2, <1>3, <1>4, <1>5, <1>6, <1>7, <1>8 DEF IInv

\* The inbound handler starts the read loop of what it installed.
LEMMA InboundPumpStep ==
  ASSUME IInv, NEW s \in Streams, InboundPump(s)
  PROVE  IInv'
<1>1. TypeOK'
  BY RouterAssumption DEF IInv, TypeOK, Labels, PumpStates, ConnStates, InboundPump,
     EnsurePump, table, life, ident, local, bound
<1>2. Candidates'
  BY DEF IInv, TypeOK, Candidates, Candidate, InTable, InboundPump, EnsurePump, table,
     life, ident, local, bound
<1>3. StartedAttached'
  BY DEF IInv, TypeOK, StartedAttached, Started, Attached, InTable, InboundPump,
     EnsurePump, table, life, ident, local, bound
<1>4. QuietAfterClose'
  BY DEF IInv, TypeOK, QuietAfterClose, InboundPump, EnsurePump, table, life, ident,
     local, bound
<1>5. (TableOwn /\ RetiringRetired /\ ClosedEmpty /\ NoLeakedStream /\ WriteReachesPeer)'
  BY DEF IInv, TableOwn, RetiringRetired, ClosedEmpty, NoLeakedStream, WriteReachesPeer,
     InTable, InboundPump, table, life, ident, local, bound
<1> QED BY <1>1, <1>2, <1>3, <1>4, <1>5 DEF IInv

\* After Close() only retired flows are read, and they deliver nothing.
LEMMA PumpReadStep ==
  ASSUME IInv, NEW s \in Streams, PumpRead(s)
  PROVE  IInv'
<1>1. TypeOK'
  BY RouterAssumption DEF IInv, TypeOK, Labels, PumpStates, ConnStates, PumpRead, table,
     life, ident, local, bound
<1>2. Candidates'
  BY DEF IInv, TypeOK, Candidates, Candidate, InTable, PumpRead, table, life, ident,
     local, bound
<1>3. StartedAttached'
  BY DEF IInv, TypeOK, StartedAttached, Started, Attached, InTable, PumpRead, table,
     life, ident, local, bound
<1>4. QuietAfterClose'
  BY RouterAssumption DEF IInv, TypeOK, QuietAfterClose, TableOwn, ClosedEmpty,
     Candidates, Candidate, InTable, StartedAttached, Started, Attached, PumpRead,
     table, life, ident, local, bound
<1>5. (TableOwn /\ RetiringRetired /\ ClosedEmpty /\ NoLeakedStream /\ WriteReachesPeer)'
  BY DEF IInv, TableOwn, RetiringRetired, ClosedEmpty, NoLeakedStream, WriteReachesPeer,
     InTable, PumpRead, table, life, ident, local, bound
<1> QED BY <1>1, <1>2, <1>3, <1>4, <1>5 DEF IInv

\* A delivery ends.
LEMMA PumpDeliverStep ==
  ASSUME IInv, NEW s \in Streams, PumpDeliver(s)
  PROVE  IInv'
<1>1. TypeOK'
  BY RouterAssumption DEF IInv, TypeOK, Labels, PumpStates, ConnStates, PumpDeliver,
     table, life, ident, local, bound
<1>2. Candidates'
  BY DEF IInv, TypeOK, Candidates, Candidate, InTable, PumpDeliver, table, life, ident,
     local, bound
<1>3. StartedAttached'
  BY DEF IInv, TypeOK, StartedAttached, Started, Attached, InTable, PumpDeliver, table,
     life, ident, local, bound
<1>4. QuietAfterClose'
  BY DEF IInv, TypeOK, QuietAfterClose, PumpDeliver, table, life, ident, local, bound
<1>5. (TableOwn /\ RetiringRetired /\ ClosedEmpty /\ NoLeakedStream /\ WriteReachesPeer)'
  BY DEF IInv, TableOwn, RetiringRetired, ClosedEmpty, NoLeakedStream, WriteReachesPeer,
     InTable, PumpDeliver, table, life, ident, local, bound
<1> QED BY <1>1, <1>2, <1>3, <1>4, <1>5 DEF IInv

\* A read loop that ends retires its flow.
LEMMA PumpExitStep ==
  ASSUME IInv, NEW s \in Streams, PumpExit(s)
  PROVE  IInv'
<1>1. TypeOK'
  BY RouterAssumption DEF IInv, TypeOK, Labels, PumpStates, ConnStates, PumpExit,
     Retire, table, life, ident, local
<1>2. Candidates'
  BY DEF IInv, TypeOK, Candidates, Candidate, InTable, PumpExit, Retire, table, life,
     ident, local
<1>3. StartedAttached'
  BY DEF IInv, TypeOK, StartedAttached, Started, Attached, InTable, PumpExit, Retire,
     table, life, ident, local
<1>4. RetiringRetired'
  BY DEF IInv, TypeOK, RetiringRetired, PumpExit, Retire, table, life, ident, local
<1>5. NoLeakedStream'
  BY DEF IInv, TypeOK, NoLeakedStream, InTable, PumpExit, Retire, table, life, ident,
     local
<1>6. QuietAfterClose'
  BY DEF IInv, TypeOK, QuietAfterClose, PumpExit, Retire, table, life, ident, local
<1>7. (TableOwn /\ ClosedEmpty /\ WriteReachesPeer)'
  BY DEF IInv, TableOwn, ClosedEmpty, WriteReachesPeer, InTable, PumpExit, table, life,
     ident, local
<1> QED BY <1>1, <1>2, <1>3, <1>4, <1>5, <1>6, <1>7 DEF IInv

\* The scan only collects.
LEMMA ReapScanStep ==
  ASSUME IInv, ReapScan
  PROVE  IInv'
<1>1. TypeOK'
  BY RouterAssumption DEF IInv, TypeOK, Labels, PumpStates, ConnStates, ReapScan,
     Writers, table, life, ident, local
<1>2. (/\ TableOwn /\ Candidates /\ StartedAttached /\ RetiringRetired
       /\ ClosedEmpty /\ NoLeakedStream /\ QuietAfterClose /\ WriteReachesPeer)'
  BY DEF IInv, TableOwn, Candidates, StartedAttached, RetiringRetired, ClosedEmpty,
     NoLeakedStream, QuietAfterClose, WriteReachesPeer, Candidate, InTable, Started,
     Attached, ReapScan, table, life, ident, local
<1> QED BY <1>1, <1>2 DEF IInv

\* The reaper retires what it collected.
LEMMA ReapRetireStep ==
  ASSUME IInv, NEW s \in Streams, ReapRetire(s)
  PROVE  IInv'
<1>1. TypeOK'
  BY RouterAssumption DEF IInv, TypeOK, Labels, PumpStates, ConnStates, ReapRetire,
     Retire, table, life, ident, local, bound
<1>2. StartedAttached'
  BY DEF IInv, TypeOK, StartedAttached, Started, Attached, InTable, ReapRetire, Retire,
     table, life, ident, local, bound
<1>3. RetiringRetired'
  BY DEF IInv, TypeOK, RetiringRetired, ReapRetire, Retire, table, life, ident, local,
     bound
<1>4. NoLeakedStream'
  BY DEF IInv, TypeOK, NoLeakedStream, InTable, ReapRetire, Retire, table, life, ident,
     local, bound
<1>5. (TableOwn /\ Candidates /\ ClosedEmpty /\ QuietAfterClose /\ WriteReachesPeer)'
  BY DEF IInv, TableOwn, Candidates, ClosedEmpty, QuietAfterClose, WriteReachesPeer,
     Candidate, InTable, ReapRetire, table, life, ident, local, bound
<1> QED BY <1>1, <1>2, <1>3, <1>4, <1>5 DEF IInv

\* Close() takes the flows of the table, one of each peer.
LEMMA CloseBeginStep ==
  ASSUME IInv, CloseBegin
  PROVE  IInv'
<1>1. TypeOK'
  BY RouterAssumption DEF IInv, TypeOK, Labels, PumpStates, ConnStates, CloseBegin,
     ident, local, bound
<1>2. TableOwn'
  BY DEF IInv, TypeOK, TableOwn, CloseBegin, ident, local, bound
<1>3. Candidates'
  BY RouterAssumption DEF IInv, TypeOK, Candidates, Candidate, InTable, CloseBegin,
     ident, local, bound
<1>4. StartedAttached'
  BY RouterAssumption DEF IInv, TypeOK, StartedAttached, Started, Attached, InTable,
     TableOwn, ClosedEmpty, CloseBegin, ident, local, bound
<1>5. ClosedEmpty'
  BY RouterAssumption DEF IInv, TypeOK, ClosedEmpty, InTable, TableOwn, CloseBegin,
     ident, local, bound
<1>6. NoLeakedStream'
  BY RouterAssumption DEF IInv, TypeOK, NoLeakedStream, InTable, TableOwn, ClosedEmpty,
     CloseBegin, ident, local, bound
<1>7. (RetiringRetired /\ QuietAfterClose /\ WriteReachesPeer)'
  BY DEF IInv, RetiringRetired, QuietAfterClose, WriteReachesPeer, CloseBegin, ident,
     local, bound
<1> QED BY <1>1, <1>2, <1>3, <1>4, <1>5, <1>6, <1>7 DEF IInv

\* Close() retires and resets a flow before it lets go of it.
LEMMA CloseResetStep ==
  ASSUME IInv, NEW s \in Streams, CloseReset(s)
  PROVE  IInv'
<1>1. TypeOK'
  BY RouterAssumption DEF IInv, TypeOK, Labels, PumpStates, ConnStates, CloseReset,
     table, ident, local, bound
<1>2. Candidates'
  BY DEF IInv, TypeOK, Candidates, Candidate, InTable, CloseReset, table, ident, local,
     bound
<1>3. StartedAttached'
  BY DEF IInv, TypeOK, StartedAttached, Started, Attached, InTable, CloseReset, table,
     ident, local, bound
<1>4. RetiringRetired'
  BY DEF IInv, TypeOK, RetiringRetired, CloseReset, table, ident, local, bound
<1>5. ClosedEmpty'
  BY DEF IInv, TypeOK, ClosedEmpty, InTable, CloseReset, table, ident, local, bound
<1>6. NoLeakedStream'
  BY DEF IInv, TypeOK, NoLeakedStream, InTable, CloseReset, table, ident, local, bound
<1>7. (TableOwn /\ QuietAfterClose /\ WriteReachesPeer)'
  BY DEF IInv, TableOwn, QuietAfterClose, WriteReachesPeer, CloseReset, table, ident,
     local, bound
<1> QED BY <1>1, <1>2, <1>3, <1>4, <1>5, <1>6, <1>7 DEF IInv

\* Close() returns when it holds no flow and no read loop delivers.
LEMMA CloseEndStep ==
  ASSUME IInv, CloseEnd
  PROVE  IInv'
<1>1. TypeOK'
  BY RouterAssumption DEF IInv, TypeOK, Labels, PumpStates, ConnStates, CloseEnd, table,
     ident, local, bound
<1>2. ClosedEmpty'
  BY DEF IInv, TypeOK, ClosedEmpty, InTable, CloseEnd, table, ident, local, bound
<1>3. QuietAfterClose'
  BY DEF IInv, TypeOK, QuietAfterClose, CloseEnd, table, ident, local, bound
<1>4. (TableOwn /\ Candidates /\ StartedAttached /\ RetiringRetired /\ NoLeakedStream /\ WriteReachesPeer)'
  BY DEF IInv, TableOwn, Candidates, StartedAttached, RetiringRetired, NoLeakedStream,
     WriteReachesPeer, Candidate, InTable, Started, Attached, CloseEnd, table, ident,
     local, bound
<1> QED BY <1>1, <1>2, <1>3, <1>4 DEF IInv

-----------------------------------------------------------------------------

\* The inductive invariant holds of a router just made.
LEMMA InitInv == ASSUME Init PROVE IInv
<1>1. TypeOK
  BY RouterAssumption DEF Init, TypeOK, Labels, PumpStates, ConnStates
<1>2. TableOwn /\ Candidates /\ StartedAttached /\ RetiringRetired
  BY DEF Init, TableOwn, Candidates, StartedAttached, Started, RetiringRetired
<1>3. ClosedEmpty /\ NoLeakedStream /\ QuietAfterClose /\ WriteReachesPeer
  BY DEF Init, ClosedEmpty, NoLeakedStream, QuietAfterClose, WriteReachesPeer
<1> QED
  BY <1>1, <1>2, <1>3 DEF IInv

\* Every step keeps the inductive invariant.
LEMMA StepInv == ASSUME IInv, [Next]_vars PROVE IInv'
<1>1. ASSUME NEW a \in Busy, Packet(a) PROVE IInv'
  BY <1>1, LookupHitStep, LookupMissStep DEF Packet
<1>2. ASSUME NEW a \in Busy, Worker(a) PROVE IInv'
  BY <1>2, BackfillStep, FlowToStep, WaitedStep, DialFailStep, DialOpenStep,
     DialInstallStep, DialPumpStep, RecheckStep, WriteOKStep, WriteFailStep DEF Worker
<1>3. ASSUME NEW s \in Streams, Inbound(s) PROVE IInv'
  BY <1>3, InboundInstallStep, InboundPumpStep DEF Inbound
<1>4. ASSUME NEW s \in Streams, Retirement(s) PROVE IInv'
  BY <1>4, UnlinkStep, ReapRetireStep DEF Retirement
<1>5. ASSUME NEW s \in Streams, Pump(s) PROVE IInv'
  BY <1>5, PumpReadStep, PumpDeliverStep, PumpExitStep DEF Pump
<1>6. CASE Closing
  BY <1>6, CloseEndStep, CloseResetStep DEF Closing
<1>7. CASE UNCHANGED vars
  BY <1>7 DEF vars, table, life, ident, local, bound, IInv, TypeOK, TableOwn, Candidates,
     Candidate, InTable, StartedAttached, Started, Attached, RetiringRetired, ClosedEmpty,
     NoLeakedStream, QuietAfterClose, WriteReachesPeer
<1> QED
  BY <1>1, <1>2, <1>3, <1>4, <1>5, <1>6, <1>7, MoveStep, ReapScanStep, CloseBeginStep,
     ArriveStep DEF Next

\* Two flows of one peer that are read and not retired are both in the table, or both
\* with Close(): they are one.
LEMMA LiveFlowUnique == ASSUME IInv PROVE OneLiveFlow
<1> SUFFICES ASSUME NEW s \in Streams, NEW t \in Streams, Live(s), Live(t),
                    peerOf[s] = peerOf[t]
             PROVE  s = t
  BY DEF OneLiveFlow
<1>1. Attached(s) /\ Attached(t)
  BY DEF IInv, StartedAttached, Started, Live
<1>2. \A r \in Streams : InTable(r) => ~closed /\ taken = {} /\ flows[peerOf[r]] = r
  BY RouterAssumption DEF IInv, TypeOK, InTable, TableOwn, ClosedEmpty
<1> QED
  BY <1>1, <1>2 DEF Attached, IInv, ClosedEmpty

\* The inductive invariant holds always.
THEOREM Inductive == Spec => []IInv
BY InitInv, StepInv, PTL DEF Spec

\* Every variable keeps its type, and flowTo never returns neither a flow nor an error.
THEOREM TypeCorrect == Spec => []TypeOK
<1>1. IInv => TypeOK
  BY DEF IInv
<1> QED
  BY <1>1, Inductive, PTL

\* For any peers, streams, addresses, destinations and bounds: a peer never has two
\* streams that are read into the host.
THEOREM OneLiveFlowPerPeer == Spec => []OneLiveFlow
BY LiveFlowUnique, Inductive, PTL

\* No open stream is ever without an owner that will close it.
THEOREM StreamsAreOwned == Spec => []NoLeakedStream
<1>1. IInv => NoLeakedStream
  BY DEF IInv
<1> QED
  BY <1>1, Inductive, PTL

\* When Close() has returned nothing is delivered any more.
THEOREM CloseIsQuiet == Spec => []QuietAfterClose
<1>1. IInv => QuietAfterClose
  BY DEF IInv
<1> QED
  BY <1>1, Inductive, PTL

\* A packet is written to a stream with the peer its address was resolved to.
THEOREM WritesReachTheirPeer == Spec => []WriteReachesPeer
<1>1. IInv => WriteReachesPeer
  BY DEF IInv
<1> QED
  BY <1>1, Inductive, PTL

-----------------------------------------------------------------------------
(* How flows come into the table and leave it *)

\* s is open, nobody has retired it, and the reaper does not hold it.
Fit(s) == conn[s] = "open" /\ ~retired[s] /\ s \notin stale

\* What is about to be installed can still be used.
CandidatesFit ==
  /\ \A s \in arrived : Fit(s)
  /\ \A a \in Busy : pc[a] = "install" => Fit(got[a])

\* Installing a candidate does not touch another one.
LEMMA InstallKeepsFit ==
  ASSUME IInv, NEW s \in Streams, Candidate(s), UNCHANGED stale,
         InstallRejected(s) \/ InstallLost(s) \/ InstallWon(s),
         NEW t \in Streams, Candidate(t), t # s, Fit(t)
  PROVE  Fit(t)'
<1>1. CASE InstallRejected(s) \/ InstallLost(s)
  BY <1>1 DEF InstallRejected, InstallLost, Fit, IInv, TypeOK
<1>2. CASE InstallWon(s)
  <2>1. Existing(s) # t
    BY RouterAssumption DEF Existing, Candidate, InTable, IInv, TypeOK
  <2>2. conn'[t] = conn[t] /\ retired'[t] = retired[t]
    BY <1>2, <2>1 DEF InstallWon, IInv, TypeOK
  <2> QED
    BY <2>2 DEF Fit
<1> QED
  BY <1>1, <1>2

LEMMA FitInstall ==
  ASSUME IInv, CandidatesFit, (\E s \in Streams : InboundInstall(s)) \/ (\E a \in Busy : DialInstall(a))
  PROVE  CandidatesFit'
<1>1. ASSUME NEW s \in Streams, InboundInstall(s) PROVE CandidatesFit'
  <2>1. /\ Candidate(s) /\ UNCHANGED stale /\ arrived' = arrived \ {s}
        /\ UNCHANGED <<pc, got>> /\ (InstallRejected(s) \/ InstallLost(s) \/ InstallWon(s))
    BY <1>1 DEF InboundInstall, IInv, Candidates, local
  <2>2. \A t \in arrived' : t \in Streams /\ Candidate(t) /\ t # s /\ Fit(t)
    BY <2>1 DEF IInv, TypeOK, Candidates, CandidatesFit
  <2>3. ASSUME NEW a \in Busy, pc[a] = "install"
        PROVE  got[a] \in Streams /\ Candidate(got[a]) /\ got[a] # s /\ Fit(got[a])
    BY <1>1, <2>3 DEF IInv, TypeOK, Candidates, CandidatesFit, InboundInstall
  <2> QED
    BY <2>1, <2>2, <2>3, InstallKeepsFit DEF CandidatesFit
<1>2. ASSUME NEW a \in Busy, DialInstall(a) PROVE CandidatesFit'
  <2> DEFINE s == got[a]
  <2>1. /\ s \in Streams /\ Candidate(s) /\ UNCHANGED <<stale, arrived>>
        /\ (InstallRejected(s) \/ InstallLost(s) \/ InstallWon(s))
    BY <1>2 DEF DialInstall, IInv, TypeOK, Candidates
  <2>2. \A t \in arrived : t \in Streams /\ Candidate(t) /\ t # s /\ Fit(t)
    BY <1>2, <2>1 DEF IInv, TypeOK, Candidates, CandidatesFit, DialInstall
  <2>3. ASSUME NEW b \in Busy, pc'[b] = "install"
        PROVE  /\ got'[b] = got[b] /\ got[b] \in Streams /\ Candidate(got[b]) /\ got[b] # s
               /\ Fit(got[b])
    <3>1. b # a /\ pc[b] = "install" /\ got'[b] = got[b]
      BY <1>2, <2>3 DEF DialInstall, Goto, Return, IInv, TypeOK
    <3> QED
      BY <3>1, <1>2 DEF IInv, TypeOK, Candidates, CandidatesFit, DialInstall
  <2> HIDE DEF s
  <2> QED
    BY <2>1, <2>2, <2>3, InstallKeepsFit DEF CandidatesFit
<1> QED
  BY <1>1, <1>2

\* A stream just made is fit, and no other is touched.
LEMMA FitOpen ==
  ASSUME IInv, CandidatesFit, (\E s \in Streams : Arrive(s)) \/ (\E a \in Busy : DialOpen(a))
  PROVE  CandidatesFit'
<1>1. ASSUME NEW s \in Streams, NEW p, NEW first, NEW xs, NewFlow(s, p, first, xs), UNCHANGED stale
      PROVE  Fit(s)' /\ \A t \in Streams : Fit(t) => Fit(t)'
  BY <1>1 DEF NewFlow, Fresh, Fit, IInv, TypeOK
<1>2. ASSUME NEW s \in Streams, Arrive(s) PROVE CandidatesFit'
  <2>1. Fit(s)' /\ \A t \in Streams : Fit(t) => Fit(t)'
    BY <1>1, <1>2 DEF Arrive
  <2> QED
    BY <1>2, <2>1 DEF Arrive, CandidatesFit, IInv, TypeOK, local
<1>3. ASSUME NEW a \in Busy, DialOpen(a) PROVE CandidatesFit'
  <2>1. PICK s \in Streams :
          /\ NewFlow(s, remote[a], Self, IF Owner(a) = NoPeer THEN {} ELSE members[Owner(a)])
          /\ got' = [got EXCEPT ![a] = s]
    BY <1>3 DEF DialOpen
  <2>2. UNCHANGED <<stale, arrived>> /\ pc' = [pc EXCEPT ![a] = "install"]
    BY <1>3 DEF DialOpen, Goto
  <2>3. Fit(s)' /\ \A t \in Streams : Fit(t) => Fit(t)'
    BY <1>1, <2>1, <2>2
  <2> QED
    BY <2>1, <2>2, <2>3 DEF CandidatesFit, IInv, TypeOK
<1> QED
  BY <1>2, <1>3

\* Who fails, leaves or is reaped has been installed before, or was never to be.
LEMMA FitRetire ==
  ASSUME IInv, CandidatesFit, NEW s \in Streams,
         \/ Unlink(s) \/ ReapRetire(s) \/ PumpExit(s) \/ CloseReset(s)
         \/ \E a \in Busy : WriteFail(a) /\ got[a] = s
  PROVE  CandidatesFit'
<1>1. ASSUME NEW t \in Streams, Candidate(t), Fit(t), t # s PROVE Fit(t)'
  BY <1>1 DEF Unlink, ReapRetire, PumpExit, CloseReset, WriteFail, Retire, Fit, IInv, TypeOK
<1>2. ASSUME Fit(s), Candidate(s), s \in arrived \/ \E b \in Busy : pc[b] = "install" /\ got[b] = s
      PROVE  FALSE
  <2>1. s \notin retiring /\ s \notin stale /\ s \notin taken /\ pump[s] = "none"
    BY <1>2 DEF Fit, Candidate, IInv, RetiringRetired
  <2>2. ~ \E a \in Busy : WriteFail(a) /\ got[a] = s
    BY <1>2 DEF WriteFail, IInv, Candidates
  <2> QED
    BY <2>1, <2>2 DEF Unlink, ReapRetire, PumpExit, CloseReset
<1>3. /\ arrived' = arrived
      /\ \A b \in Busy : pc'[b] = "install" => pc[b] = "install" /\ got'[b] = got[b]
  BY DEF Unlink, ReapRetire, PumpExit, CloseReset, WriteFail, Return, Goto, local, IInv, TypeOK
<1>4. \A t \in arrived : t \in Streams /\ Candidate(t) /\ Fit(t)
  BY DEF IInv, TypeOK, Candidates, CandidatesFit
<1>5. \A b \in Busy : pc[b] = "install" => got[b] \in Streams /\ Candidate(got[b]) /\ Fit(got[b])
  BY DEF IInv, TypeOK, Candidates, CandidatesFit
<1> QED
  BY <1>1, <1>2, <1>3, <1>4, <1>5 DEF CandidatesFit

\* The other steps of a forwarding goroutine.
LEMMA FitElsewhere ==
  ASSUME IInv, CandidatesFit, UNCHANGED <<conn, retired, stale, arrived>>,
         \A b \in Busy : pc'[b] = "install" => pc[b] = "install" /\ got'[b] = got[b]
  PROVE  CandidatesFit'
BY DEF CandidatesFit, Fit, IInv, TypeOK

\* The reaper takes flows from the table, where no candidate is.
LEMMA FitScan == ASSUME IInv, CandidatesFit, ReapScan PROVE CandidatesFit'
<1>1. /\ UNCHANGED <<conn, retired, arrived, pc, got>>
      /\ \A t \in Streams : t \in stale' => InTable(t)
  BY DEF ReapScan, local
<1>2. \A t \in Streams : Candidate(t) /\ Fit(t) => Fit(t)'
  BY <1>1 DEF Candidate, Fit
<1> QED
  BY <1>1, <1>2 DEF CandidatesFit, IInv, TypeOK, Candidates

LEMMA FitStep == ASSUME IInv, CandidatesFit, [Next]_vars PROVE CandidatesFit'
<1>1. ASSUME NEW a \in Busy, Packet(a) PROVE CandidatesFit'
  <2>1. /\ UNCHANGED <<conn, retired, stale, arrived, got>>
        /\ \A b \in Busy : pc'[b] = "install" => pc[b] = "install"
    BY <1>1 DEF Packet, LookupHit, LookupMiss, Goto, IInv, TypeOK
  <2> QED
    BY <2>1, FitElsewhere
<1>2. ASSUME NEW a \in Busy, Worker(a) PROVE CandidatesFit'
  <2>1. CASE DialOpen(a)
    BY <2>1, FitOpen
  <2>2. CASE DialInstall(a)
    BY <2>2, FitInstall
  <2>3. CASE WriteFail(a)
    BY <2>3, FitRetire DEF WriteFail, IInv, TypeOK
  <2>4. CASE \/ Backfill(a) \/ FlowTo(a) \/ Waited(a) \/ DialFail(a) \/ DialPump(a)
             \/ Recheck(a) \/ WriteOK(a)
    <3>1. UNCHANGED <<conn, retired, stale, arrived>>
      BY <2>4 DEF Backfill, FlowTo, Waited, DialFail, DialPump, Recheck, WriteOK
    <3>2. \A b \in Busy : pc'[b] = "install" => pc[b] = "install" /\ got'[b] = got[b]
      BY <2>4 DEF Backfill, FlowTo, Waited, DialFail, DialPump, Recheck, WriteOK, Return, Goto,
         IInv, TypeOK, local
    <3> QED
      BY <3>1, <3>2, FitElsewhere
  <2> QED
    BY <1>2, <2>1, <2>2, <2>3, <2>4 DEF Worker
<1>3. ASSUME NEW s \in Streams, Arrive(s) \/ Inbound(s) \/ Retirement(s) \/ Pump(s) PROVE CandidatesFit'
  <2>1. CASE Arrive(s)
    BY <2>1, FitOpen
  <2>2. CASE InboundInstall(s)
    BY <2>2, FitInstall
  <2>3. CASE Retirement(s) \/ PumpExit(s)
    BY <2>3, FitRetire DEF Retirement
  <2>4. CASE InboundPump(s) \/ PumpRead(s) \/ PumpDeliver(s)
    <3>1. UNCHANGED <<conn, retired, stale, pc, got>> /\ arrived' = arrived
      BY <2>4 DEF InboundPump, PumpRead, PumpDeliver, local
    <3> QED
      BY <3>1, FitElsewhere
  <2> QED
    BY <1>3, <2>1, <2>2, <2>3, <2>4 DEF Inbound, Pump
<1>4. CASE Closing
  <2>1. ASSUME NEW s \in Streams, CloseReset(s) PROVE CandidatesFit'
    BY <2>1, FitRetire
  <2>2. CASE CloseEnd
    BY <2>2, FitElsewhere DEF CloseEnd, local
  <2> QED
    BY <1>4, <2>1, <2>2 DEF Closing
<1>5. CASE Move \/ CloseBegin \/ UNCHANGED vars
  <2>1. UNCHANGED <<conn, retired, stale, arrived, pc, got>>
    BY <1>5 DEF Move, CloseBegin, vars, table, life, ident, local, bound
  <2> QED
    BY <2>1, FitElsewhere
<1> QED
  BY <1>1, <1>2, <1>3, <1>4, <1>5, FitScan DEF Next

\* A flow comes into the table open and not retired, and never once Close() has begun; it
\* leaves the table retired, or to Close(), and a flow in the table stays retired.
FlowsMove ==
  \A s \in Streams :
    /\ ~InTable(s) /\ InTable(s)' => conn'[s] = "open" /\ ~retired'[s] /\ ~closed
    /\ InTable(s) /\ ~InTable(s)' => retired'[s] \/ closed'
    /\ InTable(s) /\ retired[s] => retired'[s]

\* Installing makes the moves that are allowed.
LEMMA InstallMoves ==
  ASSUME IInv, NEW s \in Streams, Candidate(s), Fit(s), UNCHANGED closed,
         InstallRejected(s) \/ InstallLost(s) \/ InstallWon(s)
  PROVE  FlowsMove
<1>1. CASE InstallRejected(s) \/ InstallLost(s)
  BY <1>1 DEF InstallRejected, InstallLost, FlowsMove, InTable
<1>2. CASE InstallWon(s)
  <2>1. ~closed
    BY <1>2 DEF InstallWon, Wins, Rejected
  <2>2. Existing(s) # s /\ conn'[s] = "open" /\ ~retired'[s]
    <3>1. Existing(s) # s
      BY DEF Existing, Candidate, InTable
    <3> QED
      BY <1>2, <3>1 DEF InstallWon, Fit, IInv, TypeOK
  <2>3. /\ \A t \in Streams : t # s /\ InTable(t)' => InTable(t)
        /\ \A t \in Streams : InTable(t) /\ ~InTable(t)' => retired'[t]
        /\ \A t \in Streams : retired[t] => retired'[t]
    BY <1>2, InstallWonEffect
  <2> QED
    BY <2>1, <2>2, <2>3 DEF FlowsMove
<1> QED
  BY <1>1, <1>2

\* Steps that leave the table alone, and of the flows in it retire some.
LEMMA RetireMoves ==
  ASSUME UNCHANGED flows, \A s \in Streams : InTable(s) /\ retired[s] => retired'[s]
  PROVE  FlowsMove
BY DEF FlowsMove, InTable

LEMMA MovesStep == ASSUME IInv, CandidatesFit, [Next]_vars PROVE FlowsMove \/ UNCHANGED vars
<1>1. ASSUME NEW a \in Busy, Packet(a) PROVE FlowsMove
  BY <1>1, RetireMoves DEF Packet, LookupHit, LookupMiss, table
<1>2. ASSUME NEW a \in Busy, Worker(a) PROVE FlowsMove
  <2>1. CASE DialInstall(a)
    <3>1. got[a] \in Streams /\ Candidate(got[a]) /\ Fit(got[a])
      BY <2>1 DEF DialInstall, IInv, TypeOK, Candidates, CandidatesFit
    <3> QED
      BY <2>1, <3>1, InstallMoves DEF DialInstall, life
  <2>2. CASE DialOpen(a)
    BY <2>2, RetireMoves DEF DialOpen, NewFlow, Fresh, table, IInv, TypeOK
  <2>3. CASE WriteFail(a)
    BY <2>3, RetireMoves DEF WriteFail, Retire, table, IInv, TypeOK
  <2>4. CASE \/ Backfill(a) \/ FlowTo(a) \/ Waited(a) \/ DialFail(a) \/ DialPump(a)
             \/ Recheck(a) \/ WriteOK(a)
    BY <2>4, RetireMoves DEF Backfill, FlowTo, Waited, DialFail, DialPump, Recheck, WriteOK, table
  <2> QED
    BY <1>2, <2>1, <2>2, <2>3, <2>4 DEF Worker
<1>3. ASSUME NEW s \in Streams, Arrive(s) \/ Inbound(s) \/ Retirement(s) \/ Pump(s) PROVE FlowsMove
  <2>1. CASE InboundInstall(s)
    <3>1. Candidate(s) /\ Fit(s)
      BY <2>1 DEF InboundInstall, IInv, Candidates, CandidatesFit
    <3> QED
      BY <2>1, <3>1, InstallMoves DEF InboundInstall, life
  <2>2. CASE Arrive(s)
    BY <2>2, RetireMoves DEF Arrive, NewFlow, Fresh, table, IInv, TypeOK
  <2>3. CASE InboundPump(s) \/ PumpRead(s) \/ PumpDeliver(s)
    BY <2>3, RetireMoves DEF InboundPump, PumpRead, PumpDeliver, table
  <2>4. CASE ReapRetire(s) \/ PumpExit(s)
    BY <2>4, RetireMoves DEF ReapRetire, PumpExit, Retire, table, IInv, TypeOK
  <2>5. CASE Unlink(s)
    <3>1. retired[s] /\ retired' = retired
      BY <2>5 DEF Unlink, IInv, RetiringRetired
    <3>2. \A t \in Streams : t # s => (InTable(t)' <=> InTable(t))
      BY <2>5, RouterAssumption DEF Unlink, InTable, IInv, TypeOK
    <3>3. InTable(s)' => InTable(s)
      BY <2>5, RouterAssumption DEF Unlink, InTable, IInv, TypeOK
    <3> QED
      BY <3>1, <3>2, <3>3 DEF FlowsMove
  <2> QED
    BY <1>3, <2>1, <2>2, <2>3, <2>4, <2>5 DEF Inbound, Retirement, Pump
<1>4. CASE Closing
  <2>1. ASSUME NEW s \in Streams, CloseReset(s) PROVE FlowsMove
    BY <2>1, RetireMoves DEF CloseReset, table, IInv, TypeOK
  <2>2. CASE CloseEnd
    BY <2>2, RetireMoves DEF CloseEnd, table
  <2> QED
    BY <1>4, <2>1, <2>2 DEF Closing
<1>5. CASE CloseBegin
  BY <1>5, RouterAssumption DEF CloseBegin, FlowsMove, InTable
<1>6. CASE Move \/ ReapScan
  BY <1>6, RetireMoves DEF Move, ReapScan, table
<1> QED
  BY <1>1, <1>2, <1>3, <1>4, <1>5, <1>6 DEF Next

\* The table gives up no flow that is in use, and takes none that is not, for any peers,
\* streams, limits and numbers of failures (installFlow, retireFlow, reapIdle, Close).
THEOREM FlowsLeaveRetired == Spec => [][FlowsMove]_vars
<1>1. Init => CandidatesFit
  BY DEF Init, CandidatesFit
<1>2. IInv /\ CandidatesFit /\ [Next]_vars => CandidatesFit'
  BY FitStep
<1>3. IInv /\ CandidatesFit /\ [Next]_vars => [FlowsMove]_vars
  BY MovesStep
<1> QED
  BY <1>1, <1>2, <1>3, Inductive, PTL DEF Spec
=============================================================================
