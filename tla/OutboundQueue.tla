--------------------------- MODULE OutboundQueue ---------------------------
(***************************************************************************)
(* The outbound queues of one Router (pkg/tundevice/router.go): the TUN    *)
(* read loop hands every packet to the worker of its destination address   *)
(* without blocking, each worker forwards its packets one after the other  *)
(* and ends when it has been idle, and all queues share one byte budget.   *)
(*                                                                         *)
(* enqueuePacket runs under r.mu, and so do the idle check and the removal *)
(* of a worker; taking a packet, forwarding it and giving its bytes back   *)
(* do not.  forwardPacket itself is RouterFlows; here it is a step that    *)
(* takes its time.  The cool-down after a failed packet is only time, and  *)
(* so is part of that step.                                                *)
(***************************************************************************)
EXTENDS Naturals, FiniteSets, SequencesExt

CONSTANTS
  Dests,         \* destination addresses
  Workers,       \* worker goroutines; one that has ended may serve again
  NoWorker,
  Capacity,      \* outboundQueueSize
  WorkerLimit,   \* r.outboundLimit
  BudgetMax,     \* r.writeBudgetMax
  Bytes          \* the length of the k-th packet read from the TUN; bounds their number

ASSUME QueueAssumption ==
  /\ Dests # {} /\ IsFiniteSet(Workers) /\ NoWorker \notin Workers
  /\ Capacity \in Nat \ {0} /\ WorkerLimit \in Nat /\ BudgetMax \in Nat
  /\ Bytes \in Seq(Nat \ {0})

Packets == DOMAIN Bytes

VARIABLES
  outbound,      \* r.outbound: the worker of each destination
  budget,        \* r.writeBudget
  closed,        \* r.closed
  cancelled,     \* the context of Run, and with it that of every worker, is done
  closeDone,     \* Close() has returned
  offered,       \* packets read from the TUN so far
  pc, dest, queue, held    \* of a worker: control, destination, channel, packet in hand

router == <<outbound, closed, cancelled, closeDone, offered>>
vars   == <<router, budget, pc, dest, queue, held>>

Labels == {"free", "select", "forward", "release", "idle", "remove", "drain"}

Init ==
  /\ outbound = [d \in Dests |-> NoWorker]
  /\ budget = 0
  /\ closed = FALSE /\ cancelled = FALSE /\ closeDone = FALSE
  /\ offered = 0
  /\ pc = [w \in Workers |-> "free"]
  /\ dest = [w \in Workers |-> CHOOSE d \in Dests : TRUE]
  /\ queue = [w \in Workers |-> <<>>]
  /\ held = [w \in Workers |-> 0]

-----------------------------------------------------------------------------
(* The TUN read loop: enqueuePacket *)

\* acquireBudget, its compare-and-swap loop as one step.
Affordable(k) == budget + Bytes[k] <= BudgetMax

\* Mutant of Push: the budget is not taken back when the packet is dropped.
PushUnrefunded(w, k) ==
  /\ queue' = IF Len(queue[w]) < Capacity
              THEN [queue EXCEPT ![w] = Append(@, k)] ELSE queue
  /\ budget' = IF Affordable(k) THEN budget + Bytes[k] ELSE budget

\* The packet enters the queue of w, or is dropped because queue or budget is full.
\* Senders hold r.mu, so the channel cannot fill up between the check and the send.
Push(w, k) ==
  IF Len(queue[w]) < Capacity /\ Affordable(k)
  THEN /\ queue' = [queue EXCEPT ![w] = Append(@, k)]
       /\ budget' = budget + Bytes[k]
  ELSE UNCHANGED <<queue, budget>>

Running == ~closed /\ ~cancelled

NextPacket == offered + 1 \in Packets /\ offered' = offered + 1

\* The destination has its worker.
EnqueueKnown(d) ==
  /\ Running /\ NextPacket
  /\ outbound[d] # NoWorker
  /\ Push(outbound[d], offered + 1)
  /\ UNCHANGED <<outbound, closed, cancelled, closeDone, pc, dest, held>>

\* A worker is started for it; it stays even if its first packet is dropped.
EnqueueNew(d) ==
  /\ Running /\ NextPacket
  /\ outbound[d] = NoWorker
  /\ Cardinality({e \in Dests : outbound[e] # NoWorker}) < WorkerLimit
  /\ \E w \in Workers :
       /\ pc[w] = "free"
       /\ pc' = [pc EXCEPT ![w] = "select"]
       /\ dest' = [dest EXCEPT ![w] = d]
       /\ outbound' = [outbound EXCEPT ![d] = w]
       /\ Push(w, offered + 1)
  /\ UNCHANGED <<closed, cancelled, closeDone, held>>

\* Too many destinations, or a router that has stopped: the packet is lost.
EnqueueRefused(d) ==
  /\ NextPacket /\ ~closeDone
  /\ Running => /\ outbound[d] = NoWorker
                /\ Cardinality({e \in Dests : outbound[e] # NoWorker}) >= WorkerLimit
  /\ UNCHANGED <<outbound, closed, cancelled, closeDone, budget, pc, dest, queue, held>>

-----------------------------------------------------------------------------
(* A worker: runOutbound *)

Goto(w, l) == pc' = [pc EXCEPT ![w] = l]

\* The select takes a packet, whether or not the context is done as well.
Take(w) ==
  /\ pc[w] = "select" /\ queue[w] # <<>>
  /\ held' = [held EXCEPT ![w] = Head(queue[w])]
  /\ queue' = [queue EXCEPT ![w] = Tail(@)]
  /\ Goto(w, "forward")
  /\ UNCHANGED <<router, budget, dest>>

\* forwardImpl returns, with or without an error, and so does the cool-down.
Forward(w) ==
  /\ pc[w] = "forward"
  /\ Goto(w, "release")
  /\ UNCHANGED <<router, budget, dest, queue, held>>

\* releaseBudget after the packet.
Release(w) ==
  /\ pc[w] = "release"
  /\ budget' = budget - Bytes[held[w]]
  /\ held' = [held EXCEPT ![w] = 0]
  /\ Goto(w, "select")
  /\ UNCHANGED <<router, dest, queue>>

\* The idle timer fires; a packet may have come at the same time.
IdleFires(w) ==
  /\ pc[w] = "select"
  /\ Goto(w, "idle")
  /\ UNCHANGED <<router, budget, dest, queue, held>>

\* Mutant of IdleCheck: the worker ends but leaves its entry to the deferred removal.
IdleDeferred(w) ==
  /\ pc[w] = "idle"
  /\ Goto(w, IF outbound[dest[w]] = w /\ queue[w] = <<>> THEN "remove" ELSE "select")
  /\ UNCHANGED <<router, budget, dest, queue, held>>

\* Mutant of IdleCheck: the branch that keeps the worker does not go on.
IdleStuck(w) ==
  /\ pc[w] = "idle"
  /\ outbound[dest[w]] = w /\ queue[w] = <<>>
  /\ outbound' = [outbound EXCEPT ![dest[w]] = NoWorker]
  /\ Goto(w, "remove")
  /\ UNCHANGED <<closed, cancelled, closeDone, offered, budget, dest, queue, held>>

\* Under r.mu, where nothing can be enqueued: an idle worker with nothing to do ends.
IdleCheck(w) ==
  /\ pc[w] = "idle"
  /\ IF outbound[dest[w]] = w /\ queue[w] = <<>>
     THEN /\ outbound' = [outbound EXCEPT ![dest[w]] = NoWorker]
          /\ Goto(w, "remove")
     ELSE Goto(w, "select") /\ UNCHANGED outbound
  /\ UNCHANGED <<closed, cancelled, closeDone, offered, budget, dest, queue, held>>

\* Mutant of Quit: the worker returns without its deferred clean-up.
QuitBare(w) ==
  /\ pc[w] = "select" /\ cancelled
  /\ Goto(w, "free")
  /\ UNCHANGED <<router, budget, dest, queue, held>>

\* The context is done.
Quit(w) ==
  /\ pc[w] = "select" /\ cancelled
  /\ Goto(w, "remove")
  /\ UNCHANGED <<router, budget, dest, queue, held>>

\* removeOutboundWorker, under the lock: a successor's entry is left alone.
Unmap(w) ==
  /\ pc[w] = "remove"
  /\ outbound' = IF outbound[dest[w]] = w
                 THEN [outbound EXCEPT ![dest[w]] = NoWorker] ELSE outbound
  /\ Goto(w, "drain")
  /\ UNCHANGED <<closed, cancelled, closeDone, offered, budget, dest, queue, held>>

\* The bytes of the packets of a queue.
BytesOf(q) == FoldLeft(LAMBDA sum, k : sum + Bytes[k], 0, q)

\* removeOutboundWorker, after the lock: what is left is thrown away, its bytes given back.
Drain(w) ==
  /\ pc[w] = "drain"
  /\ budget' = budget - BytesOf(queue[w])
  /\ queue' = [queue EXCEPT ![w] = <<>>]
  /\ Goto(w, "free")
  /\ UNCHANGED <<router, dest, held>>

-----------------------------------------------------------------------------
(* Stopping *)

\* Close() takes all entries.
CloseBegin ==
  /\ ~closed /\ closed' = TRUE
  /\ outbound' = [d \in Dests |-> NoWorker]
  /\ UNCHANGED <<cancelled, closeDone, offered, budget, pc, dest, queue, held>>

\* Close() cancels the context, or the caller of Run does.
Cancel ==
  /\ ~cancelled /\ cancelled' = TRUE
  /\ UNCHANGED <<outbound, closed, closeDone, offered, budget, pc, dest, queue, held>>

\* workers.Wait() returns.
CloseEnd ==
  /\ closed /\ cancelled /\ ~closeDone
  /\ \A w \in Workers : pc[w] = "free"
  /\ closeDone' = TRUE
  /\ UNCHANGED <<outbound, closed, cancelled, offered, budget, pc, dest, queue, held>>

-----------------------------------------------------------------------------

Enqueue(d) == EnqueueKnown(d) \/ EnqueueNew(d) \/ EnqueueRefused(d)

Work(w) ==
  Forward(w) \/ Release(w) \/ IdleCheck(w) \/ Quit(w) \/ Unmap(w) \/ Drain(w)

Next ==
  \/ CloseBegin \/ Cancel \/ CloseEnd
  \/ \E d \in Dests : Enqueue(d)
  \/ \E w \in Workers : Take(w) \/ IdleFires(w) \/ Work(w)

Spec == Init /\ [][Next]_vars

\* A goroutine that can run does run.  Of the ready cases of a select Go takes one at
\* random, so one that is ready again and again is taken.  Close() goes on once begun,
\* and Run closes the router when its context is done.
Fairness ==
  /\ \A w \in Workers : WF_vars(Work(w)) /\ SF_vars(Take(w)) /\ SF_vars(Quit(w))
  /\ WF_vars(closed /\ Cancel) /\ WF_vars(cancelled /\ CloseBegin) /\ WF_vars(CloseEnd)

FairSpec == Spec /\ Fairness

-----------------------------------------------------------------------------
(* Properties *)

\* Every variable keeps its type, and the bounds of the code hold.
TypeOK ==
  /\ outbound \in [Dests -> Workers \union {NoWorker}]
  /\ budget \in 0 .. BudgetMax
  /\ closed \in BOOLEAN /\ cancelled \in BOOLEAN /\ closeDone \in BOOLEAN
  /\ offered \in 0 .. Len(Bytes)
  /\ pc \in [Workers -> Labels]
  /\ dest \in [Workers -> Dests]
  /\ queue \in [Workers -> Seq(Packets)]
  /\ \A w \in Workers : Len(queue[w]) <= Capacity
  /\ held \in [Workers -> Packets \union {0}]

\* r.writeBudget is exactly the bytes of the packets accepted and not yet done with,
\* whatever workers end, are replaced or are stopped: it neither leaks, which would in
\* the end drop all traffic of the host, nor admits more than the budget.
InFlight(w) == BytesOf(queue[w]) + IF held[w] = 0 THEN 0 ELSE Bytes[held[w]]

BudgetExact ==
  budget = FoldFunction(LAMBDA n, sum : n + sum, 0, [w \in Workers |-> InFlight(w)])

\* What the kernel sees: each destination is a FIFO lane that loses an accepted packet
\* only when the router stops, although workers end when idle and are started again; and
\* no packet stays in its lane for ever.
Load(w) == (IF pc[w] = "forward" THEN <<held[w]>> ELSE <<>>) \o queue[w]

Loaded(d) == {w \in Workers : dest[w] = d /\ Load(w) # <<>>}

LaneOf(d) == IF Loaded(d) = {} THEN <<>> ELSE Load(CHOOSE w \in Loaded(d) : TRUE)

Lanes == INSTANCE PacketLanes WITH lane <- [d \in Dests |-> LaneOf(d)], stopping <- ~Running

ImplementsLanes == Lanes!Promise

\* A router that is stopped, from either side, comes to an end.
StopReturns == (closed \/ cancelled) ~> closeDone
=============================================================================
