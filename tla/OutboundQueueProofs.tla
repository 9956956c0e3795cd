------------------------ MODULE OutboundQueueProofs ------------------------
(* What is proved of OutboundQueue, for every value of the constants. *)
EXTENDS OutboundQueue, SequenceTheorems, FiniteSetTheorems, WellFoundedInduction, TLAPS

-----------------------------------------------------------------------------
(* The workers *)

Busy == {"select", "forward", "release", "idle"}

QueueType ==
  /\ outbound \in [Dests -> Workers \union {NoWorker}]
  /\ closed \in BOOLEAN /\ cancelled \in BOOLEAN /\ closeDone \in BOOLEAN /\ offered \in Nat
  /\ pc \in [Workers -> Labels] /\ dest \in [Workers -> Dests]
  /\ queue \in [Workers -> Seq(Packets)] /\ held \in [Workers -> Packets \union {0}]

\* An entry leads to a worker of that destination.  As long as the router runs, a worker
\* that is not about to end has its entry, and one that is has nothing left.
Wired ==
  /\ \A d \in Dests : outbound[d] # NoWorker =>
       /\ dest[outbound[d]] = d
       /\ pc[outbound[d]] \in Busy \/ (cancelled /\ pc[outbound[d]] = "remove")
  /\ \A w \in Workers :
       /\ Running /\ pc[w] \in Busy => outbound[dest[w]] = w
       /\ Running /\ pc[w] \notin Busy => queue[w] = <<>>
       /\ pc[w] = "free" => queue[w] = <<>>
       /\ held[w] # 0 <=> pc[w] \in {"forward", "release"}

Workings == QueueType /\ Wired

\* What has been read from the TUN is a packet.
LEMMA NextIsPacket == ASSUME QueueType, NextPacket PROVE offered + 1 \in Packets /\ offered' \in Nat
BY DEF QueueType, NextPacket

LEMMA EnqueueStep == ASSUME Workings, NEW d \in Dests, Enqueue(d) PROVE Workings'
<1> DEFINE k == offered + 1
<1>1. CASE EnqueueRefused(d)
  BY <1>1, NextIsPacket DEF EnqueueRefused, Workings, QueueType, Wired, Running
<1>2. ASSUME NEW w \in Workers, Push(w, k), NextPacket
      PROVE  /\ queue' \in [Workers -> Seq(Packets)] /\ offered' \in Nat
             /\ \A v \in Workers : v # w => queue'[v] = queue[v]
  <2>1. k \in Packets /\ offered' \in Nat
    BY <1>2, NextIsPacket DEF Workings
  <2>2. queue[w] \in Seq(Packets) /\ Append(queue[w], k) \in Seq(Packets)
    BY <2>1, AppendProperties DEF Workings, QueueType
  <2> QED
    BY <1>2, <2>1, <2>2 DEF Push, Workings, QueueType
<1>3. CASE EnqueueKnown(d)
  <2>1. outbound[d] \in Workers /\ pc[outbound[d]] \in Busy
    BY <1>3 DEF EnqueueKnown, Running, Workings, QueueType, Wired
  <2> QED
    BY <1>2, <1>3, <2>1 DEF EnqueueKnown, Workings, QueueType, Wired, Running, Busy
<1>4. CASE EnqueueNew(d)
  <2>1. PICK w \in Workers :
          /\ pc[w] = "free" /\ pc' = [pc EXCEPT ![w] = "select"]
          /\ dest' = [dest EXCEPT ![w] = d] /\ outbound' = [outbound EXCEPT ![d] = w]
          /\ Push(w, k)
    BY <1>4 DEF EnqueueNew
  <2>2. Running /\ NextPacket /\ outbound[d] = NoWorker /\ UNCHANGED <<closed, cancelled, closeDone, held>>
    BY <1>4 DEF EnqueueNew
  <2>3. QueueType'
    BY <1>2, <2>1, <2>2 DEF Workings, QueueType, Labels
  <2>4. ASSUME NEW e \in Dests, outbound[e] = w PROVE FALSE
    <3>1. pc[w] \in Busy \/ pc[w] = "remove"
      BY <2>4, QueueAssumption DEF Workings, Wired
    <3> QED
      BY <2>1, <3>1 DEF Busy
  <2>5. Wired'
    BY <1>2, <2>1, <2>2, <2>4, QueueAssumption DEF Workings, QueueType, Wired, Running, Busy
  <2> QED
    BY <2>3, <2>5 DEF Workings
<1> QED
  BY <1>1, <1>3, <1>4 DEF Enqueue

LEMMA TakeStep == ASSUME Workings, NEW w \in Workers, Take(w) PROVE Workings'
<1>1. Head(queue[w]) \in Packets /\ Tail(queue[w]) \in Seq(Packets)
  BY HeadTailProperties DEF Take, Workings, QueueType
<1>2. Packets \subseteq Nat \ {0}
  BY QueueAssumption, LenProperties DEF Packets
<1>3. QueueType'
  BY <1>1 DEF Take, Goto, router, Workings, QueueType, Labels
<1>4. Wired'
  BY <1>1, <1>2 DEF Take, Goto, router, Workings, QueueType, Wired, Running, Busy
<1> QED
  BY <1>3, <1>4 DEF Workings

LEMMA WorkStep == ASSUME Workings, NEW w \in Workers, IdleFires(w) \/ Work(w) PROVE Workings'
<1> USE DEF Goto, router, Workings, QueueType, Wired, Running, Busy, Labels
<1>1. CASE Forward(w)
  BY <1>1 DEF Forward
<1>2. CASE Release(w)
  BY <1>2 DEF Release
<1>3. CASE IdleFires(w)
  BY <1>3 DEF IdleFires
<1>4. CASE IdleCheck(w)
  <2>1. CASE outbound[dest[w]] = w /\ queue[w] = <<>>
    <3>1. /\ outbound' = [outbound EXCEPT ![dest[w]] = NoWorker]
          /\ pc' = [pc EXCEPT ![w] = "remove"] /\ pc[w] = "idle"
          /\ UNCHANGED <<closed, cancelled, closeDone, offered, budget, dest, queue, held>>
      BY <1>4, <2>1 DEF IdleCheck
    <3>2. QueueType'
      BY <3>1
    <3>3. Wired'
      BY <2>1, <3>1, QueueAssumption
    <3> QED
      BY <3>2, <3>3
  <2>2. CASE ~(outbound[dest[w]] = w /\ queue[w] = <<>>)
    <3>1. /\ pc' = [pc EXCEPT ![w] = "select"] /\ pc[w] = "idle"
          /\ UNCHANGED <<outbound, closed, cancelled, closeDone, offered, budget, dest, queue, held>>
      BY <1>4, <2>2 DEF IdleCheck
    <3>2. QueueType'
      BY <3>1
    <3>3. Wired'
      BY <3>1
    <3> QED
      BY <3>2, <3>3
  <2> QED
    BY <2>1, <2>2
<1>5. CASE Quit(w)
  BY <1>5 DEF Quit
<1>6. CASE Unmap(w)
  BY <1>6, QueueAssumption DEF Unmap
<1>7. CASE Drain(w)
  BY <1>7 DEF Drain
<1> QED
  BY <1>1, <1>2, <1>3, <1>4, <1>5, <1>6, <1>7 DEF Work

LEMMA WorkingsBegin == Init => Workings
<1> SUFFICES ASSUME Init PROVE Workings
  OBVIOUS
<1>1. (CHOOSE d \in Dests : TRUE) \in Dests
  BY QueueAssumption
<1>2. QueueType
  <2>1. queue \in [Workers -> Seq(Packets)]
    BY DEF Init
  <2>2. outbound \in [Dests -> Workers \union {NoWorker}] /\ dest \in [Workers -> Dests]
    BY <1>1 DEF Init
  <2>3. pc \in [Workers -> Labels] /\ held \in [Workers -> Packets \union {0}]
    BY DEF Init, Labels
  <2> QED
    BY <2>1, <2>2, <2>3 DEF Init, QueueType
<1>3. Wired
  BY <1>1 DEF Init, Wired, Busy
<1> QED
  BY <1>2, <1>3 DEF Workings

LEMMA WorkingsStep == Workings /\ [Next]_vars => Workings'
<1> SUFFICES ASSUME Workings, [Next]_vars PROVE Workings'
  OBVIOUS
<1>1. CASE CloseBegin
  BY <1>1 DEF CloseBegin, Workings, QueueType, Wired, Running
<1>3. CASE Cancel
  BY <1>3 DEF Cancel, Workings, QueueType, Wired, Running
<1>4. CASE CloseEnd
  BY <1>4 DEF CloseEnd, Workings, QueueType, Wired, Running
<1>2. CASE UNCHANGED vars
  BY <1>2 DEF vars, router, Workings, QueueType, Wired, Running
<1> QED
  BY <1>1, <1>2, <1>3, <1>4, EnqueueStep, TakeStep, WorkStep DEF Next

-----------------------------------------------------------------------------
(* What a step does to the packets that are accepted and not sent *)

Untouched(W) == \A w \in W : Load(w)' = Load(w) /\ (Load(w) # <<>> => dest'[w] = dest[w])

\* A packet joins a worker that is the only one of its destination that has any.
Joins(w, k) ==
  /\ Running /\ Running' /\ Untouched(Workers \ {w})
  /\ Load(w)' = Append(Load(w), k) /\ (Load(w) # <<>> => dest'[w] = dest[w])
  /\ \A v \in Workers : Load(v) # <<>> /\ dest[v] = dest'[w] => v = w

\* The first packet of a worker leaves, or all that it has.
Leaves(w) ==
  /\ Load(w) # <<>> /\ Running' = Running /\ UNCHANGED dest /\ Untouched(Workers \ {w})
  /\ Load(w)' = Tail(Load(w)) \/ (~Running /\ Load(w)' = <<>>)

LEMMA LoadType == Workings => \A w \in Workers : Load(w) \in Seq(Packets)
<1> SUFFICES ASSUME Workings, NEW w \in Workers PROVE Load(w) \in Seq(Packets)
  OBVIOUS
<1>1. queue[w] \in Seq(Packets) /\ <<>> \in Seq(Packets)
  BY DEF Workings, QueueType
<1>2. pc[w] = "forward" => held[w] \in Packets
  BY DEF Workings, QueueType, Wired
<1>3. (IF pc[w] = "forward" THEN <<held[w]>> ELSE <<>>) \in Seq(Packets)
  BY <1>2
<1> QED
  BY <1>1, <1>3, ConcatProperties DEF Load

LEMMA LoadIs ==
  ASSUME Workings, NEW w \in Workers
  PROVE  /\ pc[w] # "forward" => Load(w) = queue[w]
         /\ pc[w] = "forward" => Load(w) = <<held[w]>> \o queue[w] /\ Load(w) # <<>>
                                 /\ Tail(Load(w)) = queue[w]
<1>1. queue[w] \in Seq(Packets)
  BY DEF Workings, QueueType
<1>2. CASE pc[w] # "forward"
  BY <1>1, <1>2, ConcatEmptySeq DEF Load
<1>3. CASE pc[w] = "forward"
  <2>1. held[w] \in Packets
    BY <1>3 DEF Workings, QueueType, Wired
  <2>2. Load(w) = <<held[w]>> \o queue[w]
    BY <1>3 DEF Load
  <2>3. Load(w) \in Seq(Packets) /\ Len(Load(w)) = Len(queue[w]) + 1
        /\ \A i \in 1 .. Len(queue[w]) : Load(w)[i + 1] = queue[w][i]
    BY <1>1, <2>1, <2>2, ConcatProperties, LenProperties
  <2>4. Load(w) # <<>>
    BY <1>1, <2>3
  <2>5. Tail(Load(w)) = queue[w]
    BY <1>1, <2>3, <2>4, HeadTailProperties, SeqEqual, LenProperties
  <2> QED
    BY <1>3, <2>2, <2>4, <2>5
<1> QED
  BY <1>2, <1>3

\* While the router runs, only the worker that has the entry of its destination has packets.
LEMMA LoadedIsMapped ==
  ASSUME Workings, Running, NEW w \in Workers, Load(w) # <<>> PROVE outbound[dest[w]] = w
BY LoadIs DEF Workings, Wired, Busy

LEMMA AppendAfter ==
  ASSUME NEW p \in Seq(Packets), NEW q \in Seq(Packets), NEW k \in Packets
  PROVE  p \o Append(q, k) = Append(p \o q, k)
<1>1. Append(q, k) = q \o <<k>> /\ <<k>> \in Seq(Packets)
  BY AppendIsConcat
<1>2. p \o q \in Seq(Packets)
  BY ConcatProperties
<1>3. Append(p \o q, k) = (p \o q) \o <<k>>
  BY <1>2, AppendIsConcat
<1> QED
  BY <1>1, <1>3, ConcatAssociative

LEMMA PushLoad ==
  ASSUME Workings, NEW w \in Workers, NEW k \in Packets, Push(w, k), UNCHANGED held,
         pc[w] = "forward" <=> pc'[w] = "forward"
  PROVE  Load(w)' = Load(w) \/ Load(w)' = Append(Load(w), k)
<1> DEFINE p == IF pc[w] = "forward" THEN <<held[w]>> ELSE <<>>
<1>1. p \in Seq(Packets) /\ queue[w] \in Seq(Packets)
  BY DEF Workings, QueueType, Wired
<1>2. Load(w) = p \o queue[w] /\ Load(w)' = p \o queue'[w]
  BY DEF Load
<1>3. CASE UNCHANGED queue
  BY <1>2, <1>3
<1>4. CASE queue'[w] = Append(queue[w], k)
  BY <1>1, <1>2, <1>4, AppendAfter
<1> QED
  BY <1>3, <1>4 DEF Push, Workings, QueueType

LEMMA EnqueueLoads ==
  ASSUME Workings, NEW d \in Dests, Enqueue(d)
  PROVE  Untouched(Workers) \/ \E w \in Workers, k \in Packets : Joins(w, k)
<1> DEFINE k == offered + 1
<1>1. CASE EnqueueRefused(d)
  BY <1>1 DEF EnqueueRefused, Untouched, Load
<1>2. ASSUME NEW w \in Workers, Push(w, k), Running, NextPacket, UNCHANGED <<closed, cancelled, held>>,
             pc[w] = "forward" <=> pc'[w] = "forward",
             \A v \in Workers \ {w} : pc'[v] = pc[v] /\ dest'[v] = dest[v],
             Load(w) # <<>> => dest'[w] = dest[w],
             \A v \in Workers : Load(v) # <<>> /\ dest[v] = dest'[w] => v = w
      PROVE  Untouched(Workers) \/ Joins(w, k)
  <2>1. k \in Packets
    BY <1>2, NextIsPacket DEF Workings
  <2>2. \A v \in Workers \ {w} : queue'[v] = queue[v]
    BY <1>2 DEF Push, Workings, QueueType
  <2>3. Untouched(Workers \ {w})
    BY <1>2, <2>2 DEF Untouched, Load
  <2>4. Load(w)' = Load(w) \/ Load(w)' = Append(Load(w), k)
    BY <1>2, <2>1, PushLoad
  <2> QED
    BY <1>2, <2>3, <2>4 DEF Untouched, Joins, Running
<1>3. CASE EnqueueKnown(d)
  <2>1. outbound[d] \in Workers /\ dest[outbound[d]] = d
    BY <1>3 DEF EnqueueKnown, Workings, QueueType, Wired
  <2>2. \A v \in Workers : Load(v) # <<>> /\ dest[v] = d => v = outbound[d]
    BY <1>3, LoadedIsMapped DEF EnqueueKnown
  <2>3. k \in Packets
    BY <1>3, NextIsPacket DEF EnqueueKnown, Workings
  <2> QED
    BY <1>2, <1>3, <2>1, <2>2, <2>3 DEF EnqueueKnown
<1>4. CASE EnqueueNew(d)
  <2>1. PICK w \in Workers :
          /\ pc[w] = "free" /\ pc' = [pc EXCEPT ![w] = "select"]
          /\ dest' = [dest EXCEPT ![w] = d] /\ Push(w, k)
    BY <1>4 DEF EnqueueNew
  <2>2. /\ Running /\ NextPacket /\ outbound[d] = NoWorker
        /\ UNCHANGED <<closed, cancelled, held>>
    BY <1>4 DEF EnqueueNew
  <2>3. /\ pc[w] = "forward" <=> pc'[w] = "forward"
        /\ \A v \in Workers \ {w} : pc'[v] = pc[v] /\ dest'[v] = dest[v]
        /\ dest'[w] = d
    BY <2>1 DEF Workings, QueueType
  <2>4. Load(w) = <<>>
    BY <2>1, LoadIs DEF Workings, Wired
  <2>5. \A v \in Workers : Load(v) # <<>> /\ dest[v] = d => v = w
    BY <2>2, LoadedIsMapped, QueueAssumption
  <2>6. k \in Packets
    BY <2>2, NextIsPacket DEF Workings
  <2> QED
    BY <1>2, <2>1, <2>2, <2>3, <2>4, <2>5, <2>6
<1> QED
  BY <1>1, <1>3, <1>4 DEF Enqueue

LEMMA WorkLoads ==
  ASSUME Workings, NEW w \in Workers, Take(w) \/ IdleFires(w) \/ Work(w)
  PROVE  Untouched(Workers) \/ Leaves(w)
<1>0. /\ queue[w] \in Seq(Packets) /\ pc \in [Workers -> Labels]
      /\ queue \in [Workers -> Seq(Packets)]
  BY DEF Workings, QueueType
<1>1. CASE Take(w)
  <2>1. /\ pc[w] = "select" /\ pc'[w] = "forward" /\ queue[w] # <<>>
        /\ held'[w] = Head(queue[w]) /\ queue'[w] = Tail(queue[w]) /\ UNCHANGED dest
        /\ \A v \in Workers \ {w} : pc'[v] = pc[v] /\ held'[v] = held[v] /\ queue'[v] = queue[v]
    BY <1>1 DEF Take, Goto, Workings, QueueType
  <2>2. Load(w) = queue[w] /\ Load(w)' = <<Head(queue[w])>> \o Tail(queue[w])
    BY <2>1, LoadIs DEF Load
  <2>3. <<Head(queue[w])>> \o Tail(queue[w]) = queue[w]
    <3>1. /\ Head(queue[w]) \in Packets /\ Tail(queue[w]) \in Seq(Packets)
          /\ Len(Tail(queue[w])) = Len(queue[w]) - 1
          /\ \A i \in 1 .. Len(Tail(queue[w])) : Tail(queue[w])[i] = queue[w][i + 1]
          /\ Head(queue[w]) = queue[w][1]
      <4>1. /\ Head(queue[w]) \in Packets /\ Tail(queue[w]) \in Seq(Packets)
            /\ Len(Tail(queue[w])) = Len(queue[w]) - 1
            /\ \A i \in 1 .. Len(Tail(queue[w])) : Tail(queue[w])[i] = queue[w][i + 1]
        BY <1>0, <2>1, HeadTailProperties
      <4>2. Head(queue[w]) = queue[w][1]
        BY <1>0, <2>1, SMT
      <4> QED
        BY <4>1, <4>2
    <3> DEFINE q == <<Head(queue[w])>> \o Tail(queue[w])
    <3>2. /\ q \in Seq(Packets) /\ Len(q) = 1 + Len(Tail(queue[w]))
          /\ \A i \in 1 .. 1 + Len(Tail(queue[w])) :
               q[i] = IF i <= 1 THEN Head(queue[w]) ELSE Tail(queue[w])[i - 1]
      <4>1. <<Head(queue[w])>> \in Seq(Packets) /\ Len(<<Head(queue[w])>>) = 1
            /\ <<Head(queue[w])>>[1] = Head(queue[w])
        BY <3>1
      <4>2. /\ q \in Seq(Packets) /\ Len(q) = 1 + Len(Tail(queue[w]))
            /\ \A i \in 1 .. 1 + Len(Tail(queue[w])) :
                 q[i] = IF i <= 1 THEN <<Head(queue[w])>>[i] ELSE Tail(queue[w])[i - 1]
        BY <3>1, <4>1, ConcatProperties
      <4> QED
        BY <4>1, <4>2
    <3> HIDE DEF q
    <3>3. Len(q) = Len(queue[w]) /\ Len(queue[w]) \in Nat
      BY <1>0, <3>1, <3>2, LenProperties
    <3>4. \A i \in 1 .. Len(q) : q[i] = queue[w][i]
      BY <3>1, <3>2, <3>3
    <3>5. q = queue[w]
      BY <1>0, <3>2, <3>3, <3>4, SeqEqual
    <3> QED
      BY <3>5 DEF q
  <2> QED
    BY <2>1, <2>2, <2>3 DEF Untouched, Load
<1>2. CASE Forward(w)
  <2>1. /\ pc[w] = "forward" /\ pc'[w] = "release" /\ UNCHANGED <<router, dest, queue, held>>
        /\ \A v \in Workers \ {w} : pc'[v] = pc[v]
    BY <1>0, <1>2 DEF Forward, Goto
  <2>2. Load(w)' = queue[w]
    BY <1>0, <2>1, ConcatEmptySeq DEF Load
  <2>3. Load(w) # <<>> /\ Tail(Load(w)) = queue[w]
    BY <2>1, LoadIs
  <2> QED
    BY <2>1, <2>2, <2>3 DEF Leaves, Untouched, Load, Running, router
<1>3. CASE Drain(w)
  <2>1. /\ pc[w] = "drain" /\ pc'[w] = "free" /\ UNCHANGED <<router, dest, held>>
        /\ queue'[w] = <<>>
        /\ \A v \in Workers \ {w} : pc'[v] = pc[v] /\ queue'[v] = queue[v]
    BY <1>0, <1>3 DEF Drain, Goto
  <2>2. Load(w) = queue[w] /\ Load(w)' = <<>>
    BY <2>1, LoadIs DEF Load
  <2>3. Running => queue[w] = <<>>
    BY <2>1 DEF Workings, Wired, Busy
  <2> QED
    BY <2>1, <2>2, <2>3 DEF Leaves, Untouched, Load, Running, router
<1>4. CASE Release(w) \/ IdleFires(w) \/ IdleCheck(w) \/ Quit(w) \/ Unmap(w)
  <2>1. /\ UNCHANGED <<dest, queue>> /\ pc[w] # "forward" /\ pc'[w] # "forward"
        /\ \A v \in Workers \ {w} : pc'[v] = pc[v] /\ held'[v] = held[v]
    BY <1>0, <1>4 DEF Release, IdleFires, IdleCheck, Quit, Unmap, Goto, Workings, QueueType
  <2> QED
    BY <2>1 DEF Untouched, Load
<1> QED
  BY <1>1, <1>2, <1>3, <1>4 DEF Work

\* Every step leaves what the workers have, adds to one, or takes from one.
LEMMA LoadsStep ==
  ASSUME Workings, [Next]_vars
  PROVE  /\ Running' => Running
         /\ \/ Untouched(Workers)
            \/ \E w \in Workers, k \in Packets : Joins(w, k)
            \/ \E w \in Workers : Leaves(w)
<1>1. CASE UNCHANGED vars
  BY <1>1 DEF vars, router, Untouched, Load, Running
<1>2. CASE CloseBegin \/ Cancel \/ CloseEnd
  <2>1. UNCHANGED <<pc, dest, queue, held>>
    BY <1>2 DEF CloseBegin, Cancel, CloseEnd
  <2>2. Running' => Running
    BY <1>2 DEF CloseBegin, Cancel, CloseEnd, Running
  <2> QED
    BY <2>1, <2>2 DEF Untouched, Load
<1>3. ASSUME NEW d \in Dests, Enqueue(d)
      PROVE  (Running' => Running)
             /\ (Untouched(Workers) \/ \E w \in Workers, k \in Packets : Joins(w, k))
  <2>1. UNCHANGED <<closed, cancelled>>
    BY <1>3 DEF Enqueue, EnqueueKnown, EnqueueNew, EnqueueRefused
  <2> QED
    BY <1>3, <2>1, EnqueueLoads DEF Running
<1>4. ASSUME NEW w \in Workers, Take(w) \/ IdleFires(w) \/ Work(w)
      PROVE  (Running' => Running) /\ (Untouched(Workers) \/ Leaves(w))
  <2>1. UNCHANGED <<closed, cancelled>>
    BY <1>4 DEF Take, IdleFires, Work, Forward, Release, IdleCheck, Quit, Unmap, Drain, router
  <2> QED
    BY <1>4, <2>1, WorkLoads DEF Running
<1> QED
  BY <1>1, <1>2, <1>3, <1>4 DEF Next

-----------------------------------------------------------------------------
(* Lanes *)

\* No two workers have packets of one destination.
OneLoaded ==
  \A v, w \in Workers : dest[v] = dest[w] /\ Load(v) # <<>> /\ Load(w) # <<>> => v = w

LEMMA OneLoadedStep == Workings /\ OneLoaded /\ [Next]_vars => OneLoaded'
<1> SUFFICES ASSUME Workings, OneLoaded, [Next]_vars PROVE OneLoaded'
  OBVIOUS
<1>1. CASE Untouched(Workers)
  BY <1>1 DEF Untouched, OneLoaded
<1>2. ASSUME NEW w \in Workers, NEW k \in Packets, Joins(w, k) PROVE OneLoaded'
  BY <1>2 DEF Joins, Untouched, OneLoaded
<1>3. ASSUME NEW w \in Workers, Leaves(w) PROVE OneLoaded'
  BY <1>3 DEF Leaves, Untouched, OneLoaded
<1> QED
  BY <1>1, <1>2, <1>3, LoadsStep

\* The lane of a destination is what its only worker with packets has.
Laned ==
  \A d \in Dests :
    /\ \A w \in Workers : dest[w] = d /\ Load(w) # <<>> => LaneOf(d) = Load(w)
    /\ (\A w \in Workers : dest[w] = d => Load(w) = <<>>) => LaneOf(d) = <<>>

LEMMA LaneIs == OneLoaded => Laned
<1> SUFFICES ASSUME OneLoaded, NEW d \in Dests
             PROVE  /\ \A w \in Workers : dest[w] = d /\ Load(w) # <<>> => LaneOf(d) = Load(w)
                    /\ (\A w \in Workers : dest[w] = d => Load(w) = <<>>) => LaneOf(d) = <<>>
  BY DEF Laned
<1>1. ASSUME NEW w \in Workers, dest[w] = d, Load(w) # <<>> PROVE LaneOf(d) = Load(w)
  <2>1. w \in Loaded(d)
    BY <1>1 DEF Loaded
  <2>2. (CHOOSE v \in Loaded(d) : TRUE) \in Loaded(d)
    BY <2>1
  <2>3. (CHOOSE v \in Loaded(d) : TRUE) = w
    BY <1>1, <2>2 DEF Loaded, OneLoaded
  <2> QED
    BY <2>1, <2>3 DEF LaneOf
<1>2. ASSUME \A w \in Workers : dest[w] = d => Load(w) = <<>> PROVE LaneOf(d) = <<>>
  BY <1>2 DEF LaneOf, Loaded
<1> QED
  BY <1>1, <1>2

LEMMA LaneIsThen == OneLoaded' => Laned'
BY LaneIs, PTL

\* A destination whose workers keep their packets keeps its lane.
LEMMA LaneKept ==
  ASSUME OneLoaded, OneLoaded', NEW d \in Dests,
         \A v \in Workers : dest[v] = d /\ Load(v) # <<>>
                            => dest'[v] = d /\ Load(v)' = Load(v),
         \A v \in Workers : dest'[v] = d /\ Load(v)' # <<>>
                            => dest[v] = d /\ Load(v) # <<>>
  PROVE  LaneOf(d)' = LaneOf(d)
<1>1. /\ \A w \in Workers : dest[w] = d /\ Load(w) # <<>> => LaneOf(d) = Load(w)
      /\ (\A w \in Workers : dest[w] = d => Load(w) = <<>>) => LaneOf(d) = <<>>
  BY LaneIs DEF Laned
<1>3. /\ \A w \in Workers : dest'[w] = d /\ Load(w)' # <<>> => LaneOf(d)' = Load(w)'
      /\ (\A w \in Workers : dest'[w] = d => Load(w)' = <<>>) => LaneOf(d)' = <<>>
  BY LaneIsThen DEF Laned
<1>4. CASE \E w \in Workers : dest[w] = d /\ Load(w) # <<>>
  BY <1>1, <1>3, <1>4
<1>5. CASE \A w \in Workers : dest[w] = d => Load(w) = <<>>
  BY <1>1, <1>3, <1>5
<1> QED
  BY <1>4, <1>5

LEMMA LaneStep == Workings /\ OneLoaded /\ OneLoaded' /\ [Next]_vars
                  => [Lanes!LaneNext]_<<[d \in Dests |-> LaneOf(d)], ~Running>>
<1> SUFFICES ASSUME Workings, OneLoaded, OneLoaded', [Next]_vars
             PROVE  [Lanes!LaneNext]_<<[d \in Dests |-> LaneOf(d)], ~Running>>
  OBVIOUS
<1> DEFINE lanes == [d \in Dests |-> LaneOf(d)]
<1>1. CASE Untouched(Workers)
  <2>1. ASSUME NEW d \in Dests PROVE LaneOf(d)' = LaneOf(d)
    BY <1>1, LaneKept DEF Untouched
  <2>2. lanes' = lanes
    BY <2>1
  <2>3. CASE Running' = Running
    BY <2>2, <2>3
  <2>4. CASE Running /\ ~Running'
    BY <2>2, <2>4 DEF Lanes!LaneNext, Lanes!Stop
  <2> QED
    BY <2>3, <2>4, LoadsStep DEF Running
<1>2. ASSUME NEW w \in Workers, NEW k \in Packets, Joins(w, k)
      PROVE  Lanes!LaneNext
  <2>1. PICK d \in Dests : dest'[w] = d
    BY WorkingsStep DEF Workings, QueueType
  <2>2. Load(w) \in Seq(Packets) /\ Load(w)' = Append(Load(w), k)
    BY <1>2, LoadType DEF Joins
  <2>3. Load(w)' # <<>>
    BY <2>2, AppendProperties, EmptySeq
  <2>4. LaneOf(d)' = Load(w)'
    BY <2>1, <2>3, LaneIsThen DEF Laned
  <2>5. LaneOf(d) = Load(w)
    <3>1. CASE Load(w) # <<>>
      BY <1>2, <2>1, <3>1, LaneIs DEF Joins, Laned
    <3>2. CASE Load(w) = <<>>
      <4>1. \A v \in Workers : dest[v] = d => Load(v) = <<>>
        BY <1>2, <2>1, <3>2 DEF Joins
      <4> QED
        BY <2>1, <3>2, <4>1, LaneIs DEF Laned
    <3> QED
      BY <3>1, <3>2
  <2>6. ASSUME NEW e \in Dests, e # d PROVE LaneOf(e)' = LaneOf(e)
    <3>1. Untouched(Workers \ {w}) /\ (Load(w) # <<>> => dest'[w] = dest[w])
      BY <1>2 DEF Joins
    <3>2. \A v \in Workers : dest[v] = e /\ Load(v) # <<>> => dest'[v] = e /\ Load(v)' = Load(v)
      BY <2>1, <2>6, <3>1 DEF Untouched
    <3>3. \A v \in Workers : dest'[v] = e /\ Load(v)' # <<>> => dest[v] = e /\ Load(v) # <<>>
      BY <2>1, <2>6, <3>1 DEF Untouched
    <3> QED
      BY <3>2, <3>3, LaneKept
  <2>7. lanes' = [lanes EXCEPT ![d] = Append(@, k)]
    BY <2>1, <2>2, <2>4, <2>5, <2>6
  <2>8. ~~Running /\ UNCHANGED ~Running
    BY <1>2 DEF Joins
  <2> QED
    BY <2>1, <2>7, <2>8 DEF Lanes!LaneNext, Lanes!Accept
<1>3. ASSUME NEW w \in Workers, Leaves(w)
      PROVE  Lanes!LaneNext
  <2> DEFINE d == dest[w]
  <2>1. d \in Dests /\ Load(w) # <<>> /\ dest' = dest
    BY <1>3 DEF Leaves, Workings, QueueType
  <2>2. LaneOf(d) = Load(w)
    BY <2>1, LaneIs DEF Laned
  <2>3. LaneOf(d)' = Load(w)'
    <3>1. CASE Load(w)' # <<>>
      BY <2>1, <3>1, LaneIsThen DEF Laned
    <3>2. CASE Load(w)' = <<>>
      <4>1. \A v \in Workers : dest'[v] = d => Load(v)' = <<>>
        BY <1>3, <2>1, <3>2 DEF Leaves, Untouched, OneLoaded
      <4> QED
        BY <2>1, <3>2, <4>1, LaneIsThen DEF Laned
    <3> QED
      BY <3>1, <3>2
  <2>4. ASSUME NEW e \in Dests, e # d PROVE LaneOf(e)' = LaneOf(e)
    <3>1. Untouched(Workers \ {w})
      BY <1>3 DEF Leaves
    <3>2. \A v \in Workers : dest[v] = e /\ Load(v) # <<>> => dest'[v] = e /\ Load(v)' = Load(v)
      BY <2>4, <3>1 DEF Untouched
    <3>3. \A v \in Workers : dest'[v] = e /\ Load(v)' # <<>> => dest[v] = e /\ Load(v) # <<>>
      BY <2>1, <2>4, <3>1 DEF Untouched
    <3> QED
      BY <3>2, <3>3, LaneKept
  <2>5. lanes[d] # <<>> /\ UNCHANGED ~Running
    BY <1>3, <2>1, <2>2 DEF Leaves
  <2>6. CASE Load(w)' = Tail(Load(w))
    <3>1. lanes' = [lanes EXCEPT ![d] = Tail(@)]
      BY <2>1, <2>2, <2>3, <2>4, <2>6
    <3> QED
      BY <2>1, <2>5, <3>1 DEF Lanes!LaneNext, Lanes!Depart
  <2>7. CASE ~Running /\ Load(w)' = <<>>
    <3>1. lanes' = [lanes EXCEPT ![d] = <<>>]
      BY <2>1, <2>3, <2>4, <2>7
    <3> QED
      BY <2>1, <2>5, <2>7, <3>1 DEF Lanes!LaneNext, Lanes!ThrowAway
  <2> QED
    BY <1>3, <2>6, <2>7 DEF Leaves
<1> QED
  BY <1>1, <1>2, <1>3, LoadsStep

LEMMA LanesBegin == Init => OneLoaded /\ Lanes!LaneInit
<1> SUFFICES ASSUME Init PROVE OneLoaded /\ Lanes!LaneInit
  OBVIOUS
<1>1. \A w \in Workers : Load(w) = <<>>
  BY WorkingsBegin, LoadIs DEF Init
<1>2. OneLoaded
  BY <1>1 DEF OneLoaded
<1>3. \A d \in Dests : LaneOf(d) = <<>>
  BY <1>1, <1>2, LaneIs DEF Laned
<1> QED
  BY <1>2, <1>3 DEF Lanes!LaneInit, Init, Running

\* The workers keep the promise of the lanes, but for the time it takes: however workers
\* end, are started again and are stopped, the packets of a destination leave in the order
\* in which they were accepted, none twice, and none is lost before the router stops.
THEOREM LanesAreKept == Spec => Lanes!LaneSpec
<1>1. Init => Workings /\ OneLoaded /\ Lanes!LaneInit
  BY WorkingsBegin, LanesBegin
<1>2. Workings /\ OneLoaded /\ [Next]_vars => Workings' /\ OneLoaded'
  BY WorkingsStep, OneLoadedStep
<1> QED
  BY <1>1, <1>2, LaneStep, PTL DEF Spec, Lanes!LaneSpec

-----------------------------------------------------------------------------
(* Sums over finite sets, in any order *)

\* Any set of numbers has a least element, or there would be no end to finding lesser ones.
LEMMA LeastNumber ==
  ASSUME NEW S \in SUBSET Nat, S # {} PROVE \E x \in S : \A y \in S : x <= y
<1> DEFINE Less == OpToRel(<, Nat)
<1>1. IsWellFoundedOn(Less, Nat)
  BY NatLessThanWellFounded
<1>2. \A x, y \in Nat : x < y => <<x, y>> \in Less
  BY DEF OpToRel
<1> HIDE DEF Less
<1>3. PICK x \in S : \A y \in S : ~(<<y, x>> \in Less)
  BY <1>1, WFMin
<1>4. ASSUME NEW y \in S PROVE x <= y
  <2>1. x \in Nat /\ y \in Nat /\ ~(<<y, x>> \in Less)
    BY <1>3
  <2>2. ~(y < x)
    BY <1>2, <2>1
  <2> QED
    BY <2>1, <2>2
<1> QED
  BY <1>4

\* t[T] is the sum of f over T, whichever element is added last.
Adds(t, f, S) ==
  /\ t[{}] = 0
  /\ \A T \in SUBSET S :
       /\ t[T] \in Nat
       /\ \A x \in T : f[x] \in Nat /\ t[T] = f[x] + t[T \ {x}]

\* Every function to the numbers can be added up: one more element adds what it adds to
\* the sums without it.
LEMMA CanAdd ==
  ASSUME NEW W, IsFiniteSet(W), NEW f \in [W -> Nat]
  PROVE  \E t \in [SUBSET W -> Nat] : Adds(t, f, W)
<1> DEFINE Can(S) == \E t \in [SUBSET S -> Nat] : Adds(t, f, S)
           Bad == {n \in Nat : \E S \in SUBSET W : Cardinality(S) = n /\ ~Can(S)}
<1>1. SUFFICES ASSUME ~Can(W) PROVE FALSE
  OBVIOUS
<1>2. Bad # {}
  <2>1. Cardinality(W) \in Nat
    BY FS_CardinalityType
  <2>2. Cardinality(W) \in Bad
    BY <1>1, <2>1
  <2> QED
    BY <2>2
<1>3. PICK n \in Bad : \A m \in Bad : n <= m
  BY <1>2, LeastNumber
<1>4. PICK S \in SUBSET W : Cardinality(S) = n /\ ~Can(S)
  BY <1>3
<1>5. IsFiniteSet(S) /\ \A x \in S : f[x] \in Nat
  BY FS_Subset
<1>6. CASE S = {}
  <2> DEFINE t == [T \in SUBSET S |-> 0]
  <2>1. t \in [SUBSET S -> Nat] /\ Adds(t, f, S)
    BY <1>6 DEF Adds
  <2> QED
    BY <1>4, <2>1
<1>7. CASE S # {}
  <2>1. PICK x \in S : TRUE
    BY <1>7
  <2>2. Cardinality(S \ {x}) = n - 1 /\ n - 1 \in Nat
    <3>1. IsFiniteSet(S \ {x}) /\ Cardinality(S \ {x}) = Cardinality(S) - 1
      BY <1>5, <2>1, FS_RemoveElement
    <3>2. Cardinality(S \ {x}) \in Nat
      BY <3>1, FS_CardinalityType
    <3> QED
      BY <1>4, <3>1, <3>2
  <2>3. Can(S \ {x})
    <3>1. n - 1 \notin Bad
      <4>1. n \in Nat
        BY <1>3
      <4> HIDE DEF Bad
      <4> QED
        BY <1>3, <2>2, <4>1
    <3>2. S \ {x} \in SUBSET W
      OBVIOUS
    <3> QED
      BY <2>2, <3>1, <3>2
  <2>4. PICK t \in [SUBSET (S \ {x}) -> Nat] : Adds(t, f, S \ {x})
    BY <2>3
  <2> DEFINE u == [T \in SUBSET S |-> IF x \in T THEN f[x] + t[T \ {x}] ELSE t[T]]
  <2>5. \A T \in SUBSET S : T \ {x} \in SUBSET (S \ {x}) /\ (x \notin T => T \in SUBSET (S \ {x}))
    OBVIOUS
  <2>6. u \in [SUBSET S -> Nat]
    BY <1>5, <2>4, <2>5
  <2>7. ASSUME NEW T \in SUBSET S, NEW y \in T PROVE u[T] = f[y] + u[T \ {y}]
    <3>1. CASE y = x
      <4>1. T \ {x} \in SUBSET S /\ x \notin T \ {x}
        OBVIOUS
      <4>2. u[T] = f[x] + t[T \ {x}] /\ u[T \ {x}] = t[T \ {x}]
        BY <3>1, <4>1
      <4> QED
        BY <3>1, <4>2
    <3>2. CASE y # x /\ x \in T
      <4>1. /\ u[T] = f[x] + t[T \ {x}] /\ u[T \ {y}] = f[x] + t[(T \ {y}) \ {x}]
            /\ (T \ {y}) \ {x} = (T \ {x}) \ {y}
        BY <3>2
      <4>2. t[T \ {x}] = f[y] + t[(T \ {x}) \ {y}] /\ t[(T \ {x}) \ {y}] \in Nat
        BY <2>4, <2>5, <3>2 DEF Adds
      <4>3. f[x] \in Nat /\ f[y] \in Nat
        BY <1>5, <2>1
      <4>4. PICK a \in Nat : a = t[(T \ {x}) \ {y}]
        BY <4>2
      <4>5. u[T \ {y}] = f[x] + a /\ u[T] = f[x] + (f[y] + a)
        BY <4>1, <4>2, <4>4
      <4> HIDE DEF u
      <4> QED
        BY <4>3, <4>4, <4>5
    <3>3. CASE x \notin T
      <4>1. u[T] = t[T] /\ u[T \ {y}] = t[T \ {y}]
        BY <3>3
      <4>2. t[T] = f[y] + t[T \ {y}]
        BY <2>4, <2>5, <3>3 DEF Adds
      <4> QED
        BY <4>1, <4>2
    <3> QED
      BY <3>1, <3>2, <3>3
  <2>8. u[{}] = 0
    BY <2>4 DEF Adds
  <2>9. Adds(u, f, S)
    <3> HIDE DEF u
    <3> QED
      BY <1>5, <2>6, <2>7, <2>8 DEF Adds
  <2> QED
    BY <1>4, <2>6, <2>9
<1> QED
  BY <1>6, <1>7

\* s[T] is made by adding the elements of T in some order.
AddsSomehow(s, f, S) ==
  /\ s[{}] = 0
  /\ \A T \in SUBSET S : T # {} =>
       \E x \in T : s[T] = f[x] + s[T \ {x}] \/ s[T] = s[T \ {x}] + f[x]

\* There is one sum, in whatever order its elements are added up.
LEMMA OneSum ==
  ASSUME NEW S, IsFiniteSet(S), NEW f, NEW t, Adds(t, f, S), NEW s, AddsSomehow(s, f, S)
  PROVE  s[S] = t[S]
<1> DEFINE Bad == {n \in Nat : \E T \in SUBSET S : Cardinality(T) = n /\ s[T] # t[T]}
<1>1. SUFFICES ASSUME s[S] # t[S] PROVE FALSE
  OBVIOUS
<1>2. Bad # {}
  <2>1. Cardinality(S) \in Nat
    BY FS_CardinalityType
  <2>2. Cardinality(S) \in Bad
    BY <1>1, <2>1
  <2> QED
    BY <2>2
<1>3. PICK n \in Bad : \A m \in Bad : n <= m
  BY <1>2, LeastNumber
<1>4. PICK T \in SUBSET S : Cardinality(T) = n /\ s[T] # t[T]
  BY <1>3
<1>5. T # {}
  BY <1>4 DEF Adds, AddsSomehow
<1>6. PICK x \in T : s[T] = f[x] + s[T \ {x}] \/ s[T] = s[T \ {x}] + f[x]
  BY <1>5 DEF AddsSomehow
<1>7. s[T \ {x}] = t[T \ {x}]
  <2>1. IsFiniteSet(T)
    BY FS_Subset
  <2>2. IsFiniteSet(T \ {x}) /\ Cardinality(T \ {x}) = Cardinality(T) - 1
    BY <2>1, FS_RemoveElement
  <2>3. Cardinality(T \ {x}) \in Nat /\ Cardinality(T \ {x}) = n - 1
    BY <1>4, <2>2, FS_CardinalityType
  <2>4. n - 1 \notin Bad
    BY <1>3, <2>3
  <2>5. T \ {x} \in SUBSET S
    OBVIOUS
  <2> QED
    BY <2>3, <2>4, <2>5
<1>8. t[T] = f[x] + t[T \ {x}] /\ f[x] \in Nat /\ t[T \ {x}] \in Nat
  <2>1. T \ {x} \in SUBSET S
    OBVIOUS
  <2> QED
    BY <2>1 DEF Adds
<1> QED
  BY <1>4, <1>6, <1>7, <1>8

\* FoldFunction adds up what the workers have.
LEMMA WorkersFold ==
  ASSUME NEW f \in [Workers -> Nat], NEW t, Adds(t, f, Workers)
  PROVE  FoldFunction(LAMBDA n, sum : n + sum, 0, f) = t[Workers]
<1> DEFINE x(S) == CHOOSE w \in S : TRUE
           F(s) == [S \in SUBSET Workers |-> IF S = {} THEN 0 ELSE f[x(S)] + s[S \ {x(S)}]]
           sums == CHOOSE s : s = F(s)
<1>1. FoldFunction(LAMBDA n, sum : n + sum, 0, f) = sums[Workers]
  <2>1. DOMAIN f = Workers
    OBVIOUS
  <2> QED
    BY <2>1 DEF FoldFunction, FoldFunctionOnSet, MapThenFoldSet
<1>2. \A S \in SUBSET Workers : S # {} => x(S) \in S
  OBVIOUS
<1>3. \E s : s = F(s)
  <2> DEFINE u == [S \in SUBSET Workers |-> t[S]]
  <2>1. \A S \in SUBSET Workers : u[S] = IF S = {} THEN 0 ELSE f[x(S)] + u[S \ {x(S)}]
    <3> SUFFICES ASSUME NEW S \in SUBSET Workers
                 PROVE  u[S] = IF S = {} THEN 0 ELSE f[x(S)] + u[S \ {x(S)}]
      OBVIOUS
    <3>1. u[S] = t[S] /\ u[S \ {x(S)}] = t[S \ {x(S)}] /\ t[{}] = 0
      BY DEF Adds
    <3>2. S # {} => t[S] = f[x(S)] + t[S \ {x(S)}]
      BY <1>2 DEF Adds
    <3> HIDE DEF u, x
    <3> QED
      BY <3>1, <3>2
  <2>2. u = F(u)
    BY <2>1
  <2> QED
    BY <2>2
<1>4. sums = F(sums)
  BY <1>3
<1> HIDE DEF sums
<1>5. sums[{}] = 0
  BY <1>4
<1>6. \A S \in SUBSET Workers : S # {} => sums[S] = f[x(S)] + sums[S \ {x(S)}]
  BY <1>4
<1> HIDE DEF x
<1>7. AddsSomehow(sums, f, Workers)
  BY <1>2, <1>5, <1>6 DEF AddsSomehow
<1>8. sums[Workers] = t[Workers]
  BY <1>7, OneSum, QueueAssumption
<1> QED
  BY <1>1, <1>8

\* The bytes of the places of a queue.
BytesAt(q) == [i \in 1 .. Len(q) |-> Bytes[q[i]]]

LEMMA BytesAtType == ASSUME NEW q \in Seq(Packets) PROVE BytesAt(q) \in [1 .. Len(q) -> Nat]
<1>1. \A k \in Packets : Bytes[k] \in Nat
  BY QueueAssumption, LenProperties, ElementOfSeq DEF Packets
<1>2. \A i \in 1 .. Len(q) : q[i] \in Packets
  BY ElementOfSeq
<1> QED
  BY <1>1, <1>2 DEF BytesAt

\* Some number is the greatest of a queue's places.
LEMMA Greatest ==
  ASSUME NEW n \in Nat, NEW S \in SUBSET (1 .. n), S # {}
  PROVE  Max(S) \in S
<1>1. {n - x : x \in S} \in SUBSET Nat /\ {n - x : x \in S} # {}
  <2>1. \A x \in S : n - x \in Nat
    OBVIOUS
  <2>2. PICK x \in S : TRUE
    OBVIOUS
  <2>3. n - x \in {n - z : z \in S}
    OBVIOUS
  <2> QED
    BY <2>1, <2>3
<1>2. PICK m \in {n - x : x \in S} : \A k \in {n - x : x \in S} : m <= k
  BY <1>1, LeastNumber
<1>3. PICK y \in S : m = n - y
  BY <1>2
<1>4. ASSUME NEW x \in S PROVE y >= x
  <2>1. n - y <= n - x
    BY <1>2, <1>3
  <2>2. x \in Int /\ y \in Int
    OBVIOUS
  <2> QED
    BY <2>1, <2>2
<1> QED
  BY <1>3, <1>4 DEF Max

\* FoldLeft adds up the bytes of the places.
LEMMA QueueFold ==
  ASSUME NEW q \in Seq(Packets), NEW t, Adds(t, BytesAt(q), 1 .. Len(q))
  PROVE  BytesOf(q) = t[1 .. Len(q)]
<1> DEFINE D == 1 .. Len(q)
           F(s) == [S \in SUBSET D |-> IF S = {} THEN 0 ELSE s[S \ {Max(S)}] + Bytes[q[Max(S)]]]
           sums == CHOOSE s : s = F(s)
<1>0. DOMAIN q = D /\ Len(q) \in Nat
  BY LenProperties
<1>1. BytesOf(q) = sums[D]
  BY <1>0 DEF BytesOf, FoldLeft, MapThenFoldSet
<1>2. \A S \in SUBSET D : S # {} => Max(S) \in S /\ BytesAt(q)[Max(S)] = Bytes[q[Max(S)]]
  BY <1>0, Greatest DEF BytesAt
<1>3. \E s : s = F(s)
  <2> DEFINE u == [S \in SUBSET D |-> t[S]]
  <2>1. \A S \in SUBSET D : u[S] = IF S = {} THEN 0 ELSE u[S \ {Max(S)}] + Bytes[q[Max(S)]]
    <3> SUFFICES ASSUME NEW S \in SUBSET D
                 PROVE  u[S] = IF S = {} THEN 0 ELSE u[S \ {Max(S)}] + Bytes[q[Max(S)]]
      OBVIOUS
    <3>1. /\ u[S] = t[S] /\ u[S \ {Max(S)}] = t[S \ {Max(S)}] /\ t[{}] = 0
          /\ t[S \ {Max(S)}] \in Nat
      BY DEF Adds
    <3>2. S # {} => /\ t[S] = Bytes[q[Max(S)]] + t[S \ {Max(S)}]
                    /\ Bytes[q[Max(S)]] \in Nat
      BY <1>2 DEF Adds
    <3>3. CASE S = {}
      BY <3>1, <3>3
    <3>4. CASE S # {}
      <4>1. PICK a \in Nat, b \in Nat : a = t[S \ {Max(S)}] /\ b = Bytes[q[Max(S)]]
        BY <3>1, <3>2, <3>4
      <4>2. u[S] = b + a /\ u[S \ {Max(S)}] + Bytes[q[Max(S)]] = a + b
        BY <3>1, <3>2, <3>4, <4>1
      <4>3. a + b = b + a
        OBVIOUS
      <4> HIDE DEF u
      <4> QED
        BY <3>4, <4>2, <4>3
    <3> QED
      BY <3>3, <3>4
  <2>2. u = F(u)
    BY <2>1
  <2> QED
    BY <2>2
<1>4. sums = F(sums)
  BY <1>3
<1> HIDE DEF sums
<1>5. sums[{}] = 0
  BY <1>4
<1>6. \A S \in SUBSET D : S # {} => sums[S] = sums[S \ {Max(S)}] + BytesAt(q)[Max(S)]
  BY <1>2, <1>4
<1>7. AddsSomehow(sums, BytesAt(q), D)
  BY <1>2, <1>5, <1>6 DEF AddsSomehow
<1>8. sums[D] = t[D]
  <2>1. IsFiniteSet(D)
    BY <1>0, FS_Interval
  <2> QED
    BY <1>7, <2>1, OneSum
<1> QED
  BY <1>1, <1>8

\* An empty queue has no bytes.
LEMMA NoBytes == BytesOf(<<>>) = 0
<1> DEFINE none == 1 .. Len(<<>>)
           zero == [T \in {{}} |-> 0]
<1>1. <<>> \in Seq(Packets) /\ none = {}
  OBVIOUS
<1>2. zero[none] = 0 /\ Adds(zero, BytesAt(<<>>), none)
  BY <1>1 DEF Adds
<1> HIDE DEF zero
<1> QED
  BY <1>1, <1>2, QueueFold

\* What enters a queue adds its bytes.
LEMMA AppendBytes ==
  ASSUME NEW q \in Seq(Packets), NEW k \in Packets
  PROVE  /\ BytesOf(q) \in Nat
         /\ BytesOf(Append(q, k)) = BytesOf(q) + Bytes[k]
<1> DEFINE p == Append(q, k)
           n == Len(q)
<1>1. /\ p \in Seq(Packets) /\ n \in Nat /\ Len(p) = n + 1 /\ p[n + 1] = k
      /\ \A i \in 1 .. n : p[i] = q[i]
  BY AppendProperties, LenProperties
<1> HIDE DEF p
<1>2. /\ BytesAt(p) \in [1 .. n + 1 -> Nat] /\ BytesAt(p)[n + 1] = Bytes[k]
      /\ \A i \in 1 .. n : BytesAt(p)[i] = BytesAt(q)[i]
  BY <1>1, BytesAtType DEF BytesAt
<1>3. IsFiniteSet(1 .. n + 1)
  BY <1>1, FS_Interval
<1>4. PICK t : Adds(t, BytesAt(p), 1 .. n + 1)
  BY <1>2, <1>3, CanAdd
<1>5. Adds(t, BytesAt(q), 1 .. n)
  <2>1. 1 .. n \subseteq 1 .. n + 1
    BY <1>1
  <2> QED
    BY <1>2, <1>4, <2>1 DEF Adds
<1>6. BytesOf(p) = t[1 .. n + 1] /\ BytesOf(q) = t[1 .. n]
  BY <1>1, <1>4, <1>5, QueueFold
<1>7. t[1 .. n + 1] = BytesAt(p)[n + 1] + t[1 .. n]
  <2>1. n + 1 \in 1 .. n + 1 /\ (1 .. n + 1) \ {n + 1} = 1 .. n
    BY <1>1
  <2> QED
    BY <1>4, <2>1 DEF Adds
<1>8. t[1 .. n] \in Nat /\ Bytes[k] \in Nat
  BY <1>2, <1>5, <1>1 DEF Adds
<1> QED
  BY <1>2, <1>6, <1>7, <1>8 DEF p

\* What is taken out of a queue takes its bytes away.
LEMMA TailBytes ==
  ASSUME NEW q \in Seq(Packets), q # <<>>
  PROVE  /\ BytesOf(Tail(q)) \in Nat /\ Bytes[Head(q)] \in Nat
         /\ BytesOf(q) = Bytes[Head(q)] + BytesOf(Tail(q))
<1> DEFINE p == Tail(q)
           n == Len(q)
           next(T) == {i + 1 : i \in T}
<1>1. /\ p \in Seq(Packets) /\ n \in Nat \ {0} /\ Len(p) = n - 1
      /\ \A i \in 1 .. n - 1 : p[i] = q[i + 1]
  BY HeadTailProperties, LenProperties, EmptySeq
<1>2. Head(q) = q[1]
  OBVIOUS
<1> HIDE DEF p
<1>3. /\ BytesAt(q) \in [1 .. n -> Nat] /\ BytesAt(q)[1] = Bytes[Head(q)]
      /\ \A i \in 1 .. n - 1 : BytesAt(p)[i] = BytesAt(q)[i + 1]
  BY <1>1, <1>2, BytesAtType DEF BytesAt
<1>4. IsFiniteSet(1 .. n)
  BY <1>1, FS_Interval
<1>5. PICK t : Adds(t, BytesAt(q), 1 .. n)
  BY <1>3, <1>4, CanAdd
<1> DEFINE s == [T \in SUBSET (1 .. n - 1) |-> t[next(T)]]
<1>6. Adds(s, BytesAt(p), 1 .. n - 1)
  <2>1. s[{}] = 0
    <3>1. next({}) = {}
      OBVIOUS
    <3> QED
      BY <1>5, <3>1 DEF Adds
  <2>2. ASSUME NEW T \in SUBSET (1 .. n - 1)
        PROVE  /\ s[T] \in Nat
               /\ \A x \in T : BytesAt(p)[x] \in Nat /\ s[T] = BytesAt(p)[x] + s[T \ {x}]
    <3>1. \A R \in SUBSET (1 .. n - 1) : next(R) \in SUBSET (1 .. n)
      BY <1>1
    <3>2. s[T] = t[next(T)] /\ next(T) \in SUBSET (1 .. n)
      BY <3>1
    <3>3. s[T] \in Nat
      BY <1>5, <3>2 DEF Adds
    <3>4. ASSUME NEW x \in T
          PROVE  BytesAt(p)[x] \in Nat /\ s[T] = BytesAt(p)[x] + s[T \ {x}]
      <4>1. x + 1 \in next(T) /\ next(T \ {x}) = next(T) \ {x + 1}
        <5>1. T \in SUBSET Int
          OBVIOUS
        <5>2. \A y \in T : y + 1 = x + 1 <=> y = x
          BY <5>1
        <5> QED
          BY <5>2
      <4>2. BytesAt(p)[x] = BytesAt(q)[x + 1]
        BY <1>3
      <4>3. s[T \ {x}] = t[next(T \ {x})]
        OBVIOUS
      <4> HIDE DEF next, s
      <4>4. /\ BytesAt(q)[x + 1] \in Nat
            /\ t[next(T)] = BytesAt(q)[x + 1] + t[next(T) \ {x + 1}]
        BY <1>5, <3>2, <4>1 DEF Adds
      <4> QED
        BY <3>2, <4>1, <4>2, <4>3, <4>4
    <3> QED
      BY <3>3, <3>4
  <2> HIDE DEF s
  <2> QED
    BY <2>1, <2>2 DEF Adds
<1>7. BytesOf(q) = t[1 .. n] /\ BytesOf(p) = s[1 .. n - 1]
  BY <1>1, <1>5, <1>6, QueueFold
<1>8. s[1 .. n - 1] = t[(1 .. n) \ {1}]
  <2>1. next(1 .. n - 1) = (1 .. n) \ {1}
    <3>1. \A j \in (1 .. n) \ {1} : j - 1 \in 1 .. n - 1 /\ j = (j - 1) + 1
      BY <1>1
    <3>2. \A i \in 1 .. n - 1 : i + 1 \in (1 .. n) \ {1}
      BY <1>1
    <3>3. \A j \in (1 .. n) \ {1} : j \in next(1 .. n - 1)
      BY <3>1
    <3> QED
      BY <3>2, <3>3
  <2> QED
    BY <2>1
<1>9. /\ t[1 .. n] = BytesAt(q)[1] + t[(1 .. n) \ {1}]
      /\ BytesAt(q)[1] \in Nat /\ t[(1 .. n) \ {1}] \in Nat
  <2>1. 1 \in 1 .. n /\ (1 .. n) \ {1} \in SUBSET (1 .. n)
    BY <1>1
  <2> QED
    BY <1>5, <2>1 DEF Adds
<1> QED
  BY <1>3, <1>7, <1>8, <1>9 DEF p

-----------------------------------------------------------------------------
(* The budget *)

TotalOf(f) == FoldFunction(LAMBDA n, sum : n + sum, 0, f)

InFlights == [w \in Workers |-> InFlight(w)]

\* The total follows what one worker has.
LEMMA OneChanges ==
  ASSUME NEW f \in [Workers -> Nat], NEW g \in [Workers -> Nat], NEW w \in Workers,
         \A v \in Workers \ {w} : g[v] = f[v]
  PROVE  TotalOf(f) \in Nat /\ TotalOf(g) \in Nat /\ TotalOf(g) + f[w] = TotalOf(f) + g[w]
<1>1. PICK t : Adds(t, f, Workers)
  BY CanAdd, QueueAssumption
<1>2. PICK u : Adds(u, g, Workers)
  BY CanAdd, QueueAssumption
<1>3. TotalOf(f) = t[Workers] /\ TotalOf(g) = u[Workers]
  BY <1>1, <1>2, WorkersFold DEF TotalOf
<1> DEFINE W == Workers \ {w}
<1>4. u[W] = t[W]
  <2>1. IsFiniteSet(W)
    BY FS_RemoveElement, QueueAssumption
  <2>2. Adds(t, f, W)
    BY <1>1 DEF Adds
  <2>3. AddsSomehow(u, f, W)
    <3>1. u[{}] = 0
      BY <1>2 DEF Adds
    <3>2. ASSUME NEW T \in SUBSET W, T # {}
          PROVE  \E x \in T : u[T] = f[x] + u[T \ {x}]
      <4>1. PICK x \in T : TRUE
        BY <3>2
      <4>2. T \in SUBSET Workers /\ g[x] = f[x]
        BY <4>1
      <4> QED
        BY <1>2, <4>2 DEF Adds
    <3> QED
      BY <3>1, <3>2 DEF AddsSomehow
  <2> QED
    BY <2>1, <2>2, <2>3, OneSum
<1>5. /\ t[Workers] = f[w] + t[W] /\ u[Workers] = g[w] + u[W]
      /\ t[W] \in Nat /\ t[Workers] \in Nat /\ u[Workers] \in Nat
  BY <1>1, <1>2 DEF Adds
<1> QED
  BY <1>3, <1>4, <1>5

\* Nobody has anything.
LEMMA NothingInFlight == TotalOf([w \in Workers |-> 0]) = 0
<1> DEFINE f == [w \in Workers |-> 0]
           t == [T \in SUBSET Workers |-> 0]
<1>1. f \in [Workers -> Nat] /\ Adds(t, f, Workers) /\ t[Workers] = 0
  BY DEF Adds
<1> HIDE DEF f, t
<1>2. TotalOf(f) = 0
  BY <1>1, WorkersFold DEF TotalOf
<1> QED
  BY <1>2 DEF f

Numbers == InFlights \in [Workers -> Nat]

LEMMA InFlightType == Workings => Numbers
<1> SUFFICES ASSUME Workings, NEW w \in Workers PROVE InFlight(w) \in Nat
  BY DEF Numbers, InFlights
<1>1. queue[w] \in Seq(Packets) /\ held[w] \in Packets \union {0}
  BY DEF Workings, QueueType
<1>2. \A k \in Packets : Bytes[k] \in Nat
  BY QueueAssumption, LenProperties, ElementOfSeq DEF Packets
<1>3. BytesOf(queue[w]) \in Nat
  <2>1. CASE queue[w] = <<>>
    BY <2>1, NoBytes
  <2>2. CASE queue[w] # <<>>
    BY <1>1, <2>2, TailBytes
  <2> QED
    BY <2>1, <2>2
<1>4. held[w] = 0 \/ Bytes[held[w]] \in Nat
  BY <1>1, <1>2
<1> QED
  BY <1>3, <1>4 DEF InFlight

LEMMA InFlightTypeThen == Workings' => Numbers'
BY InFlightType, PTL

\* What is asked of the budget: it is exact, it and the queues stay within their bounds.
Accounts ==
  /\ budget = TotalOf(InFlights)
  /\ budget <= BudgetMax
  /\ \A w \in Workers : Len(queue[w]) <= Capacity

\* A step that takes from the budget, or gives to it, what it adds to one worker or takes
\* from it, keeps it exact.
LEMMA OneAccount ==
  ASSUME Workings, Workings', Accounts, NEW w \in Workers,
         \A v \in Workers \ {w} : InFlight(v)' = InFlight(v),
         budget' + InFlight(w) = budget + InFlight(w)', budget' \in Int
  PROVE  budget' = TotalOf(InFlights)' /\ budget' \in Nat
<1>1. InFlights \in [Workers -> Nat] /\ InFlights' \in [Workers -> Nat]
  BY InFlightType, InFlightTypeThen DEF Numbers
<1>2. /\ InFlights[w] = InFlight(w) /\ InFlights'[w] = InFlight(w)'
      /\ \A v \in Workers \ {w} : InFlights'[v] = InFlights[v]
  BY DEF InFlights
<1>3. /\ TotalOf(InFlights) \in Nat /\ TotalOf(InFlights') \in Nat
      /\ TotalOf(InFlights') + InFlights[w] = TotalOf(InFlights) + InFlights'[w]
  BY <1>1, <1>2, OneChanges
<1>4. InFlight(w) \in Nat /\ InFlight(w)' \in Nat
  BY <1>1, <1>2
<1>5. TotalOf(InFlights') = budget'
  BY <1>2, <1>3, <1>4 DEF Accounts
<1> QED
  BY <1>3, <1>5

LEMMA AccountsKept ==
  ASSUME Workings, Workings', Accounts, UNCHANGED <<budget, queue, held>> PROVE Accounts'
<1>1. \A w \in Workers : InFlight(w)' = InFlight(w)
  BY DEF InFlight
<1>2. InFlights' = InFlights
  BY <1>1 DEF InFlights
<1>3. TotalOf(InFlights)' = TotalOf(InFlights)
  BY <1>2
<1> QED
  BY <1>3 DEF Accounts

LEMMA PushAccounts ==
  ASSUME Workings, Workings', Accounts, NEW w \in Workers, NEW k \in Packets,
         Push(w, k), UNCHANGED held
  PROVE  Accounts'
<1>1. CASE UNCHANGED <<queue, budget>>
  BY <1>1, AccountsKept
<1>2. CASE /\ Len(queue[w]) < Capacity /\ budget + Bytes[k] <= BudgetMax
           /\ queue' = [queue EXCEPT ![w] = Append(@, k)] /\ budget' = budget + Bytes[k]
  <2>1. /\ queue[w] \in Seq(Packets) /\ queue'[w] = Append(queue[w], k)
        /\ \A v \in Workers \ {w} : queue'[v] = queue[v]
    BY <1>2 DEF Workings, QueueType
  <2>2. BytesOf(queue'[w]) = BytesOf(queue[w]) + Bytes[k] /\ BytesOf(queue[w]) \in Nat
    BY <2>1, AppendBytes
  <2>3. Bytes[k] \in Nat /\ budget \in Int
    <3>1. Bytes[k] \in Nat
      BY QueueAssumption, LenProperties, ElementOfSeq DEF Packets
    <3>2. TotalOf(InFlights) \in Nat
      BY InFlightType, OneChanges DEF Numbers
    <3> QED
      BY <3>1, <3>2 DEF Accounts
  <2>4. \A v \in Workers \ {w} : InFlight(v)' = InFlight(v)
    BY <2>1 DEF InFlight
  <2>5. /\ InFlight(w) = BytesOf(queue[w]) + (IF held[w] = 0 THEN 0 ELSE Bytes[held[w]])
        /\ InFlight(w)' = BytesOf(queue'[w]) + (IF held[w] = 0 THEN 0 ELSE Bytes[held[w]])
        /\ InFlight(w) \in Nat /\ (IF held[w] = 0 THEN 0 ELSE Bytes[held[w]]) \in Nat
    <3>1. InFlight(w) \in Nat
      BY InFlightType DEF Numbers, InFlights
    <3>2. held[w] = 0 \/ Bytes[held[w]] \in Nat
      BY QueueAssumption, LenProperties, ElementOfSeq DEF Workings, QueueType, Packets
    <3> QED
      BY <3>1, <3>2 DEF InFlight
  <2>6. budget' + InFlight(w) = budget + InFlight(w)'
    <3> DEFINE h == IF held[w] = 0 THEN 0 ELSE Bytes[held[w]]
    <3>1. h \in Nat /\ InFlight(w) = BytesOf(queue[w]) + h /\ InFlight(w)' = BytesOf(queue'[w]) + h
      BY <2>5
    <3> HIDE DEF h
    <3> QED
      BY <1>2, <2>2, <2>3, <3>1
  <2>7. budget' = TotalOf(InFlights)'
    BY <1>2, <2>3, <2>4, <2>6, OneAccount
  <2>8. Len(queue'[w]) <= Capacity
    BY <1>2, <2>1, AppendProperties, LenProperties, QueueAssumption
  <2> QED
    BY <1>2, <2>1, <2>7, <2>8 DEF Accounts
<1> QED
  BY <1>1, <1>2 DEF Push, Affordable

LEMMA EnqueueAccounts ==
  ASSUME Workings, Workings', Accounts, NEW d \in Dests, Enqueue(d) PROVE Accounts'
<1>1. CASE EnqueueRefused(d)
  BY <1>1, AccountsKept DEF EnqueueRefused
<1>2. CASE EnqueueKnown(d)
  <2>1. outbound[d] \in Workers /\ offered + 1 \in Packets
    BY <1>2, NextIsPacket DEF EnqueueKnown, Workings, QueueType
  <2> QED
    BY <1>2, <2>1, PushAccounts DEF EnqueueKnown
<1>3. CASE EnqueueNew(d)
  <2>1. offered + 1 \in Packets
    BY <1>3, NextIsPacket DEF EnqueueNew, Workings
  <2> QED
    BY <1>3, <2>1, PushAccounts DEF EnqueueNew
<1> QED
  BY <1>1, <1>2, <1>3 DEF Enqueue

LEMMA WorkAccounts ==
  ASSUME Workings, Workings', Accounts, NEW w \in Workers, Take(w) \/ IdleFires(w) \/ Work(w)
  PROVE  Accounts'
<1>0. /\ queue \in [Workers -> Seq(Packets)] /\ held \in [Workers -> Packets \union {0}]
      /\ queue[w] \in Seq(Packets) /\ 0 \notin Packets
  BY QueueAssumption, LenProperties DEF Workings, QueueType, Packets
<1>1. InFlight(w) \in Nat /\ InFlight(w)' \in Nat /\ budget \in Nat
  <2>1. Numbers /\ Numbers'
    BY InFlightType, InFlightTypeThen
  <2>2. TotalOf(InFlights) \in Nat
    BY <2>1, OneChanges DEF Numbers
  <2> QED
    BY <2>1, <2>2 DEF Numbers, InFlights, Accounts
<1>2. \A v \in Workers \ {w} : queue'[v] = queue[v] /\ held'[v] = held[v]
  BY <1>0 DEF Take, IdleFires, Work, Forward, Release, IdleCheck, Quit, Unmap, Drain
<1>3. \A v \in Workers \ {w} : InFlight(v)' = InFlight(v)
  BY <1>2 DEF InFlight
<1>4. ASSUME budget' \in Int, budget' <= budget, Len(queue'[w]) <= Capacity,
             budget' + InFlight(w) = budget + InFlight(w)'
      PROVE  Accounts'
  <2>1. budget' = TotalOf(InFlights)'
    BY <1>3, <1>4, OneAccount
  <2>2. budget' <= BudgetMax
    BY <1>1, <1>4, QueueAssumption DEF Accounts
  <2> QED
    BY <1>2, <1>4, <2>1, <2>2 DEF Accounts
<1>5. CASE Take(w)
  <2>1. /\ queue[w] # <<>> /\ queue'[w] = Tail(queue[w]) /\ UNCHANGED budget
        /\ held[w] = 0 /\ held'[w] = Head(queue[w]) /\ held'[w] # 0
    <3>1. Head(queue[w]) \in Packets
      BY <1>0, <1>5, HeadTailProperties DEF Take
    <3> QED
      BY <1>0, <1>5, <3>1 DEF Take, Workings, Wired
  <2>2. /\ BytesOf(queue[w]) = Bytes[Head(queue[w])] + BytesOf(Tail(queue[w]))
        /\ BytesOf(Tail(queue[w])) \in Nat /\ Bytes[Head(queue[w])] \in Nat
    BY <1>0, <2>1, TailBytes
  <2>3. InFlight(w) = BytesOf(queue[w]) + 0
        /\ InFlight(w)' = BytesOf(queue'[w]) + Bytes[held'[w]]
    BY <2>1 DEF InFlight
  <2>4. InFlight(w)' = InFlight(w)
    BY <2>1, <2>2, <2>3
  <2>5. Len(queue'[w]) <= Capacity
    <3>1. Len(Tail(queue[w])) = Len(queue[w]) - 1 /\ Len(queue[w]) \in Nat
      BY <1>0, <2>1, HeadTailProperties, LenProperties
    <3> QED
      BY <2>1, <3>1, QueueAssumption DEF Accounts
  <2> QED
    BY <1>1, <1>4, <2>1, <2>4, <2>5
<1>6. CASE Release(w)
  <2>1. /\ UNCHANGED queue /\ budget' = budget - Bytes[held[w]] /\ held'[w] = 0
        /\ held[w] # 0 /\ held[w] \in Packets
    BY <1>0, <1>6 DEF Release, Workings, Wired
  <2>2. Bytes[held[w]] \in Nat
    BY <2>1, QueueAssumption, LenProperties, ElementOfSeq DEF Packets
  <2>3. /\ InFlight(w) = BytesOf(queue[w]) + Bytes[held[w]]
        /\ InFlight(w)' = BytesOf(queue[w]) + 0
    BY <2>1 DEF InFlight
  <2>4. BytesOf(queue[w]) \in Nat
    BY <1>0, NoBytes, TailBytes
  <2> QED
    BY <1>1, <1>4, <2>1, <2>2, <2>3, <2>4 DEF Accounts
<1>7. CASE Drain(w)
  <2>1. /\ queue'[w] = <<>> /\ UNCHANGED held /\ held[w] = 0
        /\ budget' = budget - BytesOf(queue[w])
    BY <1>0, <1>7 DEF Drain, Workings, Wired
  <2>2. InFlight(w) = BytesOf(queue[w]) + 0 /\ InFlight(w)' = BytesOf(<<>>) + 0
    BY <2>1 DEF InFlight
  <2>3. BytesOf(queue[w]) \in Nat /\ BytesOf(<<>>) = 0
    BY <1>0, NoBytes, TailBytes
  <2>4. Len(queue'[w]) <= Capacity
    BY <2>1, QueueAssumption
  <2>5. InFlight(w)' = 0 /\ InFlight(w) = BytesOf(queue[w])
    BY <2>2, <2>3
  <2>6. budget' = budget - InFlight(w) /\ budget' \in Int /\ budget' <= budget
    BY <1>1, <2>1, <2>5
  <2>7. budget' + InFlight(w) = budget + InFlight(w)'
    BY <1>1, <2>5, <2>6
  <2> QED
    BY <1>4, <2>4, <2>6, <2>7
<1>8. CASE Forward(w) \/ IdleFires(w) \/ IdleCheck(w) \/ Quit(w) \/ Unmap(w)
  <2>1. UNCHANGED <<budget, queue, held>>
    BY <1>8 DEF Forward, IdleFires, IdleCheck, Quit, Unmap
  <2> QED
    BY <2>1, AccountsKept
<1> QED
  BY <1>5, <1>6, <1>7, <1>8 DEF Work

LEMMA AccountsStep == Workings /\ Workings' /\ Accounts /\ [Next]_vars => Accounts'
<1> SUFFICES ASSUME Workings, Workings', Accounts, [Next]_vars PROVE Accounts'
  OBVIOUS
<1>1. CASE UNCHANGED vars
  BY <1>1, AccountsKept DEF vars
<1>2. CASE CloseBegin \/ Cancel \/ CloseEnd
  <2>1. UNCHANGED <<budget, queue, held>>
    BY <1>2 DEF CloseBegin, Cancel, CloseEnd
  <2> QED
    BY <2>1, AccountsKept
<1> QED
  BY <1>1, <1>2, EnqueueAccounts, WorkAccounts DEF Next

LEMMA AccountsBegin == Init => Accounts
<1> SUFFICES ASSUME Init PROVE Accounts
  OBVIOUS
<1>1. \A w \in Workers : InFlight(w) = 0
  BY NoBytes DEF Init, InFlight
<1>2. InFlights = [w \in Workers |-> 0]
  BY <1>1 DEF InFlights
<1>3. budget = TotalOf(InFlights)
  BY <1>2, NothingInFlight DEF Init
<1>4. \A w \in Workers : Len(queue[w]) <= Capacity
  BY QueueAssumption DEF Init
<1> QED
  BY <1>3, <1>4, QueueAssumption DEF Accounts, Init

\* The budget is exactly what is in flight, in every state the router comes to, whatever
\* packets and bounds there are.
THEOREM BudgetIsExact == Spec => []BudgetExact
<1>1. Init => Workings /\ Accounts
  BY WorkingsBegin, AccountsBegin
<1>2. Workings /\ Accounts /\ [Next]_vars => Workings' /\ Accounts'
  BY WorkingsStep, AccountsStep
<1>3. Accounts => BudgetExact
  BY DEF Accounts, BudgetExact, TotalOf, InFlights
<1> QED
  BY <1>1, <1>2, <1>3, PTL DEF Spec

\* Every variable keeps its type; no queue outgrows its channel, the budget is never
\* exceeded and never falls below nothing.
THEOREM TypeCorrect == Spec => []TypeOK
<1>1. Init => Workings /\ Accounts /\ offered <= Len(Bytes)
  BY WorkingsBegin, AccountsBegin, QueueAssumption, LenProperties DEF Init
<1>2. Workings /\ Accounts /\ [Next]_vars => Workings' /\ Accounts'
  BY WorkingsStep, AccountsStep
<1>3. offered <= Len(Bytes) /\ [Next]_vars => (offered <= Len(Bytes))'
  <2> SUFFICES ASSUME offered <= Len(Bytes), [Next]_vars PROVE offered' <= Len(Bytes)
    OBVIOUS
  <2>1. NextPacket => offered' <= Len(Bytes)
    BY QueueAssumption, LenProperties DEF NextPacket, Packets
  <2>2. ASSUME NEW d \in Dests, Enqueue(d) PROVE NextPacket
    BY <2>2 DEF Enqueue, EnqueueKnown, EnqueueNew, EnqueueRefused
  <2>3. ASSUME NEW w \in Workers, Take(w) \/ IdleFires(w) \/ Work(w) PROVE UNCHANGED offered
    BY <2>3 DEF Take, IdleFires, Work, Forward, Release, IdleCheck, Quit, Unmap, Drain, router
  <2>4. CloseBegin \/ Cancel \/ CloseEnd \/ UNCHANGED vars => UNCHANGED offered
    BY DEF CloseBegin, Cancel, CloseEnd, vars, router
  <2> QED
    BY <2>1, <2>2, <2>3, <2>4 DEF Next
<1>4. Workings /\ Accounts /\ offered <= Len(Bytes) => TypeOK
  <2> SUFFICES ASSUME Workings, Accounts, offered <= Len(Bytes) PROVE TypeOK
    OBVIOUS
  <2>1. budget \in 0 .. BudgetMax
    <3>1. TotalOf(InFlights) \in Nat
      <4>1. CASE Workers = {}
        <5>1. InFlights = [w \in Workers |-> 0]
          BY <4>1 DEF InFlights
        <5> QED
          BY <5>1, NothingInFlight
      <4>2. CASE Workers # {}
        BY <4>2, InFlightType, OneChanges DEF Numbers
      <4> QED
        BY <4>1, <4>2
    <3> QED
      BY <3>1, QueueAssumption DEF Accounts
  <2>2. offered \in 0 .. Len(Bytes)
    BY QueueAssumption, LenProperties DEF Workings, QueueType
  <2> QED
    BY <2>1, <2>2 DEF TypeOK, Workings, QueueType, Accounts
<1> QED
  BY <1>1, <1>2, <1>3, <1>4, PTL DEF Spec

=============================================================================
