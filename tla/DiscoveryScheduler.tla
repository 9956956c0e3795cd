------------------------- MODULE DiscoveryScheduler -------------------------
(***************************************************************************)
(* The scheduler of the handshakes (pkg/serverless/scheduler.go).          *)
(*                                                                         *)
(* Discovery asks for a handshake with every node it comes across; the     *)
(* user asks for one now, and only that one carries the connect request    *)
(* that the other side shows for approval.  All of them go through one     *)
(* bounded queue to a few workers, with at most one call per peer, and a   *)
(* peer that was called cools down before the background calls it again.   *)
(*                                                                         *)
(* A call is an object with a done channel.  It is taken from Calls, and   *)
(* closing the channel hands its outcome to those who wait on it, so that  *)
(* it may be taken again.  A step is one critical section of s.mu or one   *)
(* channel operation.  How long a cooldown lasts (its growth with the      *)
(* failures) is left to Cools.                                             *)
(***************************************************************************)
EXTENDS Naturals, Sequences, FiniteSets

CONSTANTS
  Peers, Workers, Callers, Calls,
  None,        \* no call, nothing submitted
  QueueSize,   \* discoveryQueueSize
  StateLimit   \* discoveryStateLimit

ASSUME SchedulerAssumption ==
  /\ QueueSize \in Nat /\ StateLimit \in Nat
  /\ None \notin Calls \cup [peer : Peers, connect : BOOLEAN, explicit : BOOLEAN]

VARIABLES
  cancelled,   \* s.ctx is done
  closing,     \* Discovery.Close: "open", "draining" or "closed"
  queue,       \* s.queue
  calls,       \* s.calls: a call or None for each peer
  spec,        \* a call in flight: its peer, connectRequest, and who submitted it
  job, stage,  \* what a worker holds, and how far it is with it
  known,       \* the keys of s.retry
  cooling,     \* those of them whose time has not come
  caller, waits, target, asks,
               \* a request: where it is, on which call, for whom, and its flag
  outcome, own,  \* ... what its call came to, and whether that one had the flag
  granted      \* ... and whether a call with the flag succeeded since it was made

workers == <<job, stage>>
retry   == <<known, cooling>>
told    == <<outcome, own, granted>>
objects == <<queue, calls, spec>>
schedulerVars    == <<cancelled, closing, objects, workers, retry, caller, waits, target, asks, told>>

Queued    == {queue[i] : i \in DOMAIN queue}
Held      == {job[w] : w \in Workers} \ {None}
InFlight  == Queued \cup Held
Unused    == {c \in Calls : spec[c] = None}

SchedulerInit ==
  /\ cancelled = FALSE /\ closing = "open"
  /\ queue = <<>> /\ calls = [p \in Peers |-> None]
  /\ spec = [c \in Calls |-> None]
  /\ job = [w \in Workers |-> None] /\ stage = [w \in Workers |-> "idle"]
  /\ known = {} /\ cooling = {}
  /\ caller = [k \in Callers |-> "idle"] /\ waits = [k \in Callers |-> None]
  /\ target \in [Callers -> Peers] /\ \A j, k \in Callers : target[j] = target[k]
  /\ asks = [k \in Callers |-> FALSE] /\ own = [k \in Callers |-> FALSE]
  /\ outcome = [k \in Callers |-> "failed"] /\ granted = [k \in Callers |-> FALSE]

-----------------------------------------------------------------------------
(* submitMode *)

\* Mutant of Admits: a call that is under way is not looked for.
AdmitsBeside(p, explicit) ==
  ~cancelled /\ (explicit \/ p \notin cooling) /\ Len(queue) < QueueSize

\* A new call may be queued; only an explicit one disregards the cooldown.
Admits(p, explicit) ==
  ~cancelled /\ calls[p] = None /\ (explicit \/ p \notin cooling) /\ Len(queue) < QueueSize

Enqueue(p, explicit, connect, c) ==
  /\ Admits(p, explicit) /\ c \in Unused
  /\ queue' = Append(queue, c)
  /\ calls' = [calls EXCEPT ![p] = c]
  /\ spec' = [spec EXCEPT ![c] = [peer |-> p, connect |-> connect, explicit |-> explicit]]

\* scheduleIdentify: the other outcomes of submitMode change nothing.
Background(p) ==
  /\ \E c \in Calls : Enqueue(p, FALSE, FALSE, c)
  /\ UNCHANGED <<cancelled, closing, workers, retry, caller, waits, target, asks, told>>

-----------------------------------------------------------------------------
(* request: a caller that waits for the outcome *)

Ask(k, p, connect) ==
  /\ caller[k] \in {"idle", "nil", "failed"}
  /\ caller' = [caller EXCEPT ![k] = "submit"]
  /\ target' = [target EXCEPT ![k] = p] /\ asks' = [asks EXCEPT ![k] = connect]
  /\ granted' = [granted EXCEPT ![k] = FALSE]
  /\ UNCHANGED <<cancelled, closing, objects, workers, retry, waits, outcome, own>>

\* Whatever call for the peer is under way is joined.
Join(k) ==
  /\ caller[k] = "submit" /\ ~cancelled /\ calls[target[k]] # None
  /\ waits' = [waits EXCEPT ![k] = calls[target[k]]]
  /\ own' = [own EXCEPT ![k] = spec[calls[target[k]]].connect]
  /\ caller' = [caller EXCEPT ![k] = "wait"]
  /\ UNCHANGED <<cancelled, closing, objects, workers, retry, target, asks, outcome, granted>>

Submit(k) ==
  /\ caller[k] = "submit"
  /\ \E c \in Calls :
       Enqueue(target[k], TRUE, asks[k], c) /\ waits' = [waits EXCEPT ![k] = c]
  /\ own' = [own EXCEPT ![k] = asks[k]]
  /\ caller' = [caller EXCEPT ![k] = "wait"]
  /\ UNCHANGED <<cancelled, closing, workers, retry, target, asks, outcome, granted>>

\* The scheduler is closed, or the queue is full.
Refused(k) ==
  /\ caller[k] = "submit"
  /\ cancelled \/ (calls[target[k]] = None /\ Len(queue) = QueueSize)
  /\ caller' = [caller EXCEPT ![k] = "failed"]
  /\ UNCHANGED <<cancelled, closing, objects, workers, retry, waits, target, asks, told>>

\* Mutant of Answered: the call that was joined is good enough.
AnsweredByAny(k) ==
  /\ caller[k] = "woken"
  /\ caller' = [caller EXCEPT ![k] = outcome[k]]
  /\ UNCHANGED <<cancelled, closing, objects, workers, retry, waits, target, asks, told>>

\* The call is done.  A connect request that had joined a call of another kind submits
\* its own now.
Answered(k) ==
  /\ caller[k] = "woken"
  /\ caller' = [caller EXCEPT ![k] = IF asks[k] /\ ~own[k] THEN "submit" ELSE outcome[k]]
  /\ UNCHANGED <<cancelled, closing, objects, workers, retry, waits, target, asks, told>>

\* The caller's context ends, or the scheduler's: the select takes any case that is ready.
GivesUp(k) ==
  /\ caller[k] \in {"submit", "wait", "woken"}
  /\ caller' = [caller EXCEPT ![k] = "failed"] /\ waits' = [waits EXCEPT ![k] = None]
  /\ UNCHANGED <<cancelled, closing, objects, workers, retry, target, asks, told>>

-----------------------------------------------------------------------------
(* worker *)

\* The workers start with the first call that is queued, and end with the scheduler: a
\* select between a closed context and a call in the queue may still take the call.
Take(w) ==
  /\ stage[w] = "idle" /\ queue # <<>>
  /\ job' = [job EXCEPT ![w] = Head(queue)] /\ queue' = Tail(queue)
  /\ stage' = [stage EXCEPT ![w] = "taken"]
  /\ UNCHANGED <<cancelled, closing, calls, spec, retry, caller, waits, target, asks, told>>

Exit(w) ==
  /\ stage[w] = "idle" /\ cancelled
  /\ stage' = [stage EXCEPT ![w] = "gone"]
  /\ UNCHANGED <<cancelled, closing, objects, job, retry, caller, waits, target, asks, told>>

Run(w) ==
  /\ stage[w] = "taken" /\ ~cancelled
  /\ stage' = [stage EXCEPT ![w] = "running"]
  /\ UNCHANGED <<cancelled, closing, objects, job, retry, caller, waits, target, asks, told>>

\* Room for one more in s.retry, after the cooled ones were thrown out of a full one.
Remember(p) ==
  LET kept == IF p \in known \/ Cardinality(known) < StateLimit
              THEN known ELSE known \cap cooling
  IN IF p \in kept \/ Cardinality(kept) < StateLimit
     THEN known' = kept \cup {p} /\ cooling' = cooling \cup {p}
     ELSE known' = kept /\ cooling' = cooling

\* Mutant of Wake: the done channel is not closed.
WakeNobody(finished, result) ==
  /\ spec' = [c \in Calls |-> IF c \in finished THEN None ELSE spec[c]]
  /\ UNCHANGED <<caller, outcome, waits>>

\* call.done is closed: those who wait on one of these calls learn the outcome.
Wake(finished, result) ==
  /\ caller' = [k \in Callers |-> IF waits[k] \in finished THEN "woken" ELSE caller[k]]
  /\ outcome' = [k \in Callers |-> IF waits[k] \in finished THEN result ELSE outcome[k]]
  /\ waits' = [k \in Callers |-> IF waits[k] \in finished THEN None ELSE waits[k]]
  /\ spec' = [c \in Calls |-> IF c \in finished THEN None ELSE spec[c]]

Unlist(finished) ==
  calls' = [p \in Peers |-> IF p \in {spec[c].peer : c \in finished} THEN None ELSE calls[p]]

\* The outcome is set, the call forgotten, the cooldown noted and the waiters woken in one
\* critical section.  A call taken from a closed scheduler does not run at all.
Finish(w) ==
  /\ stage[w] = "running" \/ (stage[w] = "taken" /\ cancelled)
  /\ \E result \in IF stage[w] = "taken" THEN {"failed"} ELSE {"nil", "failed"} :
       /\ Wake({job[w]}, result)
       /\ granted' = [k \in Callers |->
            \/ granted[k]
            \/ /\ asks[k] /\ caller[k] \in {"submit", "wait", "woken"}
               /\ result = "nil" /\ spec[job[w]].connect /\ spec[job[w]].peer = target[k]]
  /\ Unlist({job[w]})
  /\ Remember(spec[job[w]].peer)
  /\ job' = [job EXCEPT ![w] = None] /\ stage' = [stage EXCEPT ![w] = "idle"]
  /\ UNCHANGED <<cancelled, closing, queue, target, asks, own>>

\* The cooldown of a peer is over.
Cools(p) ==
  /\ p \in cooling
  /\ cooling' = cooling \ {p}
  /\ UNCHANGED <<cancelled, closing, objects, workers, known, caller, waits, target, asks,
                 told>>

-----------------------------------------------------------------------------
(* close *)

Cancel ==
  /\ closing = "open"
  /\ cancelled' = TRUE /\ closing' = "draining"
  /\ UNCHANGED <<objects, workers, retry, caller, waits, target, asks, told>>

Drain ==
  /\ closing = "draining" /\ closing' = "closed"
  /\ queue' = <<>>
  /\ Wake(Queued, "failed") /\ Unlist(Queued)
  /\ UNCHANGED <<cancelled, workers, retry, target, asks, own, granted>>

-----------------------------------------------------------------------------

Working(w) == Take(w) \/ Exit(w) \/ Run(w) \/ Finish(w)

SchedulerNext ==
  \/ \E p \in Peers : Background(p) \/ Cools(p)
  \/ \E k \in Callers :
       \/ \E p \in Peers, connect \in BOOLEAN : Ask(k, p, connect)
       \/ Join(k) \/ Submit(k) \/ Refused(k) \/ Answered(k) \/ GivesUp(k)
  \/ \E w \in Workers : Working(w)
  \/ Cancel \/ Drain

SchedulerSpec == SchedulerInit /\ [][SchedulerNext]_schedulerVars

\* Workers go on, a run ends (its handshake has a time limit), a close runs through, and
\* a caller that holds nothing up gets to the lock.
SchedulerFairness ==
  /\ \A w \in Workers : WF_schedulerVars(Take(w)) /\ WF_schedulerVars(Run(w)) /\ WF_schedulerVars(Finish(w))
  /\ \A k \in Callers :
       /\ WF_schedulerVars(Join(k) \/ Submit(k) \/ Refused(k))
       /\ WF_schedulerVars(Answered(k)) /\ WF_schedulerVars(cancelled /\ GivesUp(k))
  /\ WF_schedulerVars(Drain)

\* A cooldown, 24 seconds at the least, outlasts the way of a caller to the lock.
Paced == \A p \in cooling \ cooling' : \A k \in Callers :
           target[k] = p => caller[k] \notin {"submit", "woken"}

FairSchedulerSpec == SchedulerInit /\ [][SchedulerNext /\ Paced]_schedulerVars /\ SchedulerFairness

-----------------------------------------------------------------------------
(* Properties *)

SchedulerTypes ==
  /\ cancelled \in BOOLEAN /\ closing \in {"open", "draining", "closed"}
  /\ queue \in Seq(Calls) /\ Len(queue) <= QueueSize
  /\ calls \in [Peers -> Calls \cup {None}]
  /\ spec \in [Calls -> [peer : Peers, connect : BOOLEAN, explicit : BOOLEAN] \cup {None}]
  /\ job \in [Workers -> Calls \cup {None}]
  /\ stage \in [Workers -> {"idle", "taken", "running", "gone"}]
  /\ \A w \in Workers : (job[w] = None) = (stage[w] \in {"idle", "gone"})
  /\ known \subseteq Peers /\ cooling \subseteq Peers
  /\ caller \in [Callers -> {"idle", "submit", "wait", "woken", "nil", "failed"}]
  /\ waits \in [Callers -> Calls \cup {None}]
  /\ target \in [Callers -> Peers] /\ asks \in [Callers -> BOOLEAN]
  /\ outcome \in [Callers -> {"nil", "failed"}]
  /\ own \in [Callers -> BOOLEAN] /\ granted \in [Callers -> BOOLEAN]

\* Two workers never make a handshake with the same peer at the same time.
OneCallPerPeer ==
  \A v, w \in Workers :
    v # w /\ job[v] # None /\ job[w] # None => spec[job[v]].peer # spec[job[w]].peer

\* A connect request that reports success was made: since it was asked for, a handshake
\* that carried it went through, whatever background call it had joined first.
RequestWasMade == \A k \in Callers : caller[k] = "nil" /\ asks[k] => granted[k]

\* A request comes to an end, also when the scheduler is closed under it, and although
\* the background keeps coming back with calls that do not count.  (Unless the retry
\* table is full of others: then a peer has no cooldown, and the request may join one
\* background call after the other.)
RequestReturns ==
  \A k \in Callers :
    caller[k] \in {"submit", "wait", "woken"} ~>
      caller[k] \in {"nil", "failed"} \/ (target[k] \notin known /\ Cardinality(known) = StateLimit)

=============================================================================
