---------------------------- MODULE TunnelService ----------------------------
(***************************************************************************)
(* How a node gets a stream to a member it cannot reach directly           *)
(* (pkg/tunnel/service.go), and how that member makes itself reachable     *)
(* (pkg/serverless/relay.go).                                              *)
(*                                                                         *)
(* Calls for one peer share a dial: the first leads, the others wait for   *)
(* it and then open a stream of their own.  The leader tries a connection  *)
(* that stands, then a direct one, then its relay candidates one after the *)
(* other, sharing out the time that is left.  A circuit through a relay    *)
(* needs a reservation of the peer that is called, which the peer renews   *)
(* in rounds over candidates of its own.                                   *)
(***************************************************************************)
EXTENDS Integers, FiniteSets, Sequences, SequencesExt

CONSTANTS
  Callers,        \* goroutines that ask for streams: router workers, forwards, probes
  Self, Targets,  \* the node that calls, the members it calls
  Relays,         \* nodes that may serve as relays; all IDs are numbers
  Healthy,        \* relays that never refuse a reservation or a circuit they owe
  Reachable,      \* targets that can be dialled directly
  Protos, Supported, \* protocols asked for, and those the targets speak
  Views,          \* what a node may know of relays: sets of entries
  MaxDials, MaxWaiters, MaxCandidates,
  TotalTime, DirectTime, AttemptTime, \* time for a call, its direct part, one relay
  MaxFaults,      \* bound: lost connections, lost reservations, calls cancelled
  None

\* What is known of a node that may serve as a relay: whether it is known to serve, whether
\* it is connected, and 0 for a seed, 1 for a member.
Entry == [id : Nat, hop : BOOLEAN, connected : BOOLEAN, tier : {0, 1}]

ASSUME TunnelAssumption ==
  /\ IsFiniteSet(Callers) /\ None \notin Callers
  /\ Healthy \subseteq Relays /\ Reachable \subseteq Targets /\ Supported \subseteq Protos
  /\ Relays \union Targets \union {Self} \subseteq Nat
  /\ \A view \in Views : view \subseteq Entry /\ IsFiniteSet(view)
  /\ {MaxDials, MaxWaiters, MaxCandidates, TotalTime, DirectTime, AttemptTime} \subseteq Nat
  /\ TotalTime - DirectTime >= MaxCandidates

VARIABLES
  known,     \* what each node knows of relays, fixed in a behaviour
  reserved,  \* the relays on which each target holds a reservation
  round,     \* the candidates left in the target's round of reservations
  linked,    \* targets to which a connection stands
  dials,     \* Service.dials: the call that leads the dial to each target
  active, waiters, \* Service.activeDials, Service.waiters
  call, faults

vars  == <<known, reserved, round, linked, dials, active, waiters, call, faults>>
links == <<known, reserved, round>>
gate  == <<dials, active, waiters>>

Nodes == Targets \union {Self}

\* A call: where it stands, whom it asks for what, what became of the dial it waits for,
\* the time it has left (-1: cancelled), and the candidates before and behind it.
Idle == [pc |-> "idle", to |-> None, proto |-> None, flight |-> None,
         left |-> 0, rest |-> <<>>, seen |-> {}, ok |-> FALSE]

Init ==
  /\ known \in [Nodes -> Views]
  /\ reserved = [t \in Targets |-> {}]
  /\ round = [t \in Targets |-> <<>>]
  /\ linked = {}
  /\ dials = [t \in Targets |-> None] /\ active = 0 /\ waiters = 0
  /\ call = [c \in Callers |-> Idle]
  /\ faults = 0

-----------------------------------------------------------------------------
(* Relay candidates *)

\* Relays known to serve come first, then connected members, connected seeds, seeds
\* before members, and the lower ID.
Keys(e) ==
  LET last(yes) == IF yes THEN 0 ELSE 1
  IN  <<last(e.hop), last(e.connected /\ e.tier = 1), last(e.connected), e.tier, e.id>>

Before(e, f) ==
  \E i \in 1 .. 5 : Keys(e)[i] < Keys(f)[i] /\ \A j \in 1 .. i - 1 : Keys(e)[j] = Keys(f)[j]

\* Each node once, at its best place, and no more than the limit.
OrderRelayCandidates(entries) ==
  LET best     == {e \in entries : \A f \in entries : f.id = e.id => f = e \/ Before(e, f)}
      place(e) == 1 + Cardinality({f \in best : Before(f, e)})
  IN [i \in 1 .. Min({MaxCandidates, Cardinality(best)}) |-> (CHOOSE e \in best : place(e) = i).id]

\* The list for each view; a node is never its own relay.
Ranking == [n \in Nodes |-> [view \in Views |->
              OrderRelayCandidates({e \in view : e.id # n})]]

Candidates(n) == Ranking[n][known[n]]

-----------------------------------------------------------------------------
(* The target reserves *)

\* Every minute a round over all candidates.
StartsRound(t) ==
  /\ round[t] = <<>>
  /\ round' = [round EXCEPT ![t] = Candidates(t)]
  /\ UNCHANGED <<known, reserved, linked, gate, call, faults>>

\* Mutant of Reserves: one reservation is enough.
ReservesFirst(t) ==
  /\ round[t] # <<>>
  /\ LET r == Head(round[t]) IN
       \/ /\ r \in Relays
          /\ reserved' = [reserved EXCEPT ![t] = @ \union {r}]
          /\ round' = [round EXCEPT ![t] = <<>>]
       \/ /\ r \notin Healthy
          /\ round' = [round EXCEPT ![t] = Tail(@)]
          /\ UNCHANGED reserved
  /\ UNCHANGED <<known, linked, gate, call, faults>>

\* One candidate; a round goes on whether it grants the reservation or not.
Reserves(t) ==
  /\ round[t] # <<>>
  /\ round' = [round EXCEPT ![t] = Tail(@)]
  /\ LET r == Head(round[t]) IN
       \/ r \in Relays /\ reserved' = [reserved EXCEPT ![t] = @ \union {r}]
       \/ r \notin Healthy /\ UNCHANGED reserved
  /\ UNCHANGED <<known, linked, gate, call, faults>>

-----------------------------------------------------------------------------
(* The gate *)

Waiting(c)  == call[c].pc \in {"wait", "claim", "reuse", "leave"}
Dialling(c) == call[c].pc \in {"check", "linked", "direct", "relay", "open", "done"}

\* A dial to the target is under way: wait for it, while there is room to wait.
Joins(c, t, p) ==
  /\ call[c].pc = "idle" /\ dials[t] # None /\ waiters < MaxWaiters
  /\ waiters' = waiters + 1
  /\ call' = [call EXCEPT ![c] = [Idle EXCEPT !.pc = "wait", !.to = t, !.proto = p,
                                              !.flight = "open"]]
  /\ UNCHANGED <<links, linked, dials, active, faults>>

\* Otherwise lead one.
Leads(c, t, p) ==
  /\ call[c].pc = "idle" /\ dials[t] = None /\ active < MaxDials
  /\ dials' = [dials EXCEPT ![t] = c] /\ active' = active + 1
  /\ call' = [call EXCEPT ![c] = [Idle EXCEPT !.pc = "check", !.to = t, !.proto = p,
                                              !.left = TotalTime]]
  /\ UNCHANGED <<links, linked, waiters, faults>>

\* The context of a call that waits is done.
GivesUp(c) ==
  /\ call[c].pc = "wait"
  /\ call' = [call EXCEPT ![c].pc = "leave"]
  /\ UNCHANGED <<links, linked, gate, faults>>

\* The dial is over: without a connection its error is the answer.
Wakes(c) ==
  /\ call[c].pc = "wait" /\ call[c].flight # "open"
  /\ call' = [call EXCEPT ![c].pc = IF call[c].to \in linked THEN "claim" ELSE "leave"]
  /\ UNCHANGED <<links, linked, gate, faults>>

\* Opening a stream counts as a dial.
Claims(c) ==
  /\ call[c].pc = "claim"
  /\ IF active < MaxDials
     THEN active' = active + 1 /\ call' = [call EXCEPT ![c].pc = "reuse"]
     ELSE call' = [call EXCEPT ![c].pc = "leave"] /\ UNCHANGED active
  /\ UNCHANGED <<links, linked, dials, waiters, faults>>

\* The stream is open or refused; the two counts are given back one after the other.
Reuses(c) ==
  /\ call[c].pc = "reuse"
  /\ active' = active - 1
  /\ call' = [call EXCEPT ![c].pc = "leave"]
  /\ UNCHANGED <<links, linked, dials, waiters, faults>>

Leaves(c) ==
  /\ call[c].pc = "leave"
  /\ waiters' = waiters - 1
  /\ call' = [call EXCEPT ![c] = Idle]
  /\ UNCHANGED <<links, linked, dials, active, faults>>

\* Mutant of Finish: a dial that fails keeps its place among the active ones.
FinishLeaky(c) ==
  LET t == call[c].to IN
  /\ call[c].pc = "done"
  /\ dials' = [dials EXCEPT ![t] = None]
  /\ active' = IF call[c].ok THEN active - 1 ELSE active
  /\ call' = [d \in Callers |->
                CASE d = c -> Idle
                  [] d # c /\ call[d].to = t /\ call[d].flight = "open" ->
                       [call[d] EXCEPT !.flight = "over"]
                  [] OTHER -> call[d]]
  /\ UNCHANGED <<links, linked, waiters, faults>>

\* What the leader found goes to those who wait, and a waiting call that has not looked
\* yet keeps it, though another dial may have begun.
Finish(c) ==
  LET t == call[c].to IN
  /\ call[c].pc = "done"
  /\ dials' = [dials EXCEPT ![t] = None] /\ active' = active - 1
  /\ call' = [d \in Callers |->
                CASE d = c -> Idle
                  [] d # c /\ call[d].to = t /\ call[d].flight = "open" ->
                       [call[d] EXCEPT !.flight = "over"]
                  [] OTHER -> call[d]]
  /\ UNCHANGED <<links, linked, waiters, faults>>

-----------------------------------------------------------------------------
(* The dial *)

\* A stream needs a connection and a protocol the target speaks.
Opens(c) == call[c].to \in linked /\ call[c].proto \in Supported

\* A connection that stands is tried before any dial.
Checks(c) ==
  /\ call[c].pc = "check"
  /\ call' = [call EXCEPT ![c].pc = IF call[c].to \in linked THEN "linked" ELSE "direct"]
  /\ UNCHANGED <<links, linked, gate, faults>>

OnLink(c) ==
  /\ call[c].pc = "linked"
  /\ call' = IF Opens(c) THEN [call EXCEPT ![c].pc = "done", ![c].ok = TRUE]
                         ELSE [call EXCEPT ![c].pc = "direct"]
  /\ UNCHANGED <<links, linked, gate, faults>>

\* Connect() without addresses, then a stream.
Direct(c) ==
  /\ call[c].pc = "direct" /\ call[c].left > 0
  /\ call[c].to \in linked \union Reachable /\ call[c].proto \in Supported
  /\ linked' = linked \union {call[c].to}
  /\ call' = [call EXCEPT ![c].pc = "done", ![c].ok = TRUE]
  /\ UNCHANGED <<links, gate, faults>>

\* It fails, after some of the time it may take, and the relays are next.
FallsBack(c) ==
  /\ call[c].pc = "direct"
  /\ \E left \in IF call[c].left < 0 THEN {-1} ELSE {TotalTime - DirectTime, TotalTime} :
       call' = [call EXCEPT ![c].pc = "relay", ![c].left = left, ![c].rest = Candidates(Self)]
  /\ linked' \in {linked, linked \union ({call[c].to} \cap Reachable)}
  /\ UNCHANGED <<links, gate, faults>>

\* Mutant of Budget: the first come first served.
BudgetUnshared(c) == IF call[c].left < AttemptTime THEN call[c].left ELSE AttemptTime

\* The share of a candidate in the time that is left.
Budget(c) ==
  LET share == call[c].left \div Len(call[c].rest)
  IN IF share < AttemptTime THEN share ELSE AttemptTime

\* Neither the target nor this node is a relay for the call.
Skips(c) ==
  /\ call[c].pc = "relay" /\ call[c].rest # <<>> /\ call[c].left > 0
  /\ Head(call[c].rest) \in {call[c].to, Self}
  /\ call' = [call EXCEPT ![c].rest = Tail(@)]
  /\ UNCHANGED <<links, linked, gate, faults>>

\* The head of the list is tried with its share of the time.
Tries(c) ==
  /\ call[c].pc = "relay" /\ call[c].rest # <<>> /\ call[c].left > 0
  /\ Head(call[c].rest) \notin {call[c].to, Self}

\* The target has a reservation there, or is connected already.
ConnectsVia(c) ==
  /\ Tries(c) /\ Budget(c) > 0
  /\ \/ Head(call[c].rest) \in reserved[call[c].to]
     \/ call[c].to \in linked
  /\ linked' = linked \union {call[c].to}
  /\ call' = [call EXCEPT ![c].pc = "open", ![c].seen = @ \union {Head(call[c].rest)}]
  /\ UNCHANGED <<links, gate, faults>>

\* A relay refuses at once, or takes its share of the time to say nothing.
FailsVia(c) ==
  LET r == Head(call[c].rest) IN
  /\ Tries(c)
  /\ call[c].to \notin linked
  /\ r \in Healthy \cap reserved[call[c].to] => Budget(c) = 0
  /\ \E used \in {0, Budget(c)} :
       call' = [call EXCEPT ![c].left = @ - used, ![c].rest = Tail(@), ![c].seen = @ \union {r}]
  /\ UNCHANGED <<links, linked, gate, faults>>

\* The stream over the circuit; without it the next relay is tried.
OpensVia(c) ==
  /\ call[c].pc = "open"
  /\ call' = IF Opens(c) THEN [call EXCEPT ![c].pc = "done", ![c].ok = TRUE]
                         ELSE [call EXCEPT ![c].pc = "relay", ![c].rest = Tail(@)]
  /\ UNCHANGED <<links, linked, gate, faults>>

\* No candidate is left, or no time.
Exhausted(c) ==
  /\ call[c].pc = "relay"
  /\ call[c].rest = <<>> \/ call[c].left <= 0
  /\ call' = [call EXCEPT ![c].pc = "done"]
  /\ UNCHANGED <<links, linked, gate, faults>>

-----------------------------------------------------------------------------
(* The world *)

\* The target dials this node, or a hole is punched.
Inbound(t) ==
  /\ t \notin linked /\ linked' = linked \union {t}
  /\ UNCHANGED <<links, gate, call, faults>>

Breaks(t) ==
  /\ faults < MaxFaults /\ faults' = faults + 1
  /\ t \in linked /\ linked' = linked \ {t}
  /\ UNCHANGED <<links, gate, call>>

\* A relay forgets a reservation.
Forgets(t, r) ==
  /\ faults < MaxFaults /\ faults' = faults + 1
  /\ r \in reserved[t] /\ reserved' = [reserved EXCEPT ![t] = @ \ {r}]
  /\ UNCHANGED <<known, round, linked, gate, call>>

\* Who asked for the stream is no longer interested.
Cancels(c) ==
  /\ faults < MaxFaults /\ faults' = faults + 1
  /\ Dialling(c) /\ call[c].pc # "done" /\ call[c].left >= 0
  /\ call' = [call EXCEPT ![c].left = -1]
  /\ UNCHANGED <<links, linked, gate>>

-----------------------------------------------------------------------------

Dials(c) ==
  \/ Checks(c) \/ OnLink(c) \/ Direct(c) \/ FallsBack(c) \/ Skips(c)
  \/ ConnectsVia(c) \/ FailsVia(c) \/ OpensVia(c) \/ Exhausted(c) \/ Finish(c)

Waits(c) == GivesUp(c) \/ Wakes(c) \/ Claims(c) \/ Reuses(c) \/ Leaves(c)

Next ==
  \/ \E t \in Targets : StartsRound(t) \/ Reserves(t) \/ Inbound(t) \/ Breaks(t)
  \/ \E t \in Targets, r \in Relays : Forgets(t, r)
  \/ \E c \in Callers : Dials(c) \/ Waits(c) \/ Cancels(c)
  \/ \E c \in Callers, t \in Targets, p \in Protos : Joins(c, t, p) \/ Leads(c, t, p)

Spec == Init /\ [][Next]_vars

\* The rounds go on for as long as the target runs; a call goes on with its next step.
Fairness ==
  /\ \A t \in Targets : WF_vars(StartsRound(t) \/ Reserves(t))
  /\ \A c \in Callers : WF_vars(Dials(c)) /\ WF_vars(Waits(c))

FairSpec == Spec /\ Fairness

-----------------------------------------------------------------------------
(* Properties *)

\* However a call ends - refused, woken, cancelled, by any of the paths of the dial - the
\* service counts exactly the calls that are inside, and a target has one dial at most: a
\* count that leaks would in the end refuse every call of the node.
GateExact ==
  /\ active = Cardinality({c \in Callers : Dialling(c) \/ call[c].pc = "reuse"})
  /\ waiters = Cardinality({c \in Callers : Waiting(c)})
  /\ \A t \in Targets :
       {c \in Callers : Dialling(c) /\ call[c].to = t} = {dials[t]} \ {None}

\* A call that fails, and was not cancelled, has tried each of its relays: those that
\* answer nothing do not use up the time of those behind them.
GivesUpLast ==
  \A c \in Callers :
    call[c].pc = "done" /\ ~call[c].ok /\ call[c].left >= 0 =>
      call[c].seen = ToSet(Candidates(Self)) \ {call[c].to}

\* Two nodes whose candidates have a relay in common that works come to reach each other
\* through it, although each orders its candidates as it likes: from some time on no call
\* that is not cancelled fails.
Common(t) ==
  ToSet(Candidates(Self)) \cap ToSet(Candidates(t)) \cap Healthy

Unreached(t) ==
  \E c \in Callers :
    call[c].pc = "done" /\ ~call[c].ok /\ call[c].to = t
    /\ call[c].left >= 0 /\ call[c].proto \in Supported

NATsMeet == \A t \in Targets : Common(t) # {} => <>[]~Unreached(t)
=============================================================================
