--------------------------- MODULE DiscoveryService ---------------------------
(***************************************************************************)
(* The life of the discovery service (pkg/serverless/serverless.go and     *)
(* control.go): New, Start and Close, the public DHT a node uses to find   *)
(* its first peers, and the control exchanges by which it may do without.  *)
(*                                                                         *)
(* An instance of the public DHT is made by New or by the switch on the    *)
(* console.  It is to be gone again when a peer of the group is connected, *)
(* when its time is up, when the user says so and when the service closes, *)
(* whichever comes first; each of these takes the instance out of the      *)
(* field dhtPublic under d.mu and closes it afterwards.                    *)
(*                                                                         *)
(* The private DHT and mDNS live from New to Close, and are left out.      *)
(***************************************************************************)
EXTENDS Naturals, FiniteSets

CONSTANTS
  Instances,  \* of the public DHT that can be made (bound)
  Users,      \* callers of EnablePublicDHTRuntime
  Peers,      \* other nodes that hold the key of the group
  MaxProbes,  \* controlCollabConcurrent, for either direction
  None

ASSUME ServiceAssumption ==
  /\ MaxProbes \in Nat \ {0}
  /\ {None, "idle", "build"} \intersect Instances = {} /\ None \notin Peers

VARIABLES
  ctx,       \* serviceCtx is not cancelled
  starting,  \* Start: "no", "boot", "register", "done", "refused"
  handlers,  \* the stream handlers are registered
  closing,   \* Close: "no", "handlers", "detach", "done"
  pub,       \* dhtPublic
  retired,   \* publicRetired
  made,      \* instances that have been made
  held,      \* instances taken out of dhtPublic, or never put there, to be closed
  closes,    \* how often an instance has been closed
  timer,     \* its time-out: "off", "armed", "due", "over"
  user,      \* a caller's place: "idle", "build", or the instance it has made
  late,      \* a goroutine of maybeRetirePublicDHT has yet to run
  linked,    \* peers that are connected
  probes     \* control exchanges in progress: pairs of a direction and a peer

switch  == <<pub, retired, made, held, closes, timer, user, late>>
life    == <<ctx, starting, handlers, closing>>
serviceVars == <<life, switch, linked, probes>>

Set(f, x, v) == [f EXCEPT ![x] = v]

ServiceInit ==
  /\ ctx = TRUE /\ starting = "no" /\ handlers = FALSE /\ closing = "no"
  /\ pub \in Instances \union {None} /\ made = {pub} \ {None}
  /\ retired = FALSE /\ held = {} /\ closes = [i \in Instances |-> 0]
  /\ timer = [i \in Instances |-> "off"] /\ user = [u \in Users |-> "idle"] /\ late = FALSE
  /\ linked = {} /\ probes = {}

-----------------------------------------------------------------------------
(* Start and Close *)

\* A second Start returns at once.
Start ==
  /\ starting = "no" /\ starting' = "boot"
  /\ UNCHANGED <<ctx, handlers, closing, switch, linked, probes>>

\* The nodes of the configuration have been dialled; a public DHT gets its time-out.
Boots ==
  /\ starting = "boot" /\ starting' = "register"
  /\ timer' = IF pub = None THEN timer ELSE Set(timer, pub, "armed")
  /\ UNCHANGED <<ctx, handlers, closing, pub, retired, made, held, closes, user, late, linked,
                 probes>>

\* Under protocolMu, like the removal by Close.
Registers ==
  /\ starting = "register"
  /\ IF ctx THEN starting' = "done" /\ handlers' = TRUE
            ELSE starting' = "refused" /\ UNCHANGED handlers
  /\ UNCHANGED <<ctx, closing, switch, linked, probes>>

\* The context New was given is over; only the caller of Close removes anything.
Cancels ==
  /\ ctx /\ ctx' = FALSE
  /\ UNCHANGED <<starting, handlers, closing, switch, linked, probes>>

Close ==
  /\ closing = "no" /\ closing' = "handlers" /\ ctx' = FALSE
  /\ UNCHANGED <<starting, handlers, switch, linked, probes>>

RemovesHandlers ==
  /\ closing = "handlers" /\ closing' = "detach" /\ handlers' = FALSE
  /\ UNCHANGED <<ctx, starting, switch, linked, probes>>

\* d.closed is set and the instance taken in the same critical section.
Detaches ==
  /\ closing = "detach" /\ closing' = "done"
  /\ held' = held \union ({pub} \ {None}) /\ pub' = None
  /\ UNCHANGED <<ctx, starting, handlers, retired, made, closes, timer, user, late, linked,
                 probes>>

Closed == closing = "done"

\* The one that has taken an instance closes it.
Shuts(i) ==
  /\ i \in held /\ held' = held \ {i} /\ closes' = Set(closes, i, closes[i] + 1)
  /\ UNCHANGED <<life, pub, retired, made, timer, user, late, linked, probes>>

-----------------------------------------------------------------------------
(* retirePublicDHT, and who calls it *)

Takes ==
  IF pub = None \/ retired THEN UNCHANGED <<pub, retired, held>>
  ELSE pub' = None /\ retired' = TRUE /\ held' = held \union {pub}

\* The user, at the console.
Disables ==
  /\ pub # None /\ Takes
  /\ UNCHANGED <<life, made, closes, timer, user, late, linked, probes>>

\* The time of an instance is up; if it is the current one, it is retired, or the one
\* that has taken its place since the timer looked.
ComesDue(i) ==
  /\ timer[i] = "armed"
  /\ timer' = Set(timer, i, IF ctx /\ pub = i THEN "due" ELSE "over")
  /\ UNCHANGED <<life, pub, retired, made, held, closes, user, late, linked, probes>>

TimesOut(i) ==
  /\ timer[i] = "due" /\ timer' = Set(timer, i, "over") /\ Takes
  /\ UNCHANGED <<life, made, closes, user, late, linked, probes>>

\* maybeRetirePublicDHT after an exchange: one peer that is connected, and proven not too
\* long ago, is enough.
MayRetire ==
  late' = TRUE /\ (late \/ (pub # None /\ ~retired /\ linked # {}))

Retires ==
  /\ late /\ late' = FALSE /\ Takes
  /\ UNCHANGED <<life, made, closes, timer, user, linked, probes>>

-----------------------------------------------------------------------------
(* EnablePublicDHTRuntime *)

Enables(u) ==
  /\ user[u] = "idle" /\ ~Closed /\ pub = None /\ made # Instances
  /\ user' = Set(user, u, "build")
  /\ UNCHANGED <<life, pub, retired, made, held, closes, timer, late, linked, probes>>

\* newPublicDHT, without a lock; with the context over it fails.
Builds(u) ==
  /\ user[u] = "build"
  /\ \/ user' = Set(user, u, "idle") /\ UNCHANGED made
     \/ \E i \in Instances \ made : user' = Set(user, u, i) /\ made' = made \union {i}
  /\ UNCHANGED <<life, pub, retired, held, closes, timer, late, linked, probes>>

Holds(u, i) == i \in Instances /\ user[u] = i

\* Mutant of Stores: what happened while the instance was built is not looked at.
StoresBlindly(u, i) ==
  /\ Holds(u, i) /\ user' = Set(user, u, "idle")
  /\ pub' = i /\ retired' = FALSE /\ timer' = Set(timer, i, "armed")
  /\ UNCHANGED <<life, made, held, closes, late, linked, probes>>

\* Mutant of Stores: publicRetired stays as the last retirement left it.
StoresRetired(u, i) ==
  /\ Holds(u, i) /\ user' = Set(user, u, "idle")
  /\ IF Closed \/ pub # None
     THEN held' = held \union {i} /\ UNCHANGED <<pub, timer>>
     ELSE pub' = i /\ timer' = Set(timer, i, "armed") /\ UNCHANGED held
  /\ UNCHANGED <<life, retired, made, closes, late, linked, probes>>

Stores(u, i) ==
  /\ Holds(u, i) /\ user' = Set(user, u, "idle")
  /\ IF Closed \/ pub # None
     THEN held' = held \union {i} /\ UNCHANGED <<pub, retired, timer>>
     ELSE pub' = i /\ retired' = FALSE /\ timer' = Set(timer, i, "armed") /\ UNCHANGED held
  /\ UNCHANGED <<life, made, closes, late, linked, probes>>

\* What the switch on the console comes to: on, or off.
SetPublicDHT(u) == Enables(u) \/ Disables

-----------------------------------------------------------------------------
(* Control exchanges (control.go) *)

Directions == {"in", "out"}

\* controlRate.acquire: not at the limit, not twice with a peer at the same time.  (Its
\* cooldown is left out: it only makes exchanges rarer.)
Acquires(d, p) ==
  /\ ctx /\ Cardinality({e \in probes : e[1] = d}) < MaxProbes
  /\ <<d, p>> \notin probes /\ probes' = probes \union {<<d, p>>}

\* queueControl for a peer that was discovered; handleControl for one that calls.
Probes(d, p) ==
  /\ Acquires(d, p) /\ (d = "in" => handlers)
  /\ linked' = linked \union {p}
  /\ UNCHANGED <<life, switch>>

\* The exchange ends: with a proof, or a failure, or its time is up.
Proves(d, p) ==
  /\ <<d, p>> \in probes /\ probes' = probes \ {<<d, p>>}
  /\ (ctx /\ MayRetire) \/ UNCHANGED late
  /\ UNCHANGED <<life, pub, retired, made, held, closes, timer, user, linked>>

Unlinks(p) ==
  /\ p \in linked /\ linked' = linked \ {p}
  /\ UNCHANGED <<life, switch, probes>>

-----------------------------------------------------------------------------

\* What the service does of itself; an exchange has a deadline.
ServiceSteps ==
  \/ Boots \/ Detaches \/ (\E i \in Instances : Shuts(i))
  \/ \E u \in Users : Builds(u) \/ \E i \in Instances : Stores(u, i)

Timers == \E i \in Instances : ComesDue(i) \/ TimesOut(i)

-----------------------------------------------------------------------------
(* Properties *)

\* Whatever Start, the timers and the switch on the console did at the same time: once
\* Close is through no handler is registered, and when nobody is left with an instance in
\* hand every instance that was ever made has been closed.  None is closed twice.
NothingAfterClose ==
  /\ \A i \in Instances : closes[i] <= 1
  /\ Closed => /\ ~handlers
               /\ (held = {} /\ \A u \in Users : user[u] = "idle") =>
                    \A i \in made : closes[i] = 1

\* A public DHT is a help to begin with: none stays for the life of the node, though
\* nobody may ever be found (armPublicDHTTimeout: against a switch left on).
BootstrapEnds ==
  \A i \in Instances : (pub = i /\ starting # "no") ~> (pub # i \/ ~ctx)

===============================================================================
