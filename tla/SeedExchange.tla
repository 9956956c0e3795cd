----------------------------- MODULE SeedExchange -----------------------------
(***************************************************************************)
(* The exchange of seeds, in the discovery service it is part of:          *)
(* pkg/serverless/seedex.go (who may exchange when), pkg/peersdb/seeds.go  *)
(* (the tables) and sdk/go/lanet/seeds.go (which joins the two).           *)
(*                                                                         *)
(* A seed is a node that others may use as an entry or a relay.  There is  *)
(* a table of them for the group and one for the whole network; each scope *)
(* can be switched on and off while the node runs.  Nodes ask each other   *)
(* now and then and answer with what they know; one gate for both          *)
(* directions and scopes bounds how many exchanges there are, and how      *)
(* often with one peer.  A seed that was only heard of is not handed on    *)
(* until the node has been connected to it.                                *)
(*                                                                         *)
(* Friends never enter the tables; the peers here are no friends.          *)
(***************************************************************************)
EXTENDS DiscoveryService, Sequences

CONSTANTS
  Order,         \* the scopes, in the order of a round
  MaxExchanges,  \* seedsMaxConcurrent
  SeedLimit,     \* the rows a table may have
  Public         \* peers with a public address

Scopes == {Order[k] : k \in DOMAIN Order}
Off   == 0
Pause == Len(Order) + 1

ASSUME SeedAssumption ==
  /\ MaxExchanges \in Nat \ {0} /\ SeedLimit \in Nat \ {0} /\ Public \subseteq Peers

VARIABLES
  kept, on,      \* the switches: in app_settings; seedGroupOn and seedGlobalOn
  seedHandlers,  \* their stream handlers are registered
  running,       \* Run has been called
  loop,          \* the loop of startSeedExchange: Off, Pause, or the place of a scope
  active, cool,  \* seedGate: exchanges admitted; peers in cooldown or backed off
  ex,            \* exchanges in progress
  rows,          \* of each table: peers "heard" of, or "met"
  met, given,    \* peers the node was ever connected to, and those it ever handed on
  used           \* which half of the service a behaviour uses (bound)

wiring == <<kept, on, seedHandlers, running, used>>
seedVars == <<wiring, loop, active, cool, ex, rows, met, given>>
vars == <<serviceVars, seedVars>>

Init ==
  /\ ServiceInit /\ used \in {"dht", "seeds"} /\ (used = "seeds" => pub = None)
  /\ kept \in [Scopes -> BOOLEAN] /\ on \in [Scopes -> BOOLEAN]
  /\ used = "dht" => \A s \in Scopes : ~kept[s] /\ ~on[s]
  /\ seedHandlers = FALSE /\ running = FALSE /\ loop = Off /\ active = 0 /\ cool = {} /\ ex = {}
  /\ rows = [s \in Scopes |-> [p \in Peers |-> "none"]] /\ met = {} /\ given = {}

-----------------------------------------------------------------------------
(* The tables *)

Known(t) == {p \in Peers : t[p] # "none"}

\* EvictSeeds: what was never met goes first.
Evicted(t) ==
  {[p \in Peers |-> IF p \in stay THEN t[p] ELSE "none"] :
     stay \in {k \in SUBSET Known(t) :
       /\ Cardinality(k) = IF Cardinality(Known(t)) > SeedLimit THEN SeedLimit
                           ELSE Cardinality(Known(t))
       /\ \A p \in k, q \in Known(t) \ k : t[p] = "heard" => t[q] = "heard"}}

\* UpsertSeed: new rows are hearsay, the others keep what is known of them.
Upserted(t, R) == [p \in Peers |-> IF p \in R /\ t[p] = "none" THEN "heard" ELSE t[p]]

\* NoteSeedDialResult: a row that is there, and no other.
Noted(t, p) == IF t[p] = "none" THEN t ELSE Set(t, p, "met")

\* ObserveConnectedSeed: with or without a row before.
Observed(t, R) == [p \in Peers |-> IF p \in R THEN "met" ELSE t[p]]

\* PruneStaleSeeds: rows nobody touched for a week, or a month where they were met once.
Pruned(t) == {[p \in Peers |-> IF p \in R THEN "none" ELSE t[p]] : R \in SUBSET Known(t)}

\* seedMergeFn.
Merges(s, R) ==
  IF ~on[s] THEN UNCHANGED rows
  ELSE \E t \in Evicted(Upserted(rows[s], R)) : rows' = Set(rows, s, t)

\* Mutant of Shared: whatever the table has is handed on.
SharedAll(s) == {p \in Peers : on[s] /\ rows[s][p] # "none"}

\* seedSourceFn.
Shared(s) == {p \in Peers : on[s] /\ rows[s][p] = "met"}

\* seedCandidateFn, as of the switch: who is asked for reservations before others are.
SeedCandidates == {p \in Peers : \E s \in Scopes : on[s] /\ rows[s][p] = "met"}

\* sanitizeSeedRecords: what has no address that others can use stays behind.
LocalSeedRecords(s) == SUBSET Shared(s)

\* The row of a scope in app_settings, or the default of readSeedSettings.
GetSetting(s) == kept[s]

\* A table is looked after as app_settings has it, not as the exchange was told.
Tends(s, t) ==
  /\ GetSetting(s) /\ ctx /\ rows' = Set(rows, s, t)
  /\ UNCHANGED <<serviceVars, wiring, loop, active, cool, ex, given, met>>

\* verifySeedsOnce: a seed that is connected now has been met.
Verifies(s, p) == p \in linked /\ rows[s][p] = "heard" /\ Tends(s, Noted(rows[s], p))

\* harvestSeedCandidates: so are peers with a public address, and they enter.
Harvests(s) ==
  \E t \in Evicted(Observed(rows[s], linked \intersect Public)) : t # rows[s] /\ Tends(s, t)

\* sweepStaleSeeds.
Sweeps(s) == \E t \in Pruned(rows[s]) : t # rows[s] /\ Tends(s, t)

\* Its rounds go on until the context of the node is over.
StartSeedVerifier(s) == Harvests(s) \/ Sweeps(s) \/ \E p \in Peers : Verifies(s, p)

-----------------------------------------------------------------------------
(* The switch, the handlers, the loop *)

SeedScopeEnabled(s) == on[s]

\* For each of the scopes.
SetSetting(f) == kept' = f

\* SetSeedSettings writes the table, one setting after the other; any of it may fail, and
\* then the exchange is not told.
Saves(f) ==
  /\ used = "seeds" /\ f # kept /\ SetSetting(f)
  /\ UNCHANGED <<serviceVars, on, seedHandlers, running, used, loop, active, cool, ex, rows,
                 given, met>>

\* EnableSeedExchange, under protocolMu; the handlers stay once they are registered.
Switches(f) ==
  /\ ctx /\ on' = f /\ seedHandlers' = TRUE
  /\ UNCHANGED <<serviceVars, kept, running, loop, active, cool, ex, rows, given, met, used>>

\* applySeedExchange: after SetSeedSettings, and once the node is ready (startSeedWiring).
Applies == used = "seeds" /\ Switches([s \in Scopes |-> GetSetting(s)])

\* The end of Start, with the handlers of the seeds.
StartRegisters ==
  /\ Registers
  /\ seedHandlers' = (seedHandlers \/ (ctx /\ \E s \in Scopes : on[s]))
  /\ UNCHANGED <<kept, on, running, loop, active, cool, ex, rows, given, met, used>>

CloseRemoves ==
  /\ RemovesHandlers /\ seedHandlers' = FALSE
  /\ UNCHANGED <<kept, on, running, loop, active, cool, ex, rows, given, met, used>>

\* Run starts the loop if a scope is on at that moment.
Run ==
  /\ used = "seeds" /\ starting = "done" /\ ~running /\ running' = TRUE
  /\ loop' = IF \E s \in Scopes : on[s] THEN Pause ELSE loop
  /\ UNCHANGED <<serviceVars, kept, on, seedHandlers, active, cool, ex, rows, given, met, used>>

NextRound ==
  /\ loop = Pause /\ loop' = IF ctx THEN 1 ELSE Off
  /\ UNCHANGED <<serviceVars, wiring, active, cool, ex, rows, given, met>>

\* A scope is done when all its exchanges are.
NextScope ==
  /\ loop \in DOMAIN Order /\ \A e \in ex : e.dir = "in"
  /\ loop' = loop + 1
  /\ UNCHANGED <<serviceVars, wiring, active, cool, ex, rows, given, met>>

-----------------------------------------------------------------------------
(* Exchanges *)

Meets(p) == linked' = linked \union {p} /\ met' = met \union {p}

\* A peer connects.
Links(p) ==
  /\ used = "seeds" /\ ctx /\ p \notin linked /\ Meets(p)
  /\ UNCHANGED <<life, switch, probes, wiring, loop, active, cool, ex, rows, given>>

\* A control exchange connects them, too.
ProbeMeets(d, p) ==
  /\ used = "dht" /\ Probes(d, p) /\ Meets(p)
  /\ UNCHANGED <<wiring, loop, active, cool, ex, rows, given>>

\* seedRateLimiter.allow.
Admitted(e) ==
  /\ active < MaxExchanges /\ e.peer \notin cool
  /\ active' = active + 1 /\ cool' = cool \union {e.peer} /\ ex' = ex \union {e}

\* Five minutes later; an exchange takes 20 s at most.
CoolsOff(p) ==
  /\ p \in cool /\ (\A e \in ex : e.peer # p) /\ cool' = cool \ {p}
  /\ UNCHANGED <<serviceVars, wiring, loop, active, ex, rows, given, met>>

\* seedRound.
Calls(p) ==
  /\ loop \in DOMAIN Order /\ SeedScopeEnabled(Order[loop])
  /\ Admitted([dir |-> "out", peer |-> p, scope |-> Order[loop], at |-> "write"])
  /\ UNCHANGED <<serviceVars, wiring, loop, rows, given, met>>

\* handleSeeds.
Called(p, s) ==
  /\ seedHandlers /\ ctx /\ SeedScopeEnabled(s) /\ p \in linked
  /\ Admitted([dir |-> "in", peer |-> p, scope |-> s, at |-> "read"])
  /\ UNCHANGED <<serviceVars, wiring, loop, rows, given, met>>

Ends(e) == ex' = ex \ {e} /\ active' = IF active > 0 THEN active - 1 ELSE active
GoesOn(e, at) == ex' = (ex \ {e}) \union {[e EXCEPT !.at = at]} /\ UNCHANGED active

\* Mutant of Breaks: an exchange that fails keeps its place.
BreaksHolding(e) ==
  /\ ex' = ex \ {e} /\ UNCHANGED active
  /\ cool' = IF e.dir = "out" THEN cool \union {e.peer} ELSE cool
  /\ UNCHANGED <<serviceVars, wiring, loop, rows, given, met>>

\* The stream fails, the peer refuses, its time is up, or the service is closed; a peer
\* that was called is left alone for an hour.
Breaks(e) ==
  /\ Ends(e) /\ cool' = IF e.dir = "out" THEN cool \union {e.peer} ELSE cool
  /\ UNCHANGED <<serviceVars, wiring, loop, rows, given, met>>

\* The handler merges first and answers then.
Reads(e, R) ==
  /\ e.at = "read" /\ ctx /\ Merges(e.scope, R \ {e.peer}) /\ GoesOn(e, "reply")
  /\ UNCHANGED <<serviceVars, wiring, loop, cool, given, met>>

Replies(e) ==
  /\ e.at = "reply" /\ ctx /\ Ends(e)
  /\ \E R \in LocalSeedRecords(e.scope) : given' = given \union R
  /\ UNCHANGED <<serviceVars, wiring, loop, cool, rows, met>>

\* exchangeSeeds: the peer is connected; a node without seeds waits for no answer.
Writes(e) ==
  /\ e.at = "write" /\ ctx
  /\ Meets(e.peer)
  /\ \E R \in LocalSeedRecords(e.scope) :
       /\ given' = given \union R
       /\ IF R = {} THEN Ends(e) ELSE GoesOn(e, "await")
  /\ UNCHANGED <<life, switch, probes, wiring, loop, cool, rows>>

Gets(e, R) ==
  /\ e.at = "await" /\ ctx /\ Merges(e.scope, R \ {e.peer}) /\ Ends(e)
  /\ UNCHANGED <<serviceVars, wiring, loop, cool, given, met>>


-----------------------------------------------------------------------------

ExchangeGoesOn(e) ==
  \/ Breaks(e) \/ Replies(e) \/ Writes(e)
  \/ \E R \in SUBSET Peers : Reads(e, R) \/ Gets(e, R)

\* The actions of DiscoveryService leave the seeds alone.
Next ==
  \/ Start /\ UNCHANGED seedVars
  \/ Boots /\ UNCHANGED seedVars
  \/ Cancels /\ UNCHANGED seedVars
  \/ Close /\ UNCHANGED seedVars
  \/ Detaches /\ UNCHANGED seedVars
  \/ Retires /\ UNCHANGED seedVars
  \/ \E i \in Instances :
       \/ Shuts(i) /\ UNCHANGED seedVars
       \/ ComesDue(i) /\ UNCHANGED seedVars
       \/ TimesOut(i) /\ UNCHANGED seedVars
       \/ \E u \in Users : Stores(u, i) /\ UNCHANGED seedVars
  \/ \E u \in Users :
       \/ used = "dht" /\ SetPublicDHT(u) /\ UNCHANGED seedVars
       \/ Builds(u) /\ UNCHANGED seedVars
  \/ \E p \in Peers : Unlinks(p) /\ UNCHANGED seedVars
  \/ \E p \in Public, d \in Directions :
       ProbeMeets(d, p) \/ (Proves(d, p) /\ UNCHANGED seedVars)
  \/ StartRegisters \/ CloseRemoves \/ Run \/ NextRound \/ NextScope
  \/ \E f \in [Scopes -> BOOLEAN] : Saves(f)
  \/ Applies
  \/ \E s \in Scopes : StartSeedVerifier(s) \/ \E p \in Peers : Called(p, s)
  \/ \E p \in Peers : Calls(p) \/ CoolsOff(p) \/ Links(p)
  \/ \E e \in ex : ExchangeGoesOn(e)

\* What the service does of itself goes on, timers fire, and an exchange has a deadline;
\* calls, the switches and connections come as they please.  (For each of the three, some
\* step at a time is enough for what is claimed below.)
Fairness ==
  /\ WF_vars((ServiceSteps /\ UNCHANGED seedVars) \/ StartRegisters \/ CloseRemoves)
  /\ WF_vars(Timers /\ UNCHANGED seedVars)
  /\ WF_vars(\E e \in ex : ExchangeGoesOn(e))

Spec == Init /\ [][Next]_vars
FairSpec == Spec /\ Fairness

-----------------------------------------------------------------------------
(* Properties *)

\* A node hands on only what it has been connected to itself, whatever it is told, and
\* whatever was evicted and heard of again (the gate of verification of seedSourceFn:
\* "or false addresses would go round like a rumour"); nor does it look for relays among
\* others (seedCandidateFn).
NoHearsay == given \union SeedCandidates \subseteq met

\* The places of the gate are for every peer and both directions; they come back however
\* an exchange ends, or the node would never exchange again.
PlacesComeBack == active = MaxExchanges ~> active < MaxExchanges

\* The same as NothingAfterClose, with the handlers of the seeds.
NothingStays == NothingAfterClose /\ (Closed => ~seedHandlers)

\* Stated by SeedExchangeOptions ("a switch that is changed must take effect at once"),
\* and not so: only Run starts the loop, and only if a scope is on by then.
SwitchTakesEffect ==
  (running /\ \A s \in Scopes : on[s]) ~> (loop # Off \/ ~ctx \/ \E s \in Scopes : ~on[s])

===============================================================================
