------------------------------ MODULE ClientNode ------------------------------
(***************************************************************************)
(* The life of an SDK node (sdk/go/lanet: client.go, listenfwd.go,         *)
(* portfwd.go, console.go; pkg/serverless/dns.go for the responder).       *)
(*                                                                         *)
(* New opens one resource after the other and rolls back through Close     *)
(* when a step fails.  Close cancels the context of the node and releases  *)
(* everything in a fixed order.  In between the table of port forwards is  *)
(* replaced by any number of callers, each of which then brings the        *)
(* listeners in line with it; listeners accept connections and peers open  *)
(* streams, and both are copied to a target until an end or the node goes. *)
(*                                                                         *)
(* What the resources do while they are open is left out, and so are the   *)
(* firewall's rules (a stream is let in or not) and what is copied.        *)
(***************************************************************************)
EXTENDS Naturals

CONSTANTS
  Ports, Targets,  \* of the table of forwards
  Setters,         \* callers of SetLANForwards and of the console's form
  Listeners,       \* listeners that can be started (bound)
  Conns,           \* connections to listeners and streams of peers (bound)
  Has,             \* the optional parts the node has
  Files,           \* the tables the state file may hold at the start (None: no file)
  MaxFaults,       \* steps that fail (bound)
  None

Tables == [Ports -> Targets \union {None}]
Rules  == [port : Ports, target : Targets \union {None}]
New == "New"             \* New brings the listeners in line as well
Callers == Setters \union {New}

ASSUME ClientAssumption ==
  /\ MaxFaults \in Nat /\ None \notin Targets \union Listeners \union Callers \union Rules
  /\ Has \subseteq {"db", "tun", "console"} /\ Files \subseteq Tables \union {None}

VARIABLES
  step,       \* New: what it does next; "ready", "failed"
  alive,      \* rootCtx is not cancelled
  open,       \* resources that are open
  own,        \* ... and in a field of the client, where Close finds them
  dns,        \* goroutine of the responder: "off", "bind", "serve", "gone"
  dnsClosed,  \* its closed flag
  closing,    \* Close: what it releases next; "no", "done"
  table, file,\* c.forwards; the state file
  doing,      \* a caller's place in SetLANForwards
  saw,        \* ... and the table it has read last
  stops, starts, \* ports it has yet to stop, to start
  lock,       \* lfReconcileMu
  listed,     \* lfListeners
  what,       \* port and target of a listener
  shut,       \* its shutdown: "no", "begun" (cancelled, socket closed), "done"
  loop,       \* its acceptLoop: "none", "accept", a connection it holds, "gone"
  conns,      \* its table of connections
  at, life,   \* a connection's listener (None: a stream), and its stage
  faults

life_   == <<step, alive, open, own, dns, dnsClosed, closing>>
tables  == <<table, file>>
syncing == <<doing, saw, stops, starts, lock>>
ears    == <<listed, what, shut, loop, conns>>
copies  == <<at, life>>
vars    == <<life_, tables, syncing, ears, copies, faults>>

Set(f, x, v) == [f EXCEPT ![x] = v]
NoTable == [p \in Ports |-> None]
Faulty == faults < MaxFaults /\ faults' = faults + 1

Init ==
  /\ step = "host" /\ alive = TRUE /\ open = {} /\ own = {}
  /\ dns = "off" /\ dnsClosed = FALSE /\ closing = "no"
  /\ table = NoTable /\ file \in Files
  /\ doing = [s \in Callers |-> "idle"] /\ saw = [s \in Callers |-> NoTable]
  /\ stops = [s \in Callers |-> {}] /\ starts = [s \in Callers |-> {}] /\ lock = None
  /\ listed = [p \in Ports |-> None] /\ what = [l \in Listeners |-> None]
  /\ shut = [l \in Listeners |-> "no"] /\ loop = [l \in Listeners |-> "none"]
  /\ conns = [l \in Listeners |-> {}]
  /\ at = [k \in Conns |-> None] /\ life = [k \in Conns |-> "new"]
  /\ faults = 0

-----------------------------------------------------------------------------
(* New *)

Goes(from, to) == step = from /\ step' = to
Opens(rs) == open' = open \union rs /\ own' = own \union rs

\* A part that is not asked for, or cannot be had, is left out and New goes on.
Optional(r) == Has \intersect {r}

\* The deferred Close of New.
Fails ==
  /\ step \in {"host", "join", "console"} /\ Faulty
  /\ step' = "failed" /\ closing' = "ctx"
  /\ UNCHANGED <<alive, open, own, dns, dnsClosed, tables, syncing, ears, copies>>

HostUp ==
  /\ Goes("host", "join") /\ Opens({"host"})
  /\ UNCHANGED <<alive, dns, dnsClosed, closing, tables, syncing, ears, copies, faults>>

\* createGroup or joinGroup: one request to the control plane.
JoinGroup == Goes("join", "serve")

\* With a control plane: the client is a member before it goes on.
JoinsGroup ==
  /\ JoinGroup
  /\ UNCHANGED <<alive, open, own, dns, dnsClosed, closing, tables, syncing, ears,
                 copies, faults>>

\* The address book, unless the configuration does without or it does not open; what it
\* starts in the background has the context of the node.
OpenPeersDB == Optional("db")

\* Without a control plane: the address book, and the discovery service.
MakesDiscovery ==
  /\ Goes("join", "start")
  /\ open' = open \union {"disc"} \union OpenPeersDB /\ own' = own \union OpenPeersDB
  /\ UNCHANGED <<alive, dns, dnsClosed, closing, tables, syncing, ears, copies, faults>>

\* Start refuses when its context is over; only then is the service the client's own.
StartsDiscovery ==
  /\ step = "start"
  /\ IF alive THEN step' = "serve" /\ own' = own \union {"disc"} /\ UNCHANGED closing
              ELSE step' = "failed" /\ closing' = "ctx" /\ UNCHANGED own
  /\ UNCHANGED <<alive, open, dns, dnsClosed, tables, syncing, ears, copies, faults>>

LoadState == table' = IF file = None THEN table ELSE file

\* The firewall and the table of forwards are there, and for the first time the listeners
\* are brought in line.
Serves ==
  /\ Goes("serve", "listen")
  /\ LoadState
  /\ doing' = Set(doing, New, "lock")
  /\ UNCHANGED <<alive, open, own, dns, dnsClosed, closing, file, saw, stops, starts,
                 lock, ears, copies, faults>>

\* startTUN fails, is not asked for, or leaves a device.
StartsTUN ==
  /\ doing[New] = "over" /\ Goes("listen", "dns")
  /\ Opens(Optional("tun"))
  /\ UNCHANGED <<alive, dns, dnsClosed, closing, tables, syncing, ears, copies, faults>>

StartsDNS ==
  /\ Goes("dns", "console")
  /\ dns' = "bind" /\ own' = own \union {"dns"}
  /\ UNCHANGED <<alive, open, dnsClosed, closing, tables, syncing, ears, copies, faults>>

StartsConsole ==
  /\ Goes("console", "ready")
  /\ Opens(Optional("console"))
  /\ UNCHANGED <<alive, dns, dnsClosed, closing, tables, syncing, ears, copies, faults>>

-----------------------------------------------------------------------------
(* Close *)

\* The caller's context ends, or the caller closes the node (closeOnce).
Cancels ==
  /\ alive /\ alive' = FALSE
  /\ UNCHANGED <<step, open, own, dns, dnsClosed, closing, tables, syncing, ears, copies,
                 faults>>

Close ==
  /\ step = "ready" /\ closing = "no" /\ closing' = "ctx"
  /\ UNCHANGED <<step, alive, open, own, dns, dnsClosed, tables, syncing, ears, copies,
                 faults>>

CancelsRoot ==
  /\ closing = "ctx" /\ closing' = "front"
  /\ alive' = FALSE
  /\ UNCHANGED <<step, open, own, dns, dnsClosed, tables, syncing, ears, copies, faults>>

\* What the client has of the parts rs; nobody sees one of them go before the other.
Lets(rs) == open' = open \ (own \intersect rs)

\* The device and the console go before the responder and the listeners ...
ReleasesFront ==
  /\ closing = "front" /\ closing' = "dns" /\ Lets({"tun", "console"})
  /\ UNCHANGED <<step, alive, own, dns, dnsClosed, tables, syncing, ears, copies, faults>>

\* ... and the address book, the discovery service and the host after them.
ReleasesBack ==
  /\ closing = "back" /\ closing' = "done" /\ Lets({"db", "disc", "host"})
  /\ UNCHANGED <<step, alive, own, dns, dnsClosed, tables, syncing, ears, copies, faults>>

ReleasesDNS ==
  /\ closing = "dns" /\ closing' = "listeners"
  /\ dnsClosed' = (dnsClosed \/ "dns" \in own)
  /\ UNCHANGED <<step, alive, open, own, dns, tables, syncing, ears, copies, faults>>

\* shutdown of listeners ls up to its own lock.
Shuts(ls) == shut' = [l \in Listeners |-> IF l \in ls /\ shut[l] = "no" THEN "begun" ELSE shut[l]]

Listed == {listed[p] : p \in Ports} \ {None}

\* All listeners at once under lfMu, which stays locked until they are down.
ReleasesListeners ==
  /\ closing = "listeners"
  /\ \/ (\E l \in Listed : shut[l] = "no") /\ Shuts(Listed) /\ UNCHANGED <<closing, listed>>
     \/ /\ \A l \in Listed : shut[l] = "done"
        /\ listed' = [p \in Ports |-> None] /\ closing' = "back" /\ UNCHANGED shut
  /\ UNCHANGED <<step, alive, open, own, dns, dnsClosed, tables, syncing, what, loop,
                 conns, copies, faults>>

\* lfMu is not held by Close.
Unheld == closing # "listeners" \/ \A l \in Listed : shut[l] = "no"

-----------------------------------------------------------------------------
(* Goroutines that end with the context: the responder, the device *)

\* The address may be taken; a responder that is closed meanwhile gives it back.
BindsDNS ==
  /\ dns = "bind"
  /\ \/ ~dnsClosed /\ dns' = "serve" /\ open' = open \union {"dns"} /\ UNCHANGED faults
     \/ dnsClosed /\ dns' = "gone" /\ UNCHANGED <<open, faults>>
     \/ Faulty /\ dns' = "gone" /\ UNCHANGED open
  /\ UNCHANGED <<step, alive, own, dnsClosed, closing, tables, syncing, ears, copies>>

EndsDNS ==
  /\ dns = "serve" /\ (dnsClosed \/ ~alive)
  /\ dns' = "gone" /\ dnsClosed' = TRUE /\ open' = open \ {"dns"}
  /\ UNCHANGED <<step, alive, own, closing, tables, syncing, ears, copies, faults>>

EndsTUN ==
  /\ "tun" \in open /\ ~alive /\ open' = open \ {"tun"}
  /\ UNCHANGED <<step, alive, own, dns, dnsClosed, closing, tables, syncing, ears, copies,
                 faults>>

-----------------------------------------------------------------------------
(* SetLANForwards: store, save, bring in line (syncListenForwards) *)

\* The table is replaced, and copied for the file ...
Stores(s, t) ==
  /\ step = "ready" /\ doing[s] = "idle"
  /\ table' = t /\ saw' = Set(saw, s, t) /\ doing' = Set(doing, s, "save")
  /\ UNCHANGED <<life_, file, stops, starts, lock, ears, copies, faults>>

\* ... which is written later: saveState holds no lock.
Saves(s) ==
  /\ doing[s] = "save"
  /\ file' = saw[s] /\ doing' = Set(doing, s, "lock")
  /\ UNCHANGED <<life_, table, saw, stops, starts, lock, ears, copies, faults>>

\* Mutant of Locks: two callers bring the listeners in line at the same time.
LocksNothing(s) ==
  /\ doing[s] = "lock"
  /\ doing' = Set(doing, s, "read") /\ UNCHANGED lock
  /\ UNCHANGED <<life_, tables, saw, stops, starts, ears, copies, faults>>

Locks(s) ==
  /\ doing[s] = "lock" /\ lock = None
  /\ lock' = s /\ doing' = Set(doing, s, "read")
  /\ UNCHANGED <<life_, tables, saw, stops, starts, ears, copies, faults>>

\* What is wanted, and what there is.
Compares(s) ==
  /\ doing[s] = "read" /\ Unheld
  /\ saw' = Set(saw, s, table)
  /\ stops' = Set(stops, s, {p \in Ports : listed[p] # None /\ what[listed[p]].target # table[p]})
  /\ starts' = Set(starts, s, {p \in Ports : table[p] # None})
  /\ doing' = Set(doing, s, "align")
  /\ UNCHANGED <<life_, tables, lock, ears, copies, faults>>

\* stopListenForward: the listener leaves the map and is shut down.
Stops(s, p) ==
  /\ doing[s] = "align" /\ p \in stops[s] /\ Unheld
  /\ stops' = Set(stops, s, stops[s] \ {p})
  /\ listed' = Set(listed, p, None) /\ Shuts({listed[p]} \ {None})
  /\ UNCHANGED <<life_, tables, doing, saw, starts, lock, what, loop, conns, copies, faults>>

Aligned(s) == doing[s] = "align" /\ stops[s] = {} /\ \A l \in Listeners : shut[l] # "begun"

\* startListenForward on port p.
Fresh == {l \in Listeners : what[l] = None}
Listens(s, p) ==
  LET l == CHOOSE m \in Fresh : TRUE IN
    /\ Fresh # {} \* (bound)
    /\ what' = Set(what, l, [port |-> p, target |-> saw[s][p]])
    /\ listed' = Set(listed, p, l) /\ loop' = Set(loop, l, "accept")
    /\ UNCHANGED <<shut, conns>>

\* Mutant of Starts: the context of the node is not asked again under the lock.
StartsAnyway(s, p) ==
  /\ Aligned(s) /\ p \in starts[s] /\ Unheld
  /\ starts' = Set(starts, s, starts[s] \ {p})
  /\ IF listed[p] # None THEN UNCHANGED ears ELSE Listens(s, p)
  /\ UNCHANGED <<life_, tables, doing, saw, stops, lock, copies, faults>>

Starts(s, p) ==
  /\ Aligned(s) /\ p \in starts[s] /\ Unheld
  /\ starts' = Set(starts, s, starts[s] \ {p})
  /\ IF listed[p] # None \/ ~alive
     THEN UNCHANGED <<ears, faults>>
     ELSE \/ Listens(s, p) /\ UNCHANGED faults
          \/ Faulty /\ UNCHANGED ears
  /\ UNCHANGED <<life_, tables, doing, saw, stops, lock, copies>>

Unlocks(s) ==
  /\ Aligned(s) /\ starts[s] = {}
  /\ lock' = None /\ doing' = Set(doing, s, "over") /\ saw' = Set(saw, s, NoTable)
  /\ UNCHANGED <<life_, tables, stops, starts, ears, copies, faults>>

-----------------------------------------------------------------------------
(* Listeners and what they accept *)

\* The context of the node takes its listeners along; a shutdown ends.
Follows(l) ==
  /\ what[l] # None /\ shut[l] = "no" /\ ~alive /\ Shuts({l})
  /\ UNCHANGED <<life_, tables, syncing, listed, what, loop, conns, copies, faults>>

ShutsDown(l) ==
  /\ shut[l] = "begun" /\ shut' = Set(shut, l, "done")
  /\ conns' = Set(conns, l, {})
  /\ UNCHANGED <<life_, tables, syncing, listed, what, loop, copies, faults>>

Accepts(l, k) ==
  /\ loop[l] = "accept" /\ shut[l] = "no" /\ life[k] = "new"
  /\ loop' = Set(loop, l, k) /\ at' = Set(at, k, l) /\ life' = Set(life, k, "held")
  /\ UNCHANGED <<life_, tables, syncing, listed, what, shut, conns, faults>>

\* addConn: not when the listener is closed, or has all the connections it may have.
Admits(l, k) ==
  /\ loop[l] = k /\ loop' = Set(loop, l, "accept")
  /\ \/ life' = Set(life, k, "gone") /\ UNCHANGED conns
     \/ /\ shut[l] # "done"
        /\ life' = Set(life, k, "dial") /\ conns' = Set(conns, l, conns[l] \union {k})
  /\ UNCHANGED <<life_, tables, syncing, listed, what, shut, at, faults>>

\* Accept fails: the socket is closed, or there is no descriptor left.
AcceptEnds(l) ==
  /\ loop[l] = "accept" /\ loop' = Set(loop, l, "gone")
  /\ IF shut[l] = "no" THEN Faulty /\ Shuts({l}) ELSE UNCHANGED <<shut, faults>>
  /\ UNCHANGED <<life_, tables, syncing, listed, what, conns, copies>>

\* A stream of a peer, for the handler enablePortFWD registers.
Arrives(k) ==
  /\ "host" \in open /\ step \in {"listen", "dns", "console", "ready"} /\ life[k] = "new"
  /\ life' = Set(life, k, "shake")
  /\ UNCHANGED <<life_, tables, syncing, ears, at, faults>>

\* Its header is read and the firewall lets it in, or not, or there is no time left.
Asks(k) ==
  /\ life[k] = "shake"
  /\ \/ alive /\ life' = Set(life, k, "dial")
     \/ life' = Set(life, k, "gone")
  /\ UNCHANGED <<life_, tables, syncing, ears, at, faults>>

Drops(k) == conns' = [l \in Listeners |-> conns[l] \ {k}]
Released(k) == IF at[k] = None THEN ~alive ELSE shut[at[k]] # "no"

Dials(k) ==
  /\ life[k] = "dial"
  /\ \/ life' = Set(life, k, "copy") /\ UNCHANGED conns
     \/ life' = Set(life, k, "gone") /\ Drops(k)
  /\ UNCHANGED <<life_, tables, syncing, listed, what, shut, loop, at, faults>>

\* One direction after the other ends: an end closes it, or both are closed.
Next_(k) == IF life[k] = "copy" THEN "half" ELSE "gone"

HalfEnds(k) ==
  /\ life[k] \in {"copy", "half"}
  /\ life' = Set(life, k, Next_(k))
  /\ IF life[k] = "half" THEN Drops(k) ELSE UNCHANGED conns
  /\ UNCHANGED <<life_, tables, syncing, listed, what, shut, loop, at, faults>>

\* Mutant of CutsOff: only the accepted connection is closed, not the target's.
CutsOffOneSide(k) == Released(k) /\ life[k] = "copy" /\ HalfEnds(k)

CutsOff(k) == Released(k) /\ HalfEnds(k)

-----------------------------------------------------------------------------

Works ==
  \/ HostUp \/ JoinsGroup \/ MakesDiscovery \/ StartsDiscovery \/ Serves \/ StartsTUN
  \/ StartsDNS \/ StartsConsole
  \/ CancelsRoot \/ ReleasesFront \/ ReleasesDNS \/ ReleasesListeners \/ ReleasesBack
  \/ BindsDNS \/ EndsDNS \/ EndsTUN
  \/ \E s \in Callers :
       \/ Saves(s) \/ Locks(s) \/ Compares(s) \/ Unlocks(s)
       \/ \E p \in Ports : Stops(s, p) \/ Starts(s, p)
  \/ \E l \in Listeners :
       Follows(l) \/ ShutsDown(l) \/ (\E k \in Conns : Admits(l, k))
       \/ (shut[l] # "no" /\ AcceptEnds(l))
  \/ \E k \in Conns : Asks(k) \/ Dials(k) \/ CutsOff(k)

Next ==
  \/ Works \/ Fails \/ Cancels \/ Close
  \/ \E s \in Setters, t \in Tables : Stores(s, t)
  \/ \E l \in Listeners : AcceptEnds(l) \/ \E k \in Conns : Accepts(l, k)
  \/ \E k \in Conns : Arrives(k) \/ HalfEnds(k)

\* The goroutines of the node run, and a dial ends.  (One condition for all of them is
\* weaker than one for each, and enough: none of them can be busy for ever.)
Fairness == WF_vars(Works)

Spec == Init /\ [][Next]_vars
FairSpec == Spec /\ Fairness

-----------------------------------------------------------------------------
(* Properties *)

Resting == step = "ready" /\ alive /\ \A s \in Callers : doing[s] \in {"idle", "over"}

\* When every caller is through, the listeners are those of the last table, whatever
\* order the callers came in; a port without one could not be bound.  And nobody starts a
\* listener behind the back of Close (syncListenForwards, stopListenForwards).
LastTableWins ==
  /\ Resting => \A p \in Ports :
       IF listed[p] # None THEN what[listed[p]].target = table[p]
                           ELSE table[p] = None \/ faults > 0
  /\ closing \in {"back", "done"} => Listed = {}

\* Once the context is over, or Close has begun, whatever the node had started ends,
\* and Close leaves nothing open that the client knows of.
EverythingGoes ==
  /\ ~alive ~> /\ "tun" \notin open /\ dns \notin {"bind", "serve"}
               /\ \A l \in Listeners : what[l] # None => shut[l] = "done" /\ loop[l] = "gone"
               /\ \A k \in Conns : life[k] \in {"new", "gone"}
  /\ closing # "no" ~> closing = "done" /\ own \intersect open = {}
=============================================================================
