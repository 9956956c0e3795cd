------------------------- MODULE TunnelServiceProofs -------------------------
(* What is proved of TunnelService, for every value of the constants. *)
EXTENDS TunnelService, FiniteSetTheorems, FunctionTheorems, TLAPS

-----------------------------------------------------------------------------
(* The candidates *)

LEMMA KeysAre ==
  ASSUME NEW e \in Entry
  PROVE  /\ \A i \in 1 .. 5 : Keys(e)[i] \in Nat
         /\ \A f \in Entry : (\A i \in 1 .. 5 : Keys(e)[i] = Keys(f)[i]) => e = f
<1>1. \A f \in Entry : \A i \in 1 .. 5 : Keys(f)[i] \in Nat
  BY DEF Keys, Entry
<1>2. ASSUME NEW f \in Entry, \A i \in 1 .. 5 : Keys(e)[i] = Keys(f)[i] PROVE e = f
  <2>1. Keys(e)[1] = Keys(f)[1] /\ Keys(e)[3] = Keys(f)[3] /\ Keys(e)[4] = Keys(f)[4] /\ Keys(e)[5] = Keys(f)[5]
    BY <1>2
  <2>2. e.tier = f.tier /\ e.id = f.id
    BY <2>1 DEF Keys
  <2>3. e.hop = f.hop /\ e.connected = f.connected
    BY <2>1 DEF Keys, Entry
  <2> QED
    BY <2>2, <2>3 DEF Entry
<1> QED
  BY <1>1, <1>2

\* The order of the candidates is strict and total.
LEMMA BeforeOrders ==
  ASSUME NEW e \in Entry, NEW f \in Entry, NEW g \in Entry
  PROVE  /\ ~Before(e, e)
         /\ e = f \/ Before(e, f) \/ Before(f, e)
         /\ ~(Before(e, f) /\ Before(f, e))
         /\ Before(e, f) /\ Before(f, g) => Before(e, g)
<1> DEFINE k(x) == Keys(x)
<1>1. \A x \in Entry : \A i \in 1 .. 5 : k(x)[i] \in Nat
  BY KeysAre
<1>2. \A x, y \in Entry : (\A i \in 1 .. 5 : k(x)[i] = k(y)[i]) => x = y
  BY KeysAre
<1>3. \A x, y \in Entry : Before(x, y) <=>
        \E i \in 1 .. 5 : k(x)[i] < k(y)[i] /\ \A j \in 1 .. i - 1 : k(x)[j] = k(y)[j]
  BY DEF Before
<1> HIDE DEF k
<1>4. ~Before(e, e)
  BY <1>1, <1>3
<1>5. e = f \/ Before(e, f) \/ Before(f, e)
  <2> SUFFICES ASSUME ~Before(e, f), ~Before(f, e) PROVE e = f
    OBVIOUS
  <2>1. ASSUME NEW i \in 1 .. 5, \A j \in 1 .. i - 1 : k(e)[j] = k(f)[j] PROVE k(e)[i] = k(f)[i]
    BY <1>1, <1>3, <2>1
  <2>2. k(e)[1] = k(f)[1]
    BY <2>1
  <2>3. k(e)[2] = k(f)[2]
    BY <2>1, <2>2
  <2>4. k(e)[3] = k(f)[3]
    BY <2>1, <2>2, <2>3
  <2>5. k(e)[4] = k(f)[4]
    BY <2>1, <2>2, <2>3, <2>4
  <2>6. k(e)[5] = k(f)[5]
    BY <2>1, <2>2, <2>3, <2>4, <2>5
  <2> QED
    BY <1>2, <2>2, <2>3, <2>4, <2>5, <2>6
<1>6. ~(Before(e, f) /\ Before(f, e))
  <2> SUFFICES ASSUME Before(e, f), Before(f, e) PROVE FALSE
    OBVIOUS
  <2>1. PICK i \in 1 .. 5 : k(e)[i] < k(f)[i] /\ \A j \in 1 .. i - 1 : k(e)[j] = k(f)[j]
    BY <1>3
  <2>2. PICK l \in 1 .. 5 : k(f)[l] < k(e)[l] /\ \A j \in 1 .. l - 1 : k(f)[j] = k(e)[j]
    BY <1>3
  <2>3. i < l \/ l < i \/ i = l
    OBVIOUS
  <2> QED
    BY <1>1, <2>1, <2>2, <2>3
<1>7. Before(e, f) /\ Before(f, g) => Before(e, g)
  <2> SUFFICES ASSUME Before(e, f), Before(f, g) PROVE Before(e, g)
    OBVIOUS
  <2>1. PICK i \in 1 .. 5 : k(e)[i] < k(f)[i] /\ \A j \in 1 .. i - 1 : k(e)[j] = k(f)[j]
    BY <1>3
  <2>2. PICK l \in 1 .. 5 : k(f)[l] < k(g)[l] /\ \A j \in 1 .. l - 1 : k(f)[j] = k(g)[j]
    BY <1>3
  <2>3. CASE i <= l
    <3>1. k(e)[i] < k(g)[i] /\ \A j \in 1 .. i - 1 : k(e)[j] = k(g)[j]
      BY <1>1, <2>1, <2>2, <2>3
    <3> QED
      BY <1>3, <3>1
  <2>4. CASE l < i
    <3>1. k(e)[l] < k(g)[l] /\ \A j \in 1 .. l - 1 : k(e)[j] = k(g)[j]
      BY <1>1, <2>1, <2>2, <2>4
    <3> QED
      BY <1>3, <3>1
  <2> QED
    BY <2>3, <2>4
<1> QED
  BY <1>4, <1>5, <1>6, <1>7

Place(e, best) == 1 + Cardinality({f \in best : Before(f, e)})

\* Each place of a finite set of entries is taken by one of them.
LEMMA PlacesTaken ==
  ASSUME NEW best \in SUBSET Entry, IsFiniteSet(best), NEW i \in 1 .. Cardinality(best)
  PROVE  \E e \in best : Place(e, best) = i
<1> DEFINE n == Cardinality(best)
           ahead(e) == {f \in best : Before(f, e)}
           p == [e \in best |-> Place(e, best)]
<1>0. n \in Nat
  BY FS_CardinalityType
<1>1. ASSUME NEW e \in best
      PROVE  IsFiniteSet(ahead(e)) /\ Cardinality(ahead(e)) \in 0 .. n - 1
  <2>1. IsFiniteSet(best \ {e}) /\ Cardinality(best \ {e}) = n - 1
    BY FS_RemoveElement
  <2>2. ahead(e) \in SUBSET (best \ {e})
    BY BeforeOrders
  <2>3. IsFiniteSet(ahead(e)) /\ Cardinality(ahead(e)) <= n - 1
    BY <2>1, <2>2, FS_Subset
  <2> HIDE DEF ahead
  <2> QED
    BY <1>0, <2>3, FS_CardinalityType
<1>2. ASSUME NEW e \in best, NEW f \in best, Before(e, f) PROVE Place(e, best) # Place(f, best)
  <2>1. ahead(e) \in SUBSET ahead(f)
    BY <1>2, BeforeOrders
  <2>2. e \in ahead(f) /\ e \notin ahead(e)
    BY <1>2, BeforeOrders
  <2>3. Cardinality(ahead(e)) # Cardinality(ahead(f))
    BY <1>1, <2>1, <2>2, FS_Subset
  <2>4. Place(e, best) = 1 + Cardinality(ahead(e)) /\ Place(f, best) = 1 + Cardinality(ahead(f))
    BY DEF Place
  <2> HIDE DEF ahead
  <2> QED
    BY <1>1, <2>3, <2>4
<1>3. p \in [best -> 1 .. n]
  <2>1. ASSUME NEW e \in best PROVE Place(e, best) \in 1 .. n
    <3>1. Place(e, best) = 1 + Cardinality(ahead(e))
      BY DEF Place
    <3> HIDE DEF ahead
    <3> QED
      BY <1>0, <1>1, <3>1
  <2> QED
    BY <2>1
<1>4. p \in Injection(best, 1 .. n)
  <2>1. \A e, f \in best : p[e] = p[f] => e = f
    BY <1>2, BeforeOrders
  <2> QED
    BY <1>3, <2>1 DEF Injection, IsInjective
<1>5. IsFiniteSet(1 .. n) /\ Cardinality(1 .. n) = n
  BY <1>0, FS_Interval
<1>6. p \in Surjection(best, 1 .. n)
  BY <1>4, <1>5, FS_Injection
<1> QED
  BY <1>6 DEF Surjection

\* The lists of candidates are no longer than the limit, of nodes that are known and not
\* the node's own.
LEMMA RankingIs ==
  ASSUME NEW n \in Nodes, NEW view \in Views
  PROVE  /\ Ranking[n][view] \in Seq(Nat)
         /\ Len(Ranking[n][view]) <= MaxCandidates
         /\ n \notin ToSet(Ranking[n][view])
<1> DEFINE entries == {e \in view : e.id # n}
           best == {e \in entries : \A f \in entries : f.id = e.id => f = e \/ Before(e, f)}
           len == Min({MaxCandidates, Cardinality(best)})
           list == [i \in 1 .. len |-> (CHOOSE e \in best : Place(e, best) = i).id]
<1>1. Ranking[n][view] = list
  BY DEF Ranking, OrderRelayCandidates, Place
<1>2. best \in SUBSET Entry /\ IsFiniteSet(best) /\ \A e \in best : e.id # n
  BY TunnelAssumption, FS_Subset
<1> HIDE DEF best
<1>3. Cardinality(best) \in Nat /\ MaxCandidates \in Nat
  BY <1>2, FS_CardinalityType, TunnelAssumption
<1>4. len \in Nat /\ len <= MaxCandidates /\ len <= Cardinality(best)
  BY <1>3 DEF Min
<1> HIDE DEF len
<1>5. ASSUME NEW i \in 1 .. len
      PROVE  list[i] \in Nat /\ list[i] # n
  <2>1. i \in 1 .. Cardinality(best)
    BY <1>3, <1>4
  <2>2. (CHOOSE e \in best : Place(e, best) = i) \in best
    BY <1>2, <2>1, PlacesTaken
  <2> QED
    BY <1>2, <2>2 DEF Entry
<1>6. list \in Seq(Nat) /\ Len(list) = len
  BY <1>4, <1>5
<1>7. n \notin ToSet(list)
  BY <1>4, <1>5, <1>6 DEF ToSet
<1> QED
  BY <1>1, <1>4, <1>6, <1>7

-----------------------------------------------------------------------------
(* The calls *)

Waits4  == {"wait", "claim", "reuse", "leave"}
Dials6  == {"check", "linked", "direct", "relay", "open", "done"}

Call == [pc : {"idle"} \union Waits4 \union Dials6, to : Targets \union {None},
         proto : Protos \union {None}, flight : {None, "open", "over"},
         left : Int, rest : Seq(Nat), seen : SUBSET Nat, ok : BOOLEAN]

CallType ==
  /\ known \in [Nodes -> Views]
  /\ call \in [Callers -> Call]
  /\ \A c \in Callers :
       /\ call[c].pc # "idle" => call[c].to \in Targets
       /\ call[c].pc = "open" => call[c].rest # <<>>

\* The list of the node that calls.
List == Candidates(Self)

LEMMA ListIs ==
  ASSUME known \in [Nodes -> Views]
  PROVE  List \in Seq(Nat) /\ Len(List) <= MaxCandidates /\ Self \notin ToSet(List)
BY RankingIs DEF List, Candidates, Nodes

LEMMA BudgetIs ==
  ASSUME CallType, NEW c \in Callers, call[c].rest # <<>>, call[c].left > 0
  PROVE  Budget(c) \in Nat /\ Budget(c) <= call[c].left \div Len(call[c].rest)
<1>1. call[c].left \in Nat /\ Len(call[c].rest) \in Nat \ {0} /\ AttemptTime \in Nat
  BY TunnelAssumption DEF CallType, Call
<1>2. ASSUME NEW l \in Nat, NEW n \in Nat \ {0} PROVE l \div n \in Nat
  OBVIOUS
<1>3. call[c].left \div Len(call[c].rest) \in Nat
  BY <1>1, <1>2
<1> QED
  BY <1>1, <1>3 DEF Budget

\* What a step of a dial does to its call, and that it does nothing to the others.
DialMoves(c, r) ==
  /\ UNCHANGED <<known, gate>>
  /\ call' = [call EXCEPT ![c] = r]
  /\ r \in Call /\ r.to = call[c].to /\ call[c].pc \in Dials6 /\ r.pc \in Dials6
  /\ r.pc = "open" => r.rest # <<>>

LEMMA DialStep ==
  ASSUME CallType, NEW c \in Callers,
         \/ Checks(c) \/ OnLink(c) \/ Direct(c) \/ FallsBack(c) \/ Skips(c)
         \/ ConnectsVia(c) \/ FailsVia(c) \/ OpensVia(c) \/ Exhausted(c) \/ Cancels(c)
  PROVE  \E r \in Call : DialMoves(c, r)
<1> USE DEF DialMoves, links, Dials6
<1>0. call \in [Callers -> Call] /\ call[c] \in Call
  BY DEF CallType
<1>1. CASE Checks(c)
  <2> DEFINE r == [call[c] EXCEPT !.pc = IF call[c].to \in linked THEN "linked" ELSE "direct"]
  <2>1. r \in Call /\ r.to = call[c].to /\ r.pc \in {"linked", "direct"}
    BY <1>0 DEF Call
  <2>2. call' = [call EXCEPT ![c] = r] /\ call[c].pc = "check" /\ UNCHANGED <<known, gate>>
    BY <1>0, <1>1 DEF Checks
  <2> QED
    BY <2>1, <2>2
<1>2. CASE OnLink(c)
  <2>1. CASE Opens(c)
    <3> DEFINE r == [call[c] EXCEPT !.pc = "done", !.ok = TRUE]
    <3>1. r \in Call /\ r.to = call[c].to /\ r.pc = "done"
      BY <1>0 DEF Call
    <3>2. call' = [call EXCEPT ![c] = r] /\ call[c].pc = "linked" /\ UNCHANGED <<known, gate>>
      BY <1>0, <1>2, <2>1 DEF OnLink
    <3> QED
      BY <3>1, <3>2
  <2>2. CASE ~Opens(c)
    <3> DEFINE r == [call[c] EXCEPT !.pc = "direct"]
    <3>1. r \in Call /\ r.to = call[c].to /\ r.pc = "direct"
      BY <1>0 DEF Call
    <3>2. call' = [call EXCEPT ![c] = r] /\ call[c].pc = "linked" /\ UNCHANGED <<known, gate>>
      BY <1>0, <1>2, <2>2 DEF OnLink
    <3> QED
      BY <3>1, <3>2
  <2> QED
    BY <2>1, <2>2
<1>3. CASE Direct(c)
  <2> DEFINE r == [call[c] EXCEPT !.pc = "done", !.ok = TRUE]
  <2>1. r \in Call /\ r.to = call[c].to /\ r.pc = "done"
    BY <1>0 DEF Call
  <2>2. call' = [call EXCEPT ![c] = r] /\ call[c].pc = "direct" /\ UNCHANGED <<known, gate>>
    BY <1>0, <1>3 DEF Direct
  <2> QED
    BY <2>1, <2>2
<1>4. CASE FallsBack(c)
  <2>1. PICK left \in IF call[c].left < 0 THEN {-1} ELSE {TotalTime - DirectTime, TotalTime} :
          call' = [call EXCEPT ![c].pc = "relay", ![c].left = left, ![c].rest = List]
    BY <1>4 DEF FallsBack, List
  <2> DEFINE r == [call[c] EXCEPT !.pc = "relay", !.left = left, !.rest = List]
  <2>2. left \in Int /\ List \in Seq(Nat)
    BY <2>1, ListIs, TunnelAssumption DEF CallType
  <2>3. r \in Call /\ r.to = call[c].to /\ r.pc = "relay"
    BY <1>0, <2>2 DEF Call
  <2>4. call' = [call EXCEPT ![c] = r] /\ call[c].pc = "direct" /\ UNCHANGED <<known, gate>>
    BY <1>0, <1>4, <2>1 DEF FallsBack
  <2> QED
    BY <2>3, <2>4
<1>5. CASE Skips(c)
  <2> DEFINE r == [call[c] EXCEPT !.rest = Tail(call[c].rest)]
  <2>1. Tail(call[c].rest) \in Seq(Nat) /\ call[c].pc = "relay"
    BY <1>0, <1>5 DEF Skips, Call
  <2>2. r \in Call /\ r.to = call[c].to /\ r.pc = "relay"
    BY <1>0, <2>1 DEF Call
  <2>3. call' = [call EXCEPT ![c] = r] /\ UNCHANGED <<known, gate>>
    BY <1>0, <1>5 DEF Skips
  <2> QED
    BY <2>1, <2>2, <2>3
<1>6. CASE ConnectsVia(c)
  <2> DEFINE r == [call[c] EXCEPT !.pc = "open", !.seen = @ \union {Head(call[c].rest)}]
  <2>1. Head(call[c].rest) \in Nat /\ call[c].rest # <<>> /\ call[c].pc = "relay"
    BY <1>0, <1>6 DEF ConnectsVia, Tries, Call
  <2>2. r \in Call /\ r.to = call[c].to /\ r.pc = "open" /\ r.rest = call[c].rest
    BY <1>0, <2>1 DEF Call
  <2>3. call' = [call EXCEPT ![c] = r] /\ UNCHANGED <<known, gate>>
    BY <1>0, <1>6 DEF ConnectsVia
  <2> QED
    BY <2>1, <2>2, <2>3
<1>7. CASE FailsVia(c)
  <2>1. PICK used \in {0, Budget(c)} :
          call' = [call EXCEPT ![c].left = @ - used, ![c].rest = Tail(@),
                               ![c].seen = @ \union {Head(call[c].rest)}]
    BY <1>7 DEF FailsVia
  <2> DEFINE r == [call[c] EXCEPT !.left = @ - used, !.rest = Tail(@),
                                  !.seen = @ \union {Head(call[c].rest)}]
  <2>2. /\ Head(call[c].rest) \in Nat /\ Tail(call[c].rest) \in Seq(Nat)
        /\ call[c].rest # <<>> /\ call[c].left > 0 /\ call[c].left \in Int /\ call[c].pc = "relay"
    BY <1>0, <1>7 DEF FailsVia, Tries, Call
  <2>3. call[c].left - used \in Int
    BY <2>2, BudgetIs
  <2>4. r \in Call /\ r.to = call[c].to /\ r.pc = "relay"
    BY <1>0, <2>2, <2>3 DEF Call
  <2>5. call' = [call EXCEPT ![c] = r] /\ UNCHANGED <<known, gate>>
    BY <1>0, <1>7, <2>1 DEF FailsVia
  <2> QED
    BY <2>2, <2>4, <2>5
<1>8. CASE OpensVia(c)
  <2>1. call[c].rest # <<>> /\ Tail(call[c].rest) \in Seq(Nat) /\ call[c].pc = "open"
    BY <1>0, <1>8 DEF OpensVia, CallType, Call
  <2>2. CASE Opens(c)
    <3> DEFINE r == [call[c] EXCEPT !.pc = "done", !.ok = TRUE]
    <3>1. r \in Call /\ r.to = call[c].to /\ r.pc = "done"
      BY <1>0 DEF Call
    <3>2. call' = [call EXCEPT ![c] = r] /\ UNCHANGED <<known, gate>>
      BY <1>0, <1>8, <2>2 DEF OpensVia
    <3> QED
      BY <2>1, <3>1, <3>2
  <2>3. CASE ~Opens(c)
    <3> DEFINE r == [call[c] EXCEPT !.pc = "relay", !.rest = Tail(@)]
    <3>1. r \in Call /\ r.to = call[c].to /\ r.pc = "relay"
      BY <1>0, <2>1 DEF Call
    <3>2. call' = [call EXCEPT ![c] = r] /\ UNCHANGED <<known, gate>>
      BY <1>0, <1>8, <2>3 DEF OpensVia
    <3> QED
      BY <2>1, <3>1, <3>2
  <2> QED
    BY <2>2, <2>3
<1>9. CASE Exhausted(c)
  <2> DEFINE r == [call[c] EXCEPT !.pc = "done"]
  <2>1. r \in Call /\ r.to = call[c].to /\ r.pc = "done"
    BY <1>0 DEF Call
  <2>2. call' = [call EXCEPT ![c] = r] /\ call[c].pc = "relay" /\ UNCHANGED <<known, gate>>
    BY <1>0, <1>9 DEF Exhausted
  <2> QED
    BY <2>1, <2>2
<1>10. CASE Cancels(c)
  <2> DEFINE r == [call[c] EXCEPT !.left = -1]
  <2>0. -1 \in Int
    OBVIOUS
  <2>1. r \in Call /\ r.to = call[c].to /\ r.pc = call[c].pc /\ r.rest = call[c].rest
    BY <1>0, <2>0 DEF Call
  <2>2. /\ call' = [call EXCEPT ![c] = r] /\ UNCHANGED <<known, gate>>
        /\ call[c].pc \in Dials6
    BY <1>0, <1>10 DEF Cancels, Dialling
  <2>3. r.pc = "open" => r.rest # <<>>
    BY <2>1 DEF CallType
  <2> QED
    BY <2>1, <2>2, <2>3
<1> QED
  BY <1>1, <1>2, <1>3, <1>4, <1>5, <1>6, <1>7, <1>8, <1>9, <1>10

\* A call that waits does so without regard to its dial.
WaitMoves(c, r) ==
  /\ UNCHANGED <<known, dials>>
  /\ call' = [call EXCEPT ![c] = r]
  /\ r \in Call /\ call[c].pc \in Waits4
  /\ r.pc \in Waits4 /\ r.to = call[c].to

LEMMA WaitStep ==
  ASSUME CallType, NEW c \in Callers, GivesUp(c) \/ Wakes(c) \/ Claims(c) \/ Reuses(c)
  PROVE  \E r \in Call :
           /\ WaitMoves(c, r)
           /\ waiters' = waiters
           /\ \/ call[c].pc # "reuse" /\ r.pc # "reuse" /\ active' = active
              \/ call[c].pc # "reuse" /\ r.pc = "reuse" /\ active' = active + 1
              \/ call[c].pc = "reuse" /\ r.pc # "reuse" /\ active' = active - 1
<1> USE DEF WaitMoves, links, gate, Waits4
<1>0. call \in [Callers -> Call] /\ call[c] \in Call
  BY DEF CallType
<1> DEFINE at(pc) == [call[c] EXCEPT !.pc = pc]
<1>1. \A pc \in Waits4 : at(pc) \in Call /\ at(pc).pc = pc /\ at(pc).to = call[c].to
  BY <1>0 DEF Call
<1>2. CASE GivesUp(c)
  <2>1. call' = [call EXCEPT ![c] = at("leave")] /\ call[c].pc = "wait"
        /\ UNCHANGED <<known, gate>>
    BY <1>0, <1>2 DEF GivesUp
  <2> QED
    BY <1>1, <2>1
<1>3. CASE Wakes(c)
  <2>1. PICK pc \in {"claim", "leave"} :
          call' = [call EXCEPT ![c] = at(pc)] /\ call[c].pc = "wait" /\ UNCHANGED <<known, gate>>
    BY <1>0, <1>3 DEF Wakes
  <2> QED
    BY <1>1, <2>1
<1>4. CASE Claims(c)
  <2>1. CASE active < MaxDials
    <3>1. /\ call' = [call EXCEPT ![c] = at("reuse")] /\ call[c].pc = "claim"
          /\ active' = active + 1 /\ UNCHANGED <<known, dials, waiters>>
      BY <1>0, <1>4, <2>1 DEF Claims
    <3> QED
      BY <1>1, <3>1
  <2>2. CASE ~(active < MaxDials)
    <3>1. /\ call' = [call EXCEPT ![c] = at("leave")] /\ call[c].pc = "claim"
          /\ UNCHANGED <<known, gate>>
      BY <1>0, <1>4, <2>2 DEF Claims
    <3> QED
      BY <1>1, <3>1
  <2> QED
    BY <2>1, <2>2
<1>5. CASE Reuses(c)
  <2>1. /\ call' = [call EXCEPT ![c] = at("leave")] /\ call[c].pc = "reuse"
        /\ active' = active - 1 /\ UNCHANGED <<known, dials, waiters>>
    BY <1>0, <1>5 DEF Reuses
  <2> QED
    BY <1>1, <2>1
<1> QED
  BY <1>2, <1>3, <1>4, <1>5

LEMMA IdleIs == Idle \in Call
<1>1. <<>> \in Seq(Nat) /\ {} \in SUBSET Nat /\ 0 \in Int
  OBVIOUS
<1> QED
  BY <1>1 DEF Idle, Call

LEMMA JoinIs ==
  ASSUME CallType, NEW c \in Callers, NEW t \in Targets, NEW p \in Protos, Joins(c, t, p)
  PROVE  \E r \in Call : r.pc = "wait" /\ r.to = t /\ r.ok = FALSE /\ call' = [call EXCEPT ![c] = r]
<1> DEFINE r == [Idle EXCEPT !.pc = "wait", !.to = t, !.proto = p, !.flight = "open"]
<1>1. r \in Call /\ r.pc = "wait" /\ r.to = t
  BY IdleIs DEF Call, Waits4
<1>2. r.ok = FALSE
  BY DEF Idle
<1> QED
  BY <1>1, <1>2 DEF Joins

LEMMA LeadIs ==
  ASSUME CallType, NEW c \in Callers, NEW t \in Targets, NEW p \in Protos, Leads(c, t, p)
  PROVE  \E r \in Call : /\ r.pc = "check" /\ r.to = t /\ r.seen = {} /\ r.ok = FALSE
                        /\ call' = [call EXCEPT ![c] = r]
<1> DEFINE r == [Idle EXCEPT !.pc = "check", !.to = t, !.proto = p, !.left = TotalTime]
<1>1. TotalTime \in Int
  BY TunnelAssumption
<1>2. r \in Call /\ r.pc = "check" /\ r.to = t
  BY <1>1, IdleIs DEF Call, Dials6
<1>3. r.seen = {}
  BY DEF Idle
<1>4. r.ok = FALSE
  BY DEF Idle
<1> QED
  BY <1>2, <1>3, <1>4 DEF Leads

LEMMA FinishIs ==
  ASSUME CallType, NEW c \in Callers, Finish(c)
  PROVE  /\ call' \in [Callers -> Call] /\ call'[c] = Idle
         /\ \A d \in Callers \ {c} : call'[d].pc = call[d].pc /\ call'[d].to = call[d].to
                                     /\ call'[d].left = call[d].left /\ call'[d].ok = call[d].ok
                                     /\ call'[d].seen = call[d].seen /\ call'[d].rest = call[d].rest
<1> DEFINE then(d) == CASE d = c -> Idle
                        [] d # c /\ call[d].to = call[c].to /\ call[d].flight = "open" ->
                             [call[d] EXCEPT !.flight = "over"]
                        [] OTHER -> call[d]
<1>1. call' = [d \in Callers |-> then(d)]
  BY DEF Finish
<1>2. then(c) = Idle
  OBVIOUS
<1>3. ASSUME NEW d \in Callers \ {c}
      PROVE  /\ then(d) \in Call /\ then(d).pc = call[d].pc /\ then(d).to = call[d].to
             /\ then(d).left = call[d].left /\ then(d).ok = call[d].ok
             /\ then(d).seen = call[d].seen /\ then(d).rest = call[d].rest
  <2>1. call[d] \in Call
    BY DEF CallType
  <2> DEFINE over == [call[d] EXCEPT !.flight = "over"]
  <2>2. /\ over \in Call /\ over.pc = call[d].pc /\ over.to = call[d].to
        /\ over.left = call[d].left
        /\ over.seen = call[d].seen /\ over.rest = call[d].rest
    BY <2>1 DEF Call
  <2>3. over.ok = call[d].ok
    BY <2>1 DEF Call
  <2>4. then(d) = over \/ then(d) = call[d]
    OBVIOUS
  <2> HIDE DEF then, over
  <2> QED
    BY <2>1, <2>2, <2>3, <2>4
<1> HIDE DEF then
<1>4. ASSUME NEW d \in Callers PROVE then(d) \in Call
  BY <1>2, <1>3, IdleIs
<1> QED
  BY <1>1, <1>2, <1>3, <1>4

-----------------------------------------------------------------------------
(* The gate *)

\* Who is counted as active, who as waiting, and who dials a target.
Inside     == {c \in Callers : Dialling(c) \/ call[c].pc = "reuse"}
Outside    == {c \in Callers : Waiting(c)}
Leading(t) == {c \in Callers : Dialling(c) /\ call[c].to = t}

Gate ==
  /\ dials \in [Targets -> Callers \union {None}]
  /\ active = Cardinality(Inside) /\ waiters = Cardinality(Outside)
  /\ \A t \in Targets : Leading(t) = {dials[t]} \ {None}

LEMMA Counts ==
  ASSUME NEW S \in SUBSET Callers, NEW T \in SUBSET Callers, NEW c \in Callers,
         \A d \in Callers \ {c} : d \in S <=> d \in T
  PROVE  /\ Cardinality(S) \in Nat
         /\ (c \in S <=> c \in T) => T = S
         /\ c \notin S /\ c \in T => Cardinality(T) = Cardinality(S) + 1
         /\ c \in S /\ c \notin T => Cardinality(T) = Cardinality(S) - 1
<1>1. IsFiniteSet(S)
  BY FS_Subset, TunnelAssumption
<1>2. Cardinality(S) \in Nat
  BY <1>1, FS_CardinalityType
<1>3. (c \in S <=> c \in T) => T = S
  OBVIOUS
<1>4. ASSUME c \notin S, c \in T PROVE Cardinality(T) = Cardinality(S) + 1
  <2>1. T = S \union {c}
    BY <1>4
  <2> QED
    BY <1>1, <1>4, <2>1, FS_AddElement
<1>5. ASSUME c \in S, c \notin T PROVE Cardinality(T) = Cardinality(S) - 1
  <2>1. T = S \ {c}
    BY <1>5
  <2> QED
    BY <1>1, <1>5, <2>1, FS_RemoveElement
<1> QED
  BY <1>2, <1>3, <1>4, <1>5

\* One call changes its place; the others keep theirs.
LEMMA OneMoves ==
  ASSUME NEW c \in Callers, \A d \in Callers \ {c} : call'[d].pc = call[d].pc /\ call'[d].to = call[d].to
  PROVE  /\ \A d \in Callers \ {c} : /\ d \in Inside <=> d \in Inside'
                                     /\ d \in Outside <=> d \in Outside'
                                     /\ \A t \in Targets : d \in Leading(t) <=> d \in Leading(t)'
         /\ Inside \in SUBSET Callers /\ Inside' \in SUBSET Callers
         /\ Outside \in SUBSET Callers /\ Outside' \in SUBSET Callers
         /\ \A t \in Targets : Leading(t) \in SUBSET Callers /\ Leading(t)' \in SUBSET Callers
         /\ (c \in Inside <=> c \in Inside') => Inside' = Inside
         /\ (c \in Outside <=> c \in Outside') => Outside' = Outside
         /\ \A t \in Targets : (c \in Leading(t) <=> c \in Leading(t)') => Leading(t)' = Leading(t)
<1>1. \A d \in Callers \ {c} : /\ d \in Inside <=> d \in Inside'
                               /\ d \in Outside <=> d \in Outside'
                               /\ \A t \in Targets : d \in Leading(t) <=> d \in Leading(t)'
  BY DEF Inside, Outside, Leading, Dialling, Waiting
<1>2. /\ Inside \in SUBSET Callers /\ Inside' \in SUBSET Callers
      /\ Outside \in SUBSET Callers /\ Outside' \in SUBSET Callers
      /\ \A t \in Targets : Leading(t) \in SUBSET Callers /\ Leading(t)' \in SUBSET Callers
  BY DEF Inside, Outside, Leading
<1>3. (c \in Inside <=> c \in Inside') => Inside' = Inside
  BY <1>1, <1>2
<1>4. (c \in Outside <=> c \in Outside') => Outside' = Outside
  BY <1>1, <1>2, Counts
<1>5. ASSUME NEW t \in Targets, c \in Leading(t) <=> c \in Leading(t)'
      PROVE  Leading(t)' = Leading(t)
  <2>1. /\ Leading(t) \in SUBSET Callers /\ Leading(t)' \in SUBSET Callers
        /\ \A d \in Callers \ {c} : d \in Leading(t) <=> d \in Leading(t)'
    BY <1>1, <1>2
  <2>2. \A d : d \in Leading(t)' <=> d \in Leading(t)
    BY <1>5, <2>1
  <2> HIDE DEF Leading
  <2> QED
    BY <2>2
<1> QED
  BY <1>1, <1>2, <1>3, <1>4, <1>5

LEMMA PlaceIs ==
  ASSUME NEW c \in Callers
  PROVE  /\ c \in Inside <=> call[c].pc \in Dials6 \union {"reuse"}
         /\ c \in Outside <=> call[c].pc \in Waits4
         /\ \A t \in Targets : c \in Leading(t) <=> call[c].pc \in Dials6 /\ call[c].to = t
         /\ c \in Inside' <=> call'[c].pc \in Dials6 \union {"reuse"}
         /\ c \in Outside' <=> call'[c].pc \in Waits4
         /\ \A t \in Targets : c \in Leading(t)' <=> call'[c].pc \in Dials6 /\ call'[c].to = t
BY DEF Inside, Outside, Leading, Dialling, Waiting, Dials6, Waits4

LEMMA DialGate ==
  ASSUME CallType, Gate, NEW c \in Callers, NEW r \in Call, DialMoves(c, r)
  PROVE  CallType' /\ Gate'
<1>1. /\ call' \in [Callers -> Call] /\ call'[c] = r /\ UNCHANGED <<known, gate>>
      /\ \A d \in Callers \ {c} : call'[d] = call[d]
  BY DEF DialMoves, CallType
<1>2. CallType'
  BY <1>1 DEF CallType, DialMoves, Dials6
<1>3. /\ r.pc \in Dials6 /\ r.pc \notin Waits4 /\ r.to = call[c].to
      /\ call[c].pc \in Dials6 /\ call[c].pc \notin Waits4
  BY DEF DialMoves, Dials6, Waits4
<1>4. Inside' = Inside /\ Outside' = Outside /\ \A t \in Targets : Leading(t)' = Leading(t)
  BY <1>1, <1>3, OneMoves, PlaceIs
<1>5. Gate'
  BY <1>1, <1>4 DEF Gate, gate
<1> QED
  BY <1>2, <1>5

LEMMA WaitGate ==
  ASSUME CallType, Gate, NEW c \in Callers, GivesUp(c) \/ Wakes(c) \/ Claims(c) \/ Reuses(c)
  PROVE  CallType' /\ Gate'
<1>0. PICK r \in Call :
           /\ WaitMoves(c, r) /\ waiters' = waiters
           /\ \/ call[c].pc # "reuse" /\ r.pc # "reuse" /\ active' = active
              \/ call[c].pc # "reuse" /\ r.pc = "reuse" /\ active' = active + 1
              \/ call[c].pc = "reuse" /\ r.pc # "reuse" /\ active' = active - 1
  BY WaitStep
<1>1. /\ call' \in [Callers -> Call] /\ call'[c] = r /\ UNCHANGED <<known, dials>>
      /\ \A d \in Callers \ {c} : call'[d] = call[d]
  BY <1>0 DEF WaitMoves, CallType
<1>2. /\ r.pc \in Waits4 /\ r.pc \notin Dials6 /\ r.to = call[c].to
      /\ call[c].pc \in Waits4 /\ call[c].pc \notin Dials6
  BY <1>0 DEF WaitMoves, Waits4, Dials6
<1>3. CallType'
  BY <1>1, <1>2 DEF CallType, Waits4
<1>4. Outside' = Outside /\ \A t \in Targets : Leading(t)' = Leading(t)
  BY <1>1, <1>2, OneMoves, PlaceIs
<1>5. active' = Cardinality(Inside')
  <2>1. /\ Inside \in SUBSET Callers /\ Inside' \in SUBSET Callers
        /\ \A d \in Callers \ {c} : d \in Inside <=> d \in Inside'
    BY <1>1, OneMoves
  <2>2. /\ c \in Inside <=> call[c].pc = "reuse"
        /\ c \in Inside' <=> r.pc = "reuse"
    BY <1>1, <1>2, PlaceIs
  <2> QED
    BY <1>0, <2>1, <2>2, Counts DEF Gate
<1>6. Gate'
  BY <1>0, <1>1, <1>4, <1>5 DEF Gate
<1> QED
  BY <1>3, <1>6

LEMMA LeaveGate ==
  ASSUME CallType, Gate, NEW c \in Callers, Leaves(c)
  PROVE  CallType' /\ Gate'
<1>1. /\ call' \in [Callers -> Call] /\ call'[c] = Idle /\ UNCHANGED <<known, dials, active>>
      /\ \A d \in Callers \ {c} : call'[d] = call[d]
      /\ waiters' = waiters - 1 /\ call[c].pc = "leave"
  BY IdleIs DEF Leaves, CallType, links
<1>2. call'[c].pc = "idle"
  BY <1>1 DEF Idle
<1>3. CallType'
  BY <1>1, <1>2 DEF CallType
<1>4. Inside' = Inside /\ \A t \in Targets : Leading(t)' = Leading(t)
  BY <1>1, <1>2, OneMoves, PlaceIs DEF Dials6
<1>5. waiters' = Cardinality(Outside')
  <2>1. /\ Outside \in SUBSET Callers /\ Outside' \in SUBSET Callers
        /\ \A d \in Callers \ {c} : d \in Outside <=> d \in Outside'
    BY <1>1, OneMoves
  <2>2. c \in Outside /\ c \notin Outside'
    BY <1>1, <1>2, PlaceIs DEF Waits4
  <2> QED
    BY <1>1, <2>1, <2>2, Counts DEF Gate
<1>6. Gate'
  BY <1>1, <1>4, <1>5 DEF Gate
<1> QED
  BY <1>3, <1>6

LEMMA JoinGate ==
  ASSUME CallType, Gate, NEW c \in Callers, NEW t \in Targets, NEW p \in Protos, Joins(c, t, p)
  PROVE  CallType' /\ Gate'
<1>0. PICK r \in Call : r.pc = "wait" /\ r.to = t /\ r.ok = FALSE /\ call' = [call EXCEPT ![c] = r]
  BY JoinIs
<1>1. /\ call' \in [Callers -> Call] /\ call'[c].pc = "wait" /\ call'[c].to = t
      /\ \A d \in Callers \ {c} : call'[d] = call[d]
      /\ UNCHANGED <<known, dials, active>> /\ waiters' = waiters + 1 /\ call[c].pc = "idle"
  BY <1>0 DEF CallType, Joins, links
<1>3. CallType'
  BY <1>1 DEF CallType
<1>4. Inside' = Inside /\ \A u \in Targets : Leading(u)' = Leading(u)
  <2>1. call[c].pc \notin Dials6 \union {"reuse"} /\ call'[c].pc \notin Dials6 \union {"reuse"}
    BY <1>1 DEF Dials6
  <2> QED
    BY <1>1, <2>1, OneMoves, PlaceIs
<1>5. waiters' = Cardinality(Outside')
  <2>1. /\ Outside \in SUBSET Callers /\ Outside' \in SUBSET Callers
        /\ \A d \in Callers \ {c} : d \in Outside <=> d \in Outside'
    BY <1>1, OneMoves
  <2>2. c \notin Outside /\ c \in Outside'
    BY <1>1, PlaceIs DEF Waits4
  <2> QED
    BY <1>1, <2>1, <2>2, Counts DEF Gate
<1>6. Gate'
  BY <1>1, <1>4, <1>5 DEF Gate
<1> QED
  BY <1>3, <1>6

LEMMA LeadGate ==
  ASSUME CallType, Gate, NEW c \in Callers, NEW t \in Targets, NEW p \in Protos, Leads(c, t, p)
  PROVE  CallType' /\ Gate'
<1>0. PICK r \in Call : /\ r.pc = "check" /\ r.to = t /\ r.seen = {} /\ r.ok = FALSE
                          /\ call' = [call EXCEPT ![c] = r]
  BY LeadIs
<1>1. /\ call' \in [Callers -> Call] /\ call'[c].pc = "check" /\ call'[c].to = t
      /\ \A d \in Callers \ {c} : call'[d] = call[d]
      /\ UNCHANGED <<known, waiters>> /\ active' = active + 1 /\ call[c].pc = "idle"
      /\ dials[t] = None /\ dials' = [dials EXCEPT ![t] = c]
  BY <1>0 DEF CallType, Leads, links
<1>3. CallType'
  BY <1>1 DEF CallType
<1>4. Outside' = Outside
  <2>1. call[c].pc \notin Waits4 /\ call'[c].pc \notin Waits4
    BY <1>1 DEF Waits4
  <2> QED
    BY <1>1, <2>1, OneMoves, PlaceIs
<1>5. ASSUME NEW u \in Targets PROVE Leading(u)' = {dials'[u]} \ {None}
  <2>1. c \notin Leading(u) /\ (c \in Leading(u)' <=> u = t)
    BY <1>1, PlaceIs DEF Dials6
  <2>2. CASE u # t
    <3>1. Leading(u)' = Leading(u)
      BY <1>1, <2>1, <2>2, OneMoves
    <3> QED
      BY <1>1, <2>2, <3>1 DEF Gate
  <2>3. CASE u = t
    <3>1. Leading(t) = {}
      BY <1>1 DEF Gate
    <3>2. \A d \in Callers \ {c} : d \in Leading(t) <=> d \in Leading(t)'
      BY <1>1, OneMoves
    <3>3. Leading(t)' \in SUBSET Callers /\ c \in Leading(t)'
      BY <1>1, <2>1, <2>3, OneMoves
    <3>4. Leading(t)' = {c}
      BY <3>1, <3>2, <3>3
    <3>5. dials'[t] = c /\ c # None
      BY <1>1, TunnelAssumption DEF Gate
    <3> QED
      BY <2>3, <3>4, <3>5
  <2> QED
    BY <2>2, <2>3
<1>6. active' = Cardinality(Inside')
  <2>1. /\ Inside \in SUBSET Callers /\ Inside' \in SUBSET Callers
        /\ \A d \in Callers \ {c} : d \in Inside <=> d \in Inside'
    BY <1>1, OneMoves
  <2>2. c \notin Inside /\ c \in Inside'
    BY <1>1, PlaceIs DEF Dials6
  <2> QED
    BY <1>1, <2>1, <2>2, Counts DEF Gate
<1>7. dials' \in [Targets -> Callers \union {None}]
  BY <1>1 DEF Gate
<1>8. Gate'
  BY <1>1, <1>4, <1>5, <1>6, <1>7 DEF Gate
<1> QED
  BY <1>3, <1>8

LEMMA FinishGate ==
  ASSUME CallType, Gate, NEW c \in Callers, Finish(c)
  PROVE  CallType' /\ Gate'
<1> DEFINE t == call[c].to
<1>1. /\ call' \in [Callers -> Call] /\ call'[c].pc = "idle"
      /\ \A d \in Callers \ {c} : call'[d].pc = call[d].pc /\ call'[d].to = call[d].to
                                  /\ call'[d].rest = call[d].rest
      /\ UNCHANGED <<known, waiters>> /\ active' = active - 1 /\ call[c].pc = "done"
      /\ dials' = [dials EXCEPT ![t] = None]
  <2>1. /\ call' \in [Callers -> Call] /\ call'[c] = Idle
        /\ \A d \in Callers \ {c} : call'[d].pc = call[d].pc /\ call'[d].to = call[d].to
                                    /\ call'[d].rest = call[d].rest
    BY FinishIs
  <2>2. call'[c].pc = "idle"
    BY <2>1 DEF Idle
  <2> QED
    BY <2>1, <2>2 DEF Finish, links
<1>2. t \in Targets
  BY <1>1 DEF CallType
<1>3. CallType'
  BY <1>1 DEF CallType
<1>4. Outside' = Outside
  <2>1. call[c].pc \notin Waits4 /\ call'[c].pc \notin Waits4
    BY <1>1 DEF Waits4
  <2> QED
    BY <1>1, <2>1, OneMoves, PlaceIs
<1>5. ASSUME NEW u \in Targets PROVE Leading(u)' = {dials'[u]} \ {None}
  <2>1. c \notin Leading(u)' /\ (c \in Leading(u) <=> u = t)
    BY <1>1, PlaceIs DEF Dials6
  <2>2. CASE u # t
    <3>1. Leading(u)' = Leading(u)
      BY <1>1, <2>1, <2>2, OneMoves
    <3> QED
      BY <1>1, <2>2, <3>1 DEF Gate
  <2>3. CASE u = t
    <3>1. Leading(u) = {c}
      <4>1. Leading(u) = {dials[u]} \ {None}
        BY DEF Gate
      <4> QED
        BY <2>1, <2>3, <4>1
    <3>2. \A d \in Callers \ {c} : d \in Leading(u) <=> d \in Leading(u)'
      BY <1>1, OneMoves
    <3>3. Leading(u)' \in SUBSET Callers
      BY <1>1, OneMoves
    <3>4. Leading(u)' = {}
      BY <2>1, <3>1, <3>2, <3>3
    <3>5. dials'[u] = None
      BY <1>1, <1>2, <2>3 DEF Gate
    <3> QED
      BY <3>4, <3>5
  <2> QED
    BY <2>2, <2>3
<1>6. active' = Cardinality(Inside')
  <2>1. /\ Inside \in SUBSET Callers /\ Inside' \in SUBSET Callers
        /\ \A d \in Callers \ {c} : d \in Inside <=> d \in Inside'
    BY <1>1, OneMoves
  <2>2. c \in Inside /\ c \notin Inside'
    BY <1>1, PlaceIs DEF Dials6
  <2> QED
    BY <1>1, <2>1, <2>2, Counts DEF Gate
<1>7. dials' \in [Targets -> Callers \union {None}]
  BY <1>1 DEF Gate
<1>8. Gate'
  BY <1>1, <1>4, <1>5, <1>6, <1>7 DEF Gate
<1> QED
  BY <1>3, <1>8

LEMMA GateStep == CallType /\ Gate /\ [Next]_vars => CallType' /\ Gate'
<1> SUFFICES ASSUME CallType, Gate, [Next]_vars PROVE CallType' /\ Gate'
  OBVIOUS
<1>1. ASSUME UNCHANGED <<known, call, gate>> PROVE CallType' /\ Gate'
  <2>1. Inside' = Inside /\ Outside' = Outside /\ \A t \in Targets : Leading(t)' = Leading(t)
    BY <1>1 DEF Inside, Outside, Leading, Dialling, Waiting
  <2> QED
    BY <1>1, <2>1 DEF CallType, Gate, gate
<1>2. CASE UNCHANGED vars
  BY <1>1, <1>2 DEF vars, gate
<1>3. ASSUME NEW t \in Targets, StartsRound(t) \/ Reserves(t) \/ Inbound(t) \/ Breaks(t)
      PROVE  CallType' /\ Gate'
  BY <1>1, <1>3 DEF StartsRound, Reserves, Inbound, Breaks, links
<1>4. ASSUME NEW t \in Targets, NEW r \in Relays, Forgets(t, r) PROVE CallType' /\ Gate'
  BY <1>1, <1>4 DEF Forgets
<1>5. ASSUME NEW c \in Callers, Dials(c) \/ Cancels(c) PROVE CallType' /\ Gate'
  BY <1>5, DialStep, DialGate, FinishGate DEF Dials
<1>6. ASSUME NEW c \in Callers, Waits(c) PROVE CallType' /\ Gate'
  BY <1>6, WaitGate, LeaveGate DEF Waits
<1>7. ASSUME NEW c \in Callers, NEW t \in Targets, NEW p \in Protos, Joins(c, t, p) \/ Leads(c, t, p)
      PROVE  CallType' /\ Gate'
  BY <1>7, JoinGate, LeadGate
<1> QED
  BY <1>2, <1>3, <1>4, <1>5, <1>6, <1>7 DEF Next

LEMMA GateBegin == Init => CallType /\ Gate
<1> SUFFICES ASSUME Init PROVE CallType /\ Gate
  OBVIOUS
<1>1. \A c \in Callers : call[c] = Idle /\ call[c].pc = "idle"
  BY DEF Init, Idle
<1>2. CallType
  BY <1>1, IdleIs DEF Init, CallType
<1>3. Inside = {} /\ Outside = {} /\ \A t \in Targets : Leading(t) = {}
  BY <1>1 DEF Inside, Outside, Leading, Dialling, Waiting
<1> QED
  BY <1>2, <1>3, FS_EmptySet DEF Init, Gate

\* The gate of the service is exact in every state, whatever the limits, the callers and
\* the targets are.
THEOREM GateIsExact == Spec => []GateExact
<1>1. CallType /\ Gate => GateExact
  BY DEF Gate, GateExact, Inside, Outside, Leading
<1> QED
  BY <1>1, GateBegin, GateStep, PTL DEF Spec

-----------------------------------------------------------------------------
(* The relays of a call *)

\* Where a call is, every relay it has not tried is still before it, with a share of the
\* time for each.
Tried(k, relays) ==
  /\ k.ok => k.pc = "done"
  /\ k.pc \in {"check", "linked", "direct"} => k.seen = {}
  /\ k.pc = "open" => Head(k.rest) \in k.seen
  /\ k.pc \in {"relay", "open"} /\ k.left >= 0 =>
       /\ ToSet(k.rest) \subseteq relays /\ k.seen \subseteq relays \ {k.to}
       /\ relays \ {k.to} \subseteq k.seen \union ToSet(k.rest)
       /\ Len(k.rest) <= k.left
  /\ k.pc = "done" /\ ~k.ok /\ k.left >= 0 => k.seen = relays \ {k.to}

TriedAll == \A c \in Callers : Tried(call[c], ToSet(List))

LEMMA HeadAndTail ==
  ASSUME NEW s \in Seq(Nat), s # <<>>
  PROVE  /\ ToSet(s) = {Head(s)} \union ToSet(Tail(s))
         /\ Len(s) \in Nat \ {0} /\ Len(Tail(s)) = Len(s) - 1
<1>1. Tail(s) \in Seq(Nat) /\ Len(s) \in Nat \ {0} /\ Len(Tail(s)) = Len(s) - 1
  OBVIOUS
<1>2. ASSUME NEW i \in 1 .. Len(s), i # 1
      PROVE  i - 1 \in 1 .. Len(Tail(s)) /\ Tail(s)[i - 1] = s[i]
  <2>1. i - 1 \in 1 .. Len(Tail(s))
    BY <1>1, <1>2
  <2>2. Tail(s)[i - 1] = s[i - 1 + 1]
    BY <2>1
  <2> QED
    BY <2>1, <2>2
<1>3. \A i \in 1 .. Len(Tail(s)) : i + 1 \in 1 .. Len(s) /\ Tail(s)[i] = s[i + 1]
  BY <1>1
<1>4. ToSet(s) \subseteq {Head(s)} \union ToSet(Tail(s))
  <2>1. ASSUME NEW i \in 1 .. Len(s) PROVE s[i] \in {Head(s)} \union ToSet(Tail(s))
    <3>1. CASE i = 1
      BY <3>1
    <3>2. CASE i # 1
      <4>1. i - 1 \in DOMAIN Tail(s) /\ Tail(s)[i - 1] = s[i]
        BY <1>1, <1>2, <3>2
      <4>2. Tail(s)[i - 1] \in ToSet(Tail(s))
        BY <4>1 DEF ToSet
      <4> QED
        BY <4>1, <4>2
    <3> QED
      BY <3>1, <3>2
  <2> QED
    BY <1>1, <2>1 DEF ToSet
<1>5. ToSet(Tail(s)) \subseteq ToSet(s)
  BY <1>1, <1>3 DEF ToSet
<1>6. Head(s) \in ToSet(s)
  BY <1>1 DEF ToSet
<1> QED
  BY <1>1, <1>4, <1>5, <1>6

\* A fair share of the time leaves the others a share.
LEMMA ShareLeaves ==
  ASSUME NEW l \in Nat, NEW n \in Nat \ {0}, n <= l, NEW b \in Nat, b <= l \div n
  PROVE  n - 1 <= l - b
<1> DEFINE q == l \div n
<1>1. q \in Nat /\ q * n <= l
  OBVIOUS
<1>2. q = 0 \/ n = 1 \/ (q >= 1 /\ n >= 2)
  BY <1>1
<1> HIDE DEF q
<1>3. CASE q >= 1 /\ n >= 2
  <2>1. (q - 1) * (n - 1) >= 0
    BY <1>1, <1>3
  <2>2. (q - 1) * (n - 1) = q * n - q - n + 1
    BY <1>1, <1>3
  <2>3. q * n \in Nat
    BY <1>1
  <2> QED
    BY <1>1, <2>1, <2>2, <2>3 DEF q
<1>4. CASE n = 1
  <2>1. q <= l
    BY <1>1, <1>4
  <2> QED
    BY <1>1, <1>4, <2>1 DEF q
<1>5. CASE q = 0
  BY <1>1, <1>5 DEF q
<1> QED
  BY <1>2, <1>3, <1>4, <1>5

\* Each step of a dial keeps account of the relays of its call.
LEMMA DialTries ==
  ASSUME CallType, NEW c \in Callers, Tried(call[c], ToSet(List)),
         \/ Checks(c) \/ OnLink(c) \/ Direct(c) \/ FallsBack(c) \/ Skips(c)
         \/ ConnectsVia(c) \/ FailsVia(c) \/ OpensVia(c) \/ Exhausted(c) \/ Cancels(c)
  PROVE  Tried(call'[c], ToSet(List))
<1> DEFINE k == call[c]
           n == call'[c]
           relays == ToSet(List)
<1>0. /\ call \in [Callers -> Call] /\ k \in Call /\ k.rest \in Seq(Nat) /\ k.left \in Int
      /\ List \in Seq(Nat) /\ Len(List) \in Nat /\ Len(List) <= MaxCandidates
      /\ Self \notin relays
  BY ListIs DEF CallType, Call
<1>1. Tried(k, relays)
  OBVIOUS
<1> HIDE DEF relays
<1>2. CASE Checks(c)
  <2>1. /\ k.pc = "check" /\ n.pc \in {"linked", "direct"}
        /\ n.ok = k.ok /\ n.seen = k.seen
    BY <1>0, <1>2 DEF Checks, Call
  <2> QED
    BY <1>1, <2>1 DEF Tried
<1>3. CASE OnLink(c)
  <2>1. CASE Opens(c)
    <3>1. n.pc = "done"
      BY <1>0, <1>3, <2>1 DEF OnLink, Call
    <3>2. n.ok = TRUE
      BY <1>0, <1>3, <2>1 DEF OnLink, Call
    <3> QED
      BY <3>1, <3>2 DEF Tried
  <2>2. CASE ~Opens(c)
    <3>1. k.pc = "linked" /\ n.pc = "direct" /\ n.ok = k.ok /\ n.seen = k.seen
      BY <1>0, <1>3, <2>2 DEF OnLink, Call
    <3> QED
      BY <1>1, <3>1 DEF Tried
  <2> QED
    BY <2>1, <2>2
<1>4. CASE Direct(c)
  <2>1. n.pc = "done"
    BY <1>0, <1>4 DEF Direct, Call
  <2>2. n.ok = TRUE
    BY <1>0, <1>4 DEF Direct, Call
  <2> QED
    BY <2>1, <2>2 DEF Tried
<1>5. CASE FallsBack(c)
  <2>1. PICK left \in IF k.left < 0 THEN {-1} ELSE {TotalTime - DirectTime, TotalTime} :
          call' = [call EXCEPT ![c].pc = "relay", ![c].left = left, ![c].rest = List]
    BY <1>5 DEF FallsBack, List
  <2>2. /\ k.pc = "direct" /\ n.pc = "relay" /\ n.left = left /\ n.rest = List
        /\ n.ok = k.ok /\ n.seen = k.seen /\ n.to = k.to
    BY <1>0, <1>5, <2>1 DEF FallsBack, Call
  <2>3. n.seen = {} /\ ~n.ok
    BY <1>1, <2>2 DEF Tried
  <2>4. left >= 0 => Len(List) <= left
    BY <1>0, <2>1, TunnelAssumption
  <2>5. ToSet(n.rest) = relays
    BY <2>2 DEF relays
  <2> QED
    BY <2>2, <2>3, <2>4, <2>5 DEF Tried
<1>6. CASE Skips(c)
  <2>1. /\ k.pc = "relay" /\ k.rest # <<>> /\ Head(k.rest) \in {k.to, Self}
        /\ n.pc = "relay" /\ n.rest = Tail(k.rest) /\ n.left = k.left
        /\ n.ok = k.ok /\ n.seen = k.seen /\ n.to = k.to
    BY <1>0, <1>6 DEF Skips, Call
  <2>2. /\ ToSet(k.rest) = {Head(k.rest)} \union ToSet(Tail(k.rest))
        /\ Len(k.rest) \in Nat \ {0} /\ Len(Tail(k.rest)) = Len(k.rest) - 1
    BY <1>0, <2>1, HeadAndTail
  <2> QED
    BY <1>0, <1>1, <2>1, <2>2 DEF Tried
<1>7. CASE ConnectsVia(c)
  <2>1. /\ k.pc = "relay" /\ k.rest # <<>> /\ Head(k.rest) \notin {k.to, Self}
        /\ n.pc = "open" /\ n.rest = k.rest /\ n.left = k.left
        /\ n.ok = k.ok /\ n.seen = k.seen \union {Head(k.rest)} /\ n.to = k.to
    BY <1>0, <1>7 DEF ConnectsVia, Tries, Call
  <2>2. Head(k.rest) \in ToSet(k.rest)
    BY <1>0, <2>1, HeadAndTail
  <2> QED
    BY <1>1, <2>1, <2>2 DEF Tried
<1>8. CASE FailsVia(c)
  <2>1. PICK used \in {0, Budget(c)} :
          call' = [call EXCEPT ![c].left = @ - used, ![c].rest = Tail(@),
                               ![c].seen = @ \union {Head(call[c].rest)}]
    BY <1>8 DEF FailsVia
  <2>2. /\ k.pc = "relay" /\ k.rest # <<>> /\ Head(k.rest) \notin {k.to, Self} /\ k.left > 0
        /\ n.pc = "relay" /\ n.rest = Tail(k.rest) /\ n.left = k.left - used
        /\ n.ok = k.ok /\ n.seen = k.seen \union {Head(k.rest)} /\ n.to = k.to
    BY <1>0, <1>8, <2>1 DEF FailsVia, Tries, Call
  <2>3. /\ ToSet(k.rest) = {Head(k.rest)} \union ToSet(Tail(k.rest))
        /\ Len(k.rest) \in Nat \ {0} /\ Len(Tail(k.rest)) = Len(k.rest) - 1
    BY <1>0, <2>2, HeadAndTail
  <2>4. k.left \in Nat /\ Len(k.rest) <= k.left
    BY <1>0, <1>1, <2>2 DEF Tried
  <2>5. used \in Nat /\ used <= k.left \div Len(k.rest)
    <3>1. k.left \div Len(k.rest) \in Nat
      BY <2>3, <2>4
    <3>2. Budget(c) \in Nat /\ Budget(c) <= k.left \div Len(k.rest)
      BY <2>2, BudgetIs
    <3> QED
      BY <2>1, <3>1, <3>2
  <2>6. Len(k.rest) - 1 <= k.left - used
    BY <2>3, <2>4, <2>5, ShareLeaves
  <2> QED
    BY <1>1, <2>2, <2>3, <2>4, <2>6 DEF Tried
<1>9. CASE OpensVia(c)
  <2>1. CASE Opens(c)
    <3>1. n.pc = "done"
      BY <1>0, <1>9, <2>1 DEF OpensVia, Call
    <3>2. n.ok = TRUE
      BY <1>0, <1>9, <2>1 DEF OpensVia, Call
    <3> QED
      BY <3>1, <3>2 DEF Tried
  <2>2. CASE ~Opens(c)
    <3>1. /\ k.pc = "open" /\ n.pc = "relay" /\ n.rest = Tail(k.rest) /\ n.left = k.left
          /\ n.ok = k.ok /\ n.seen = k.seen /\ n.to = k.to /\ k.rest # <<>>
      BY <1>0, <1>9, <2>2 DEF OpensVia, Call, CallType
    <3>2. /\ ToSet(k.rest) = {Head(k.rest)} \union ToSet(Tail(k.rest))
          /\ Len(k.rest) \in Nat \ {0} /\ Len(Tail(k.rest)) = Len(k.rest) - 1
      BY <1>0, <3>1, HeadAndTail
    <3> QED
      BY <1>0, <1>1, <3>1, <3>2 DEF Tried
  <2> QED
    BY <2>1, <2>2
<1>10. CASE Exhausted(c)
  <2>1. /\ k.pc = "relay" /\ (k.rest = <<>> \/ k.left <= 0)
        /\ n.pc = "done" /\ n.left = k.left /\ n.ok = k.ok /\ n.seen = k.seen /\ n.to = k.to
    BY <1>0, <1>10 DEF Exhausted, Call
  <2>2. k.left >= 0 => k.rest = <<>>
    <3>1. k.left >= 0 => Len(k.rest) <= k.left
      BY <1>1, <2>1 DEF Tried
    <3> QED
      BY <1>0, <2>1, <3>1
  <2>3. k.rest = <<>> => ToSet(k.rest) = {}
    BY DEF ToSet
  <2> QED
    BY <1>1, <2>1, <2>2, <2>3 DEF Tried
<1>11. CASE Cancels(c)
  <2>1. n.left = -1 /\ n.pc = k.pc /\ n.ok = k.ok /\ n.seen = k.seen /\ n.rest = k.rest
    BY <1>0, <1>11 DEF Cancels, Call
  <2>2. ~(n.left >= 0)
    BY <2>1
  <2> QED
    BY <1>1, <2>1, <2>2 DEF Tried
<1> QED
  BY <1>2, <1>3, <1>4, <1>5, <1>6, <1>7, <1>8, <1>9, <1>10, <1>11 DEF relays

LEMMA TriedStep == CallType /\ TriedAll /\ [Next]_vars => TriedAll'
<1> SUFFICES ASSUME CallType, TriedAll, [Next]_vars PROVE TriedAll'
  OBVIOUS
<1> DEFINE relays == ToSet(List)
<1>0. \A c \in Callers : Tried(call[c], relays)
  BY DEF TriedAll
<1>1. UNCHANGED known => List' = List
  BY DEF List, Candidates
<1>2. UNCHANGED known
  BY DEF Next, vars, links, StartsRound, Reserves, Inbound, Breaks, Forgets, Dials, Waits, Cancels,
         Joins, Leads, GivesUp, Wakes, Claims, Reuses, Leaves, Checks, OnLink, Direct, FallsBack,
         Skips, ConnectsVia, FailsVia, OpensVia, Exhausted, Finish
<1>3. (\A c \in Callers : Tried(call'[c], relays)) => TriedAll'
  BY <1>1, <1>2 DEF TriedAll
<1>4. ASSUME UNCHANGED call PROVE TriedAll'
  BY <1>0, <1>3, <1>4
<1>5. CASE UNCHANGED vars
  BY <1>4, <1>5 DEF vars
<1>6. ASSUME NEW t \in Targets, StartsRound(t) \/ Reserves(t) \/ Inbound(t) \/ Breaks(t)
      PROVE  TriedAll'
  BY <1>4, <1>6 DEF StartsRound, Reserves, Inbound, Breaks
<1>7. ASSUME NEW t \in Targets, NEW r \in Relays, Forgets(t, r) PROVE TriedAll'
  BY <1>4, <1>7 DEF Forgets
<1>8. ASSUME NEW c \in Callers, NEW r \in Call, call' = [call EXCEPT ![c] = r],
             Tried(r, relays)
      PROVE  TriedAll'
  <2>1. \A d \in Callers : call'[d] = IF d = c THEN r ELSE call[d]
    BY <1>8 DEF CallType
  <2> QED
    BY <1>0, <1>3, <1>8, <2>1
<1>9. ASSUME NEW k \in Call, k.pc \in {"idle", "check"} \union Waits4, k.ok = FALSE,
             k.pc = "check" => k.seen = {}
      PROVE  Tried(k, relays)
  BY <1>9 DEF Tried, Waits4
<1>10. ASSUME NEW c \in Callers,
              \/ Checks(c) \/ OnLink(c) \/ Direct(c) \/ FallsBack(c) \/ Skips(c)
              \/ ConnectsVia(c) \/ FailsVia(c) \/ OpensVia(c) \/ Exhausted(c) \/ Cancels(c)
       PROVE  TriedAll'
  <2>1. PICK r \in Call : DialMoves(c, r)
    BY <1>10, DialStep
  <2>2. call' = [call EXCEPT ![c] = r] /\ call'[c] = r
    BY <2>1 DEF DialMoves, CallType
  <2>3. Tried(call'[c], relays)
    BY <1>0, <1>10, DialTries
  <2> QED
    BY <1>8, <2>2, <2>3
<1>11. ASSUME NEW c \in Callers, Finish(c) PROVE TriedAll'
  <2>1. /\ call'[c] = Idle
        /\ \A d \in Callers \ {c} : call'[d].pc = call[d].pc /\ call'[d].to = call[d].to
                                    /\ call'[d].left = call[d].left /\ call'[d].ok = call[d].ok
                                    /\ call'[d].seen = call[d].seen /\ call'[d].rest = call[d].rest
    BY <1>11, FinishIs
  <2>2. Tried(Idle, relays)
    BY DEF Tried, Idle
  <2>3. ASSUME NEW d \in Callers \ {c} PROVE Tried(call'[d], relays)
    BY <1>0, <2>1 DEF Tried
  <2> QED
    BY <1>3, <2>1, <2>2, <2>3
<1>12. ASSUME NEW c \in Callers, GivesUp(c) \/ Wakes(c) \/ Claims(c) \/ Reuses(c) PROVE TriedAll'
  <2>1. PICK r \in Call : WaitMoves(c, r)
    BY <1>12, WaitStep
  <2>2. call' = [call EXCEPT ![c] = r] /\ r = call'[c] /\ r.pc \in Waits4
    BY <2>1 DEF WaitMoves, CallType
  <2>3. call'[c].ok = call[c].ok
    <3>1. call \in [Callers -> Call] /\ call[c] \in Call
      BY DEF CallType
    <3>2. \A pc : call' = [call EXCEPT ![c].pc = pc] => call'[c].ok = call[c].ok
      BY <3>1 DEF Call
    <3>3. \E pc : call' = [call EXCEPT ![c].pc = pc]
      BY <1>12 DEF GivesUp, Wakes, Claims, Reuses
    <3> QED
      BY <3>2, <3>3
  <2>4. call[c].pc \in Waits4
    BY <2>1 DEF WaitMoves
  <2>5. Tried(r, relays)
    BY <1>0, <2>2, <2>3, <2>4 DEF Tried, Waits4
  <2> QED
    BY <1>8, <2>2, <2>5
<1>13. ASSUME NEW c \in Callers, Leaves(c) PROVE TriedAll'
  <2>1. Tried(Idle, relays)
    BY DEF Tried, Idle
  <2> QED
    BY <1>8, <1>13, <2>1, IdleIs DEF Leaves
<1>14. ASSUME NEW c \in Callers, NEW t \in Targets, NEW p \in Protos, Joins(c, t, p) \/ Leads(c, t, p)
       PROVE  TriedAll'
  <2>1. CASE Joins(c, t, p)
    <3>1. PICK r \in Call : r.pc = "wait" /\ r.to = t /\ r.ok = FALSE /\ call' = [call EXCEPT ![c] = r]
      BY <2>1, JoinIs
    <3>2. Tried(r, relays)
      BY <1>9, <3>1 DEF Waits4
    <3> QED
      BY <1>8, <3>1, <3>2
  <2>2. CASE Leads(c, t, p)
    <3>1. PICK r \in Call : /\ r.pc = "check" /\ r.to = t /\ r.seen = {} /\ r.ok = FALSE
                            /\ call' = [call EXCEPT ![c] = r]
      BY <2>2, LeadIs
    <3>2. Tried(r, relays)
      BY <1>9, <3>1
    <3> QED
      BY <1>8, <3>1, <3>2
  <2> QED
    BY <1>14, <2>1, <2>2
<1> QED
  BY <1>5, <1>6, <1>7, <1>10, <1>11, <1>12, <1>13, <1>14 DEF Next, Dials, Waits

LEMMA TriedBegin == Init => TriedAll
<1> SUFFICES ASSUME Init PROVE TriedAll
  OBVIOUS
<1>1. ASSUME NEW relays PROVE Tried(Idle, relays)
  BY DEF Tried, Idle
<1> QED
  BY <1>1 DEF Init, TriedAll

\* A call that fails without having been cancelled has tried every relay it knew, for every
\* number of relays that share the time of a call: no relay, by silence, takes the turn of
\* another.
THEOREM NoRelayIsLeftOut == Spec => []GivesUpLast
<1>1. TriedAll => GivesUpLast
  BY DEF TriedAll, Tried, GivesUpLast, List
<1> QED
  BY <1>1, GateBegin, GateStep, TriedBegin, TriedStep, PTL DEF Spec

=============================================================================
