------------------------- MODULE SeedExchangeProofs -------------------------
(* What is proved of SeedExchange, and so of the service it is part of, for every value *)
(* of the constants.                                                                    *)
EXTENDS SeedExchange, FiniteSetTheorems, TLAPS

-----------------------------------------------------------------------------
(* The service *)

ServiceType ==
  /\ ctx \in BOOLEAN /\ closing \in {"no", "handlers", "detach", "done"}
  /\ pub \in Instances \union {None}
  /\ made \subseteq Instances /\ held \subseteq Instances
  /\ closes \in [Instances -> Nat]
  /\ user \in [Users -> Instances \union {"idle", "build"}]

\* Once Close has begun the context is over, so that what it has undone is not done again.
Stopping ==
  /\ closing # "no" => ~ctx
  /\ closing \in {"detach", "done"} => ~handlers /\ ~seedHandlers
  /\ closing = "done" => pub = None

InUse(i) == \E u \in Users : user[u] = i

\* An instance that has been made is closed, or exactly one will see to it: the field, a
\* goroutine that has taken it out of there, or the caller that has made it.
OneHolder ==
  \A i \in Instances :
    /\ closes[i] \in {0, 1}
    /\ i \in made <=> closes[i] = 1 \/ pub = i \/ i \in held \/ InUse(i)
    /\ closes[i] = 1 => pub # i /\ i \notin held /\ ~InUse(i)
    /\ pub = i => i \notin held /\ ~InUse(i)
    /\ i \in held => ~InUse(i)
    /\ \A u, v \in Users : user[u] = i /\ user[v] = i => u = v

ServiceInv == ServiceType /\ Stopping /\ OneHolder

\* The steps that take the instance out of the field, or leave it there.
LEMMA TakesKeeps ==
  ASSUME ServiceInv, Takes, UNCHANGED <<ctx, closing, handlers, seedHandlers, made, closes, user>>
  PROVE  ServiceInv'
<1>1. CASE UNCHANGED <<pub, held>>
  BY <1>1 DEF ServiceInv, ServiceType, Stopping, OneHolder, InUse
<1>2. CASE pub # None /\ pub' = None /\ held' = held \union {pub}
  <2>1. ServiceType' /\ Stopping'
    BY <1>2 DEF ServiceInv, ServiceType, Stopping
  <2>2. OneHolder'
    BY <1>2, ServiceAssumption DEF ServiceInv, ServiceType, OneHolder, InUse
  <2> QED
    BY <2>1, <2>2 DEF ServiceInv
<1> QED
  BY <1>1, <1>2 DEF Takes

\* What leaves the instances alone leaves them with their holders.
LEMMA HoldersKeep ==
  ASSUME ServiceInv, UNCHANGED <<pub, made, held, closes, user>>
  PROVE  OneHolder'
BY DEF ServiceInv, OneHolder, InUse

LEMMA LifeSteps ==
  ASSUME ServiceInv,
         \/ UNCHANGED seedHandlers /\ (Start \/ Boots \/ Cancels \/ Close)
         \/ StartRegisters \/ CloseRemoves
  PROVE  ServiceInv'
<1>1. UNCHANGED <<pub, made, held, closes, user>>
  BY DEF StartRegisters, CloseRemoves, Start, Boots, Registers, Cancels, Close, RemovesHandlers,
         switch
<1>2. ServiceType'
  BY <1>1 DEF ServiceInv, ServiceType, StartRegisters, CloseRemoves, Start, Boots, Registers,
              Cancels, Close, RemovesHandlers
<1>3. Stopping'
  <2>1. CASE UNCHANGED seedHandlers /\ (Start \/ Boots \/ Cancels)
    BY <1>1, <2>1 DEF ServiceInv, Stopping, Start, Boots, Cancels
  <2>2. CASE UNCHANGED seedHandlers /\ Close
    BY <1>1, <2>2 DEF ServiceInv, Stopping, Close
  <2>3. CASE StartRegisters
    BY <1>1, <2>3 DEF ServiceInv, Stopping, StartRegisters, Registers
  <2>4. CASE CloseRemoves
    BY <1>1, <2>4 DEF ServiceInv, Stopping, CloseRemoves, RemovesHandlers
  <2> QED
    BY <2>1, <2>2, <2>3, <2>4
<1> QED
  BY <1>1, <1>2, <1>3, HoldersKeep DEF ServiceInv

LEMMA DetachesStep ==
  ASSUME ServiceInv, Detaches, UNCHANGED seedHandlers PROVE ServiceInv'
<1>1. ServiceType' /\ Stopping'
  BY DEF ServiceInv, ServiceType, Stopping, Detaches
<1>2. OneHolder'
  BY ServiceAssumption DEF ServiceInv, ServiceType, OneHolder, InUse, Detaches
<1> QED
  BY <1>1, <1>2 DEF ServiceInv

LEMMA ShutsStep ==
  ASSUME ServiceInv, NEW i \in Instances, Shuts(i), UNCHANGED seedHandlers PROVE ServiceInv'
<1>1. ServiceType' /\ Stopping'
  BY DEF ServiceInv, ServiceType, Stopping, Shuts, Set, life
<1>2. OneHolder'
  BY DEF ServiceInv, ServiceType, OneHolder, InUse, Shuts, Set
<1> QED
  BY <1>1, <1>2 DEF ServiceInv

LEMMA TimerSteps ==
  ASSUME ServiceInv, UNCHANGED seedHandlers,
         Retires \/ Disables \/ \E i \in Instances : ComesDue(i) \/ TimesOut(i)
  PROVE  ServiceInv'
<1>1. CASE Retires \/ Disables \/ \E i \in Instances : TimesOut(i)
  BY <1>1, TakesKeeps DEF Retires, Disables, TimesOut, life
<1>2. CASE \E i \in Instances : ComesDue(i)
  BY <1>2, HoldersKeep DEF ComesDue, life, ServiceInv, ServiceType, Stopping
<1> QED
  BY <1>1, <1>2

\* A caller begins, and gets a new instance or none.
LEMMA BuildSteps ==
  ASSUME ServiceInv, UNCHANGED seedHandlers, NEW u \in Users, Enables(u) \/ Builds(u)
  PROVE  ServiceInv'
<1>1. ServiceType' /\ Stopping'
  BY DEF ServiceInv, ServiceType, Stopping, Enables, Builds, Set, life
<1>2. OneHolder'
  <2>1. CASE Enables(u)
    BY <2>1, ServiceAssumption DEF ServiceInv, ServiceType, OneHolder, InUse, Enables, Set
  <2>2. CASE user[u] = "build" /\ user' = Set(user, u, "idle") /\ UNCHANGED <<pub, made, held, closes>>
    BY <2>2, ServiceAssumption DEF ServiceInv, ServiceType, OneHolder, InUse, Set
  <2>3. ASSUME NEW i \in Instances \ made, user[u] = "build", user' = Set(user, u, i),
               made' = made \union {i}, UNCHANGED <<pub, held, closes>>
        PROVE  OneHolder'
    BY <2>3, ServiceAssumption DEF ServiceInv, ServiceType, OneHolder, InUse, Set
  <2> QED
    BY <2>1, <2>2, <2>3 DEF Builds
<1> QED
  BY <1>1, <1>2 DEF ServiceInv

LEMMA StoresStep ==
  ASSUME ServiceInv, UNCHANGED seedHandlers, NEW u \in Users, NEW i \in Instances, Stores(u, i)
  PROVE  ServiceInv'
<1>1. /\ user[u] = i /\ user' = [user EXCEPT ![u] = "idle"] /\ UNCHANGED <<life, made, closes>>
      /\ \/ held' = held \union {i} /\ UNCHANGED pub
         \/ ~Closed /\ pub = None /\ pub' = i /\ UNCHANGED held
  BY DEF Stores, Holds, Set
<1>2. ServiceType' /\ Stopping'
  BY <1>1 DEF ServiceInv, ServiceType, Stopping, Closed, life
<1>3. OneHolder'
  BY <1>1, ServiceAssumption DEF ServiceInv, ServiceType, OneHolder, InUse
<1> QED
  BY <1>2, <1>3 DEF ServiceInv

\* Connections, exchanges and the tables are none of the business of the instances.
LEMMA QuietSteps ==
  ASSUME ServiceInv, UNCHANGED <<ctx, handlers, closing, pub, made, held, closes, user>>,
         UNCHANGED seedHandlers \/ (ctx /\ seedHandlers' = TRUE)
  PROVE  ServiceInv'
BY HoldersKeep DEF ServiceInv, ServiceType, Stopping

LEMMA ServiceBegins == Init => ServiceInv
BY ServiceAssumption DEF Init, ServiceInit, ServiceInv, ServiceType, Stopping, OneHolder, InUse

LEMMA ServiceStep == ServiceInv /\ [Next]_vars => ServiceInv'
<1> SUFFICES ASSUME ServiceInv, [Next]_vars PROVE ServiceInv'
  OBVIOUS
<1> USE DEF seedVars, wiring
<1>1. CASE \/ (Start \/ Boots \/ Cancels \/ Close) /\ UNCHANGED seedVars
           \/ StartRegisters \/ CloseRemoves
  BY <1>1, LifeSteps
<1>2. CASE Detaches /\ UNCHANGED seedVars
  BY <1>2, DetachesStep
<1>3. CASE \E i \in Instances : Shuts(i) /\ UNCHANGED seedVars
  BY <1>3, ShutsStep
<1>4. CASE (Retires \/ Disables \/ \E i \in Instances : ComesDue(i) \/ TimesOut(i))
           /\ UNCHANGED seedVars
  BY <1>4, TimerSteps
<1>5. CASE \E u \in Users : (Enables(u) \/ Builds(u)) /\ UNCHANGED seedVars
  BY <1>5, BuildSteps
<1>6. CASE \E u \in Users, i \in Instances : Stores(u, i) /\ UNCHANGED seedVars
  BY <1>6, StoresStep
<1>7. CASE \/ \E p \in Peers : Unlinks(p) /\ UNCHANGED seedVars
           \/ \E p \in Public, d \in Directions : Proves(d, p) /\ UNCHANGED seedVars
  BY <1>7, QuietSteps DEF Unlinks, Proves, life, switch
<1>8. CASE \/ \E p \in Public, d \in Directions : ProbeMeets(d, p)
           \/ \E p \in Peers : Links(p)
  BY <1>8, QuietSteps DEF ProbeMeets, Probes, Links, life, switch
<1>9. CASE \/ Run \/ NextRound \/ NextScope
           \/ \E f \in [Scopes -> BOOLEAN] : Saves(f)
           \/ \E p \in Peers : Calls(p) \/ CoolsOff(p)
  BY <1>9, QuietSteps DEF Run, NextRound, NextScope, Saves, Calls, CoolsOff, serviceVars, life,
                          switch
<1>10. CASE Applies
  BY <1>10, QuietSteps DEF Applies, Switches, serviceVars, life, switch
<1>11. CASE \E s \in Scopes : StartSeedVerifier(s) \/ \E p \in Peers : Called(p, s)
  BY <1>11, QuietSteps DEF StartSeedVerifier, Harvests, Sweeps, Verifies, Tends, Called,
                           serviceVars, life, switch
<1>12. CASE \E e \in ex : ExchangeGoesOn(e)
  BY <1>12, QuietSteps DEF ExchangeGoesOn, Breaks, Replies, Writes, Reads, Gets, serviceVars,
                           life, switch
<1>13. CASE UNCHANGED vars
  BY <1>13, QuietSteps DEF vars, serviceVars, life, switch
<1> QED
  BY <1>1, <1>2, <1>3, <1>4, <1>5, <1>6, <1>7, <1>8, <1>9, <1>10, <1>11, <1>12, <1>13
     DEF Next, SetPublicDHT

\* Whatever Start, Close, the timers, the console and any number of callers do at the same
\* time: an instance of the public DHT is closed at most once, and Close leaves neither a
\* handler nor an instance that nobody closes.
THEOREM NothingIsLeft == Spec => []NothingStays
<1>1. ServiceInv => NothingStays
  <2> SUFFICES ASSUME ServiceInv PROVE NothingStays
    OBVIOUS
  <2>1. \A i \in Instances : closes[i] <= 1
    BY DEF ServiceInv, OneHolder
  <2>2. ASSUME Closed, held = {}, \A u \in Users : user[u] = "idle", NEW i \in made
        PROVE  closes[i] = 1
    BY <2>2, ServiceAssumption DEF ServiceInv, ServiceType, Stopping, OneHolder, InUse, Closed
  <2> QED
    BY <2>1, <2>2 DEF NothingStays, NothingAfterClose, ServiceInv, Stopping, Closed
<1> QED
  BY ServiceBegins, ServiceStep, <1>1, PTL DEF Spec

-----------------------------------------------------------------------------
(* The tables *)

Table == [Peers -> {"none", "heard", "met"}]

\* A table has as met only peers of M.
MetOf(t, M) == t \in Table /\ \A p \in Peers : t[p] = "met" => p \in M

LEMMA TableSteps ==
  ASSUME NEW M, NEW t, MetOf(t, M)
  PROVE  /\ \A u \in Evicted(t) \union Pruned(t) : MetOf(u, M)
         /\ \A R : MetOf(Upserted(t, R), M)
         /\ \A p \in M : MetOf(Noted(t, p), M)
         /\ \A R \in SUBSET M : MetOf(Observed(t, R), M)
<1>1. \A u \in Evicted(t) : MetOf(u, M)
  BY DEF MetOf, Table, Evicted
<1>2. \A u \in Pruned(t) : MetOf(u, M)
  BY DEF MetOf, Table, Pruned
<1>3. \A R : MetOf(Upserted(t, R), M)
  BY DEF MetOf, Table, Upserted
<1>4. \A p \in M : MetOf(Noted(t, p), M)
  BY DEF MetOf, Table, Noted, Set
<1>5. \A R \in SUBSET M : MetOf(Observed(t, R), M)
  BY DEF MetOf, Table, Observed
<1> QED
  BY <1>1, <1>2, <1>3, <1>4, <1>5

Exchange ==
  [dir : {"in", "out"}, peer : Peers, scope : Scopes, at : {"write", "read", "reply", "await"}]

\* The peers of the tables that were met have been met, and so have those handed on and
\* those that are connected.
AllMet ==
  /\ ex \subseteq Exchange
  /\ linked \subseteq met /\ given \subseteq met
  /\ rows \in [Scopes -> Table] /\ \A s \in Scopes : MetOf(rows[s], met)

LEMMA AllMetBegins == Init => AllMet
BY DEF Init, ServiceInit, AllMet, MetOf, Table

\* The step of an exchange: what it merges, and what it hands on.
LEMMA MergesStep ==
  ASSUME AllMet, NEW s \in Scopes, NEW R, Merges(s, R)
  PROVE  rows' \in [Scopes -> Table] /\ \A x \in Scopes : MetOf(rows'[x], met)
<1>1. CASE UNCHANGED rows
  BY <1>1 DEF AllMet
<1>2. ASSUME NEW t \in Evicted(Upserted(rows[s], R)), rows' = Set(rows, s, t)
      PROVE  rows' \in [Scopes -> Table] /\ \A x \in Scopes : MetOf(rows'[x], met)
  <2>1. MetOf(t, met)
    BY <1>2, TableSteps DEF AllMet
  <2> QED
    BY <1>2, <2>1 DEF AllMet, MetOf, Set
<1> QED
  BY <1>1, <1>2 DEF Merges

LEMMA TendsStep ==
  ASSUME AllMet, NEW s \in Scopes, NEW t, MetOf(t, met), Tends(s, t) PROVE AllMet'
<1>1. UNCHANGED <<ex, given, linked, met>> /\ rows' = Set(rows, s, t)
  BY DEF Tends, serviceVars
<1> QED
  BY <1>1 DEF AllMet, MetOf, Set

LEMMA VerifierStep == ASSUME AllMet, NEW s \in Scopes, StartSeedVerifier(s) PROVE AllMet'
<1>1. MetOf(rows[s], met) /\ linked \subseteq met
  BY DEF AllMet
<1>2. CASE Harvests(s)
  <2>1. PICK t \in Evicted(Observed(rows[s], linked \intersect Public)) : Tends(s, t)
    BY <1>2 DEF Harvests
  <2>2. MetOf(Observed(rows[s], linked \intersect Public), met)
    BY <1>1, TableSteps
  <2>3. MetOf(t, met)
    BY <2>1, <2>2, TableSteps
  <2> QED
    BY <2>1, <2>3, TendsStep
<1>3. CASE Sweeps(s)
  BY <1>1, <1>3, TableSteps, TendsStep DEF Sweeps
<1>4. ASSUME NEW p \in Peers, Verifies(s, p) PROVE AllMet'
  BY <1>1, <1>4, TableSteps, TendsStep DEF Verifies
<1> QED
  BY <1>2, <1>3, <1>4 DEF StartSeedVerifier

\* What is handed on was met.
LEMMA SharedIsMet ==
  ASSUME AllMet, NEW s \in Scopes, NEW R \in LocalSeedRecords(s) PROVE R \subseteq met
BY DEF AllMet, MetOf, LocalSeedRecords, Shared

LEMMA ExchangeMet == ASSUME AllMet, NEW e \in ex, ExchangeGoesOn(e) PROVE AllMet'
<1>1. e \in Exchange /\ e.scope \in Scopes /\ ex \subseteq Exchange
  BY DEF AllMet, Exchange
<1>2. ASSUME NEW at \in {"write", "read", "reply", "await"}, Ends(e) \/ GoesOn(e, at)
      PROVE  ex' \subseteq Exchange
  BY <1>1, <1>2 DEF Ends, GoesOn, Exchange
<1>3. CASE Breaks(e)
  BY <1>2, <1>3 DEF Breaks, serviceVars, AllMet
<1>4. CASE Replies(e)
  <2>1. ex' \subseteq Exchange /\ UNCHANGED <<linked, met, rows>>
    BY <1>2, <1>4 DEF Replies, serviceVars
  <2>2. given' \subseteq met
    BY <1>1, <1>4, SharedIsMet DEF Replies, AllMet
  <2> QED
    BY <2>1, <2>2 DEF AllMet
<1>5. CASE Writes(e)
  <2>1. /\ ex' \subseteq Exchange /\ UNCHANGED rows
        /\ linked' = linked \union {e.peer} /\ met' = met \union {e.peer}
    BY <1>2, <1>5 DEF Writes, Meets
  <2>2. given' \subseteq met
    BY <1>1, <1>5, SharedIsMet DEF Writes, AllMet
  <2> QED
    BY <2>1, <2>2 DEF AllMet, MetOf
<1>6. ASSUME NEW R, Reads(e, R) \/ Gets(e, R) PROVE AllMet'
  <2>1. ex' \subseteq Exchange /\ UNCHANGED <<linked, met, given>>
    BY <1>2, <1>6 DEF Reads, Gets, serviceVars
  <2>2. rows' \in [Scopes -> Table] /\ \A x \in Scopes : MetOf(rows'[x], met)
    BY <1>1, <1>6, MergesStep DEF Reads, Gets
  <2> QED
    BY <2>1, <2>2 DEF AllMet
<1> QED
  BY <1>3, <1>4, <1>5, <1>6 DEF ExchangeGoesOn

LEMMA AllMetStep == AllMet /\ [Next]_vars => AllMet'
<1> SUFFICES ASSUME AllMet, [Next]_vars PROVE AllMet'
  OBVIOUS
<1>0. ASSUME UNCHANGED <<ex, given, met, rows>>, linked' \subseteq linked PROVE AllMet'
  BY <1>0 DEF AllMet
<1>1. ASSUME NEW p \in Peers, Meets(p), UNCHANGED <<ex, given, rows>> PROVE AllMet'
  BY <1>1 DEF AllMet, Meets, MetOf
<1>2. ASSUME NEW e \in Exchange, Admitted(e), UNCHANGED <<given, met, rows, linked>>
      PROVE  AllMet'
  BY <1>2 DEF AllMet, Admitted
<1>3. CASE UNCHANGED <<seedVars, linked>>
  BY <1>0, <1>3 DEF seedVars
<1>4. CASE \E p \in Peers : Unlinks(p) /\ UNCHANGED seedVars
  BY <1>0, <1>4 DEF Unlinks, seedVars
<1>5. CASE \/ StartRegisters \/ CloseRemoves \/ Run \/ NextRound \/ NextScope \/ Applies
           \/ \E f \in [Scopes -> BOOLEAN] : Saves(f)
           \/ \E p \in Peers : CoolsOff(p)
  BY <1>0, <1>5 DEF StartRegisters, Registers, CloseRemoves, RemovesHandlers, Run, NextRound,
       NextScope, Applies, Switches, Saves, CoolsOff, serviceVars
<1>6. CASE \E p \in Peers : Links(p)
  BY <1>1, <1>6 DEF Links
<1>7. CASE \E p \in Public, d \in Directions : ProbeMeets(d, p)
  BY <1>1, <1>7, SeedAssumption DEF ProbeMeets
<1>8. CASE \E p \in Peers : Calls(p)
  BY <1>2, <1>8 DEF Calls, serviceVars, Exchange, Scopes
<1>9. CASE \E p \in Peers, s \in Scopes : Called(p, s)
  BY <1>2, <1>9 DEF Called, serviceVars, Exchange
<1>10. CASE \E s \in Scopes : StartSeedVerifier(s)
  BY <1>10, VerifierStep
<1>11. CASE \E e \in ex : ExchangeGoesOn(e)
  BY <1>11, ExchangeMet
<1>12. CASE UNCHANGED vars
  BY <1>3, <1>12 DEF vars, serviceVars
<1>13. CASE (Start \/ Boots \/ Cancels \/ Close \/ Detaches \/ Retires \/ Disables)
            /\ UNCHANGED seedVars
  BY <1>3, <1>13 DEF Start, Boots, Cancels, Close, Detaches, Retires, Disables
<1>14. CASE \E i \in Instances : (Shuts(i) \/ ComesDue(i) \/ TimesOut(i)) /\ UNCHANGED seedVars
  BY <1>3, <1>14 DEF Shuts, ComesDue, TimesOut
<1>15. CASE \E i \in Instances, u \in Users : Stores(u, i) /\ UNCHANGED seedVars
  BY <1>3, <1>15 DEF Stores
<1>16. CASE \E u \in Users : (Enables(u) \/ Builds(u)) /\ UNCHANGED seedVars
  BY <1>3, <1>16 DEF Enables, Builds
<1>17. CASE \E p \in Public, d \in Directions : Proves(d, p) /\ UNCHANGED seedVars
  BY <1>3, <1>17 DEF Proves
<1> QED
  BY <1>4, <1>5, <1>6, <1>7, <1>8, <1>9, <1>10, <1>11, <1>12, <1>13, <1>14, <1>15, <1>16, <1>17
     DEF Next, SetPublicDHT

\* A node hands on only the seeds it has been connected to, and takes no others for relays,
\* whatever it is told, and whatever is evicted and heard of again.
THEOREM OnlyTheMet == Spec => []NoHearsay
<1>1. AllMet => NoHearsay
  BY DEF AllMet, NoHearsay, SeedCandidates, MetOf
<1> QED
  BY AllMetBegins, AllMetStep, <1>1, PTL DEF Spec

-----------------------------------------------------------------------------
(* The gate *)

\* The counter is the number of the exchanges there are; a peer that has one is in cooldown.
Gate ==
  /\ IsFiniteSet(ex) /\ active = Cardinality(ex) /\ active <= MaxExchanges
  /\ \A e \in ex : e.peer \in cool
  /\ \A e, f \in ex : e.peer = f.peer => e = f

LEMMA GateBegins == Init => Gate
BY FS_EmptySet, SeedAssumption DEF Init, Gate

LEMMA AdmittedStep == ASSUME Gate, NEW e, Admitted(e) PROVE Gate'
<1>1. e \notin ex
  BY DEF Gate, Admitted
<1>2. IsFiniteSet(ex') /\ Cardinality(ex') = Cardinality(ex) + 1
  BY <1>1, FS_AddElement DEF Gate, Admitted
<1>3. active \in Nat
  BY FS_CardinalityType DEF Gate
<1> QED
  BY <1>1, <1>2, <1>3, SeedAssumption DEF Gate, Admitted

LEMMA EndsStep == ASSUME Gate, NEW e \in ex, Ends(e), cool \subseteq cool' PROVE Gate'
<1>1. IsFiniteSet(ex') /\ Cardinality(ex') = Cardinality(ex) - 1
  BY FS_RemoveElement DEF Gate, Ends
<1>2. active \in Nat /\ Cardinality(ex') \in Nat
  BY <1>1, FS_CardinalityType DEF Gate
<1> QED
  BY <1>1, <1>2, SeedAssumption DEF Gate, Ends

LEMMA GoesOnStep ==
  ASSUME Gate, ex \subseteq Exchange, NEW e \in ex, NEW at, GoesOn(e, at), UNCHANGED cool
  PROVE  Gate'
<1> DEFINE f == [e EXCEPT !.at = at]
           less == ex \ {e}
<1>1. ex' = less \union {f} /\ f.peer = e.peer /\ UNCHANGED active
  BY DEF GoesOn, Exchange
<1>2. f \notin less
  BY <1>1 DEF Gate
<1>3. IsFiniteSet(less) /\ Cardinality(less) = Cardinality(ex) - 1
  BY FS_RemoveElement DEF Gate
<1>4. IsFiniteSet(ex') /\ Cardinality(ex') = Cardinality(less) + 1
  BY <1>1, <1>2, <1>3, FS_AddElement
<1>5. active \in Nat /\ Cardinality(less) \in Nat
  BY <1>3, FS_CardinalityType DEF Gate
<1>6. /\ \A x \in less : x.peer \in cool /\ x.peer # e.peer
      /\ \A x, y \in less : x.peer = y.peer => x = y
      /\ e.peer \in cool
  BY DEF Gate
<1> HIDE DEF f, less
<1>7. \A x \in ex' : x.peer \in cool'
  BY <1>1, <1>6
<1>8. \A x, y \in ex' : x.peer = y.peer => x = y
  BY <1>1, <1>6
<1>9. active' = Cardinality(ex') /\ active' <= MaxExchanges
  BY <1>1, <1>3, <1>4, <1>5 DEF Gate
<1> QED
  BY <1>4, <1>7, <1>8, <1>9 DEF Gate

LEMMA GateStep == Gate /\ AllMet /\ [Next]_vars => Gate'
<1> SUFFICES ASSUME Gate, AllMet, [Next]_vars PROVE Gate'
  OBVIOUS
<1>0. ASSUME UNCHANGED <<ex, active, cool>> PROVE Gate'
  BY <1>0 DEF Gate
<1>1. CASE \E e \in ex : ExchangeGoesOn(e)
  <2>1. PICK e \in ex : ExchangeGoesOn(e)
    BY <1>1
  <2>2. \/ Ends(e) /\ cool \subseteq cool'
        \/ \E at : GoesOn(e, at) /\ UNCHANGED cool
    BY <2>1 DEF ExchangeGoesOn, Breaks, Replies, Writes, Reads, Gets
  <2> QED
    BY <2>2, EndsStep, GoesOnStep DEF AllMet
<1>2. CASE \/ \E p \in Peers : Calls(p)
           \/ \E p \in Peers, s \in Scopes : Called(p, s)
  BY <1>2, AdmittedStep DEF Calls, Called
<1>3. CASE \E p \in Peers : CoolsOff(p)
  BY <1>3 DEF CoolsOff, Gate
<1>4. CASE UNCHANGED seedVars \/ UNCHANGED vars
  BY <1>0, <1>4 DEF seedVars, vars
<1>5. CASE \/ StartRegisters \/ CloseRemoves \/ Run \/ NextRound \/ NextScope \/ Applies
           \/ \E f \in [Scopes -> BOOLEAN] : Saves(f)
           \/ \E s \in Scopes : StartSeedVerifier(s)
           \/ \E p \in Peers : Links(p)
           \/ \E p \in Public, d \in Directions : ProbeMeets(d, p)
  BY <1>0, <1>5 DEF StartRegisters, CloseRemoves, Run, NextRound, NextScope, Applies, Switches,
       Saves, StartSeedVerifier, Harvests, Sweeps, Verifies, Tends, Links, ProbeMeets
<1> QED
  BY <1>1, <1>2, <1>3, <1>4, <1>5 DEF Next

\* The gate is exact, for both directions and all the scopes together: its counter is the
\* number of the exchanges there are, which is never above the limit, and no peer has two.
\* So it does not leak, and the test that keeps it above zero (release) never has to.
THEOREM GateIsExact ==
  Spec => [](/\ active = Cardinality(ex) /\ active \in 0..MaxExchanges
             /\ \A e, f \in ex : e.peer = f.peer => e = f)
<1>1. Gate => /\ active = Cardinality(ex) /\ active \in 0..MaxExchanges
              /\ \A e, f \in ex : e.peer = f.peer => e = f
  BY FS_CardinalityType, SeedAssumption DEF Gate
<1> QED
  BY AllMetBegins, AllMetStep, GateBegins, GateStep, <1>1, PTL DEF Spec

=============================================================================
