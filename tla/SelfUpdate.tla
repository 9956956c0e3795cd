------------------------------ MODULE SelfUpdate ------------------------------
(***************************************************************************)
(* A node replaces its own program (pkg/selfupdate, and update.go,         *)
(* p2pupdate.go, update_helper.go, singleton.go of app/agent/cmd/pvn-node).*)
(*                                                                         *)
(* The update round and the console's "apply" fetch a newer program, stage *)
(* it beside the running one and restart; a helper process, spawned by     *)
(* whoever finds the marker of a staged program, replaces the executable   *)
(* under the lock of the configuration directory and starts the node.      *)
(*                                                                         *)
(* A program is its version number; signatures and digests are exact, so   *)
(* what was fetched and verified is the program itself, a credential is    *)
(* the program it vouches for, and a marker the program it is the digest   *)
(* of.  A file is written beside its place and renamed (writeAtomic): it   *)
(* holds the old or the new content, and the partial files are never read. *)
(* Any file operation may fail, but for those that take another one back.  *)
(* A process that releases the lock to exit (restartSelf) exits with that  *)
(* step.                                                                   *)
(*                                                                         *)
(* The lock file can be used: it is either free or busy.  Where it cannot  *)
(* even be opened or locked, the node starts without the lock; that start  *)
(* is left out, so all that is said here assumes a usable lock file.       *)
(***************************************************************************)
EXTENDS Naturals

CONSTANTS
  MaxVersion,   \* bound: the newest release
  Shipped,      \* the credential in the package the node was installed from, or Nothing
  Helpers,      \* bound: update helpers alive at a time
  Unsuited      \* the cases that are looked at: which programs the system cannot execute

Programs == 1 .. MaxVersion
Nothing  == 0

\* A program damaged before the digest of its file is taken, which nothing can tell from the
\* original from then on, and the version it still has; and one damaged after that.
Altered(v)  == v + MaxVersion
Alterations == {Altered(v) : v \in Programs}
Version(v)  == IF v \in Alterations THEN v - MaxVersion ELSE v
Damaged     == 2 * MaxVersion + 1
Installable == Programs \union Alterations

ASSUME UpdateAssumption ==
  /\ MaxVersion \in Nat \ {0} /\ Shipped \in {Nothing, 1}
  /\ Unsuited \subseteq SUBSET (Installable \ {1})

Paths    == {"exe", "old", "rollback", "pending", "marker", "credential"}
Actors   == {"round", "console"}

VARIABLES
  disk,    \* the content of each file
  node,    \* the running node: its image, the head it hands out, the gate, its attempts
  work,    \* per actor: what it does with which program
  boot,    \* a node process that does not have the lock yet
  helper,  \* per helper: where it is and what it has done
  broken   \* the programs that this system cannot execute

updateVars == <<disk, node, work, boot, helper, broken>>

Idle     == [pc |-> "idle", target |-> Nothing]
NoNode   == [up |-> FALSE, run |-> Nothing, self |-> Nothing, calm |-> FALSE, gate |-> FALSE,
             done |-> {}]
NoBoot   == [run |-> Nothing, calm |-> FALSE]
NoHelper == [pc |-> "none", from |-> "pending", calm |-> FALSE, changed |-> FALSE]

UpdateInit ==
  /\ disk = [f \in Paths |-> IF f = "exe" THEN 1 ELSE Nothing]
  /\ node = NoNode /\ boot = NoBoot
  /\ broken \in Unsuited
  /\ work = [a \in Actors |-> Idle]
  /\ helper = [h \in Helpers |-> NoHelper]

Puts(f, v)   == disk' = [disk EXCEPT ![f] = v]
Executable  == disk["exe"] \notin broken \union {Nothing}
LockFree    == ~node.up /\ \A h \in Helpers : helper[h].pc \notin {"check", "vacate", "write", "unmark", "sweep"}
Marked      == disk["marker"] # Nothing

\* The node process is gone, and the goroutines with it.
Exits == node' = NoNode /\ work' = [a \in Actors |-> Idle]

\* A free helper slot takes a new helper that inherits the environment of its parent.
Spawns(calm) ==
  \E h \in Helpers :
    /\ helper[h].pc = "none"
    /\ helper' = [helper EXCEPT ![h] = [NoHelper EXCEPT !.pc = "wait", !.calm = calm]]

-----------------------------------------------------------------------------
(* Starting a node *)

\* Somebody starts the program.
Launch ==
  /\ boot = NoBoot /\ Executable
  /\ boot' = [run |-> disk["exe"], calm |-> FALSE]
  /\ UNCHANGED <<disk, node, work, helper, broken>>

\* It finds a marker and hands over to a helper, unless a helper has told it not to.
HandsOver ==
  /\ boot # NoBoot /\ ~boot.calm /\ Marked /\ Executable
  /\ Spawns(boot.calm)
  /\ boot' = NoBoot
  /\ UNCHANGED <<disk, node, work, broken>>

\* The one that was fetched goes before the one of the package.
Credentials == {disk["credential"], Shipped}

\* Mutant: The credential is not compared with the executable.
SelfHeadTrusting == disk["credential"]

\* A credential counts only if it is that of the executable.
SelfHead == IF disk["exe"] \in Credentials THEN disk["exe"] ELSE Nothing

\* What the last replacement has left is removed.
CleansUp == Puts("old", Nothing)

\* It becomes the node if the lock is free: also when no helper could be spawned.  A lock file
\* that is not usable is left out.
ComesUp ==
  /\ boot # NoBoot /\ LockFree
  /\ node' = [NoNode EXCEPT !.up = TRUE, !.run = boot.run, !.calm = boot.calm, !.self = SelfHead]
  /\ CleansUp
  /\ boot' = NoBoot
  /\ UNCHANGED <<work, helper, broken>>

\* It is the second one and gives up.
Refused ==
  /\ boot # NoBoot /\ ~LockFree
  /\ boot' = NoBoot
  /\ UNCHANGED <<disk, node, work, helper, broken>>

-----------------------------------------------------------------------------
(* Fetching and staging *)

\* The actor goes on, and the attempts under way and the gate are as given.
GoesOn(a, c, t, done, gate) ==
  /\ work' = [work EXCEPT ![a] = IF c = "idle" THEN Idle ELSE [pc |-> c, target |-> t]]
  /\ node' = [node EXCEPT !.done = done, !.gate = gate]
  /\ UNCHANGED <<boot, helper, broken>>

At(a, c) == node.up /\ work[a].pc = c

Newer(v) == v > Version(node.run)

\* A member hands out its head to a node that is older; what no key has signed is dropped.
Heads == {v \in Programs : Newer(v)}

\* It sends the file as long as that is the release of its head.
HandsOut(v) == v \in Heads

\* Some of those that are asked answer.
Gathered == SUBSET Heads \ {{}}

\* The highest release of the heads that came in.
Consensus(heads) == CHOOSE v \in heads : \A w \in heads : w <= v

\* No attempt at it is under way, and the pause after a failed one is over.
Round(v) ==
  /\ At("round", "idle") /\ ~node.gate
  /\ \E heads \in Gathered : v = Consensus(heads)
  /\ v \notin node.done
  /\ GoesOn("round", "begun", v, node.done \union {v}, FALSE)
  /\ UNCHANGED disk

\* It takes the gate, or takes back the attempt.
RoundEnters ==
  /\ At("round", "begun")
  /\ LET v == work["round"].target
     IN  IF node.gate THEN GoesOn("round", "idle", v, node.done \ {v}, TRUE)
                      ELSE GoesOn("round", "fetch", v, node.done, TRUE)
  /\ UNCHANGED disk

VersionLess(v, w) == v < w

\* What a check can have found: a newer release with a package for this system and its digest.
\* A check that fails leaves what the last one has found.
Checked == {v \in Programs : VersionLess(Version(node.run), v)}

\* Mutant: The console does not ask for the gate.
ClickAnyway(v) ==
  /\ At("console", "idle") /\ v \in Checked
  /\ GoesOn("console", "fetch", v, node.done, TRUE)
  /\ UNCHANGED disk

\* The user applies the release that the last check has found.
Click(v) ==
  /\ At("console", "idle") /\ ~node.gate /\ v \in Checked
  /\ GoesOn("console", "fetch", v, node.done, TRUE)
  /\ UNCHANGED disk

\* The gate opens, and a round may try again after a pause.
FetchFails(a) ==
  /\ At(a, "fetch") \/ At(a, "unpack")
  /\ GoesOn(a, "idle", Nothing, IF a = "round" THEN node.done \ {work[a].target} ELSE node.done, FALSE)
  /\ UNCHANGED disk

\* Its credential is written, if that succeeds.
Vouches(v) == \E c \in {disk["credential"], v} : Puts("credential", c)

\* A member sends the file: whole, under the head that was agreed on, with its digest.
Downloads ==
  /\ At("round", "fetch") /\ HandsOut(work["round"].target)
  /\ Vouches(work["round"].target)
  /\ GoesOn("round", "clear", work["round"].target, node.done, TRUE)

\* The console's package comes from the release page, with the digest that stands there ...
Verifies ==
  /\ At("console", "fetch")
  /\ GoesOn("console", "unpack", work["console"].target, node.done, TRUE)
  /\ UNCHANGED disk

\* ... and holds the program and its credential.
Unpacks ==
  /\ At("console", "unpack")
  /\ Vouches(work["console"].target)
  /\ GoesOn("console", "clear", work["console"].target, node.done, TRUE)

\* A helper that has released the lock starts the node before a next update can be fetched.
Prompt == \A h \in Helpers : helper[h].pc \notin {"start", "restore", "rewrite"}

\* Staging: the marker goes first and comes last.
ClearsMarker(a) ==
  /\ At(a, "clear") /\ Prompt
  /\ Puts("marker", Nothing)
  /\ GoesOn(a, "publish", work[a].target, node.done, TRUE)

Publishes(a) ==
  /\ At(a, "publish")
  /\ Puts("pending", work[a].target)
  /\ GoesOn(a, "digest", work[a].target, node.done, TRUE)

\* What will be marked is the digest of the staged file as it is read back, not of the program
\* that was verified.
Digests(a) ==
  /\ At(a, "digest") /\ disk["pending"] # Nothing
  /\ work' = [work EXCEPT ![a] = [pc |-> "mark", target |-> disk["pending"]]]
  /\ UNCHANGED <<disk, node, boot, helper, broken>>

\* The staged program is marked: the gate stays closed until the node ends.
Marks(a) ==
  /\ At(a, "mark")
  /\ Puts("marker", work[a].target)
  /\ work' = [work EXCEPT ![a] = Idle]
  /\ UNCHANGED <<node, boot, helper, broken>>

\* A step of staging fails: the gate opens, the attempt of a round stays as it is.
StageFails(a) ==
  /\ \E c \in {"clear", "publish", "digest", "mark"} : At(a, c)
  /\ Puts("pending", IF work[a].pc \in {"digest", "mark"} THEN Nothing ELSE disk["pending"])
  /\ GoesOn(a, "idle", Nothing, node.done, FALSE)

Stage(a) == ClearsMarker(a) \/ Publishes(a) \/ Digests(a) \/ Marks(a) \/ StageFails(a)

-----------------------------------------------------------------------------
(* Restarting *)

\* It is time: some minutes after an update has landed, or when the user asks for it.  With a
\* marker the node leaves the stage to a helper; when none can be spawned it stays, and so does
\* its gate.
RestartByHelper ==
  /\ node.up /\ Marked /\ Executable
  /\ Spawns(node.calm) /\ Exits
  /\ UNCHANGED <<disk, boot, broken>>

\* Without one it starts itself again.
RestartPlain ==
  /\ node.up /\ ~Marked /\ boot = NoBoot
  /\ boot' = IF Executable THEN [run |-> disk["exe"], calm |-> node.calm] ELSE NoBoot
  /\ Exits
  /\ UNCHANGED <<disk, helper, broken>>

\* The user ends the program.
Quit ==
  /\ node.up /\ Exits
  /\ UNCHANGED <<disk, boot, helper, broken>>

\* The user applies a release, starts the node again or ends it; the routine that asks the
\* members for a release wakes up again and again.
UpdateRoutes == (\E v \in Programs : Click(v)) \/ RestartByHelper \/ RestartPlain \/ Quit
Loop         == (\E v \in Programs : Round(v)) \/ RoundEnters

-----------------------------------------------------------------------------
(* The update helper *)

\* A step of one helper that leaves everything but the files alone.
Helps(h, c, new) ==
  /\ helper' = [helper EXCEPT ![h] = [new EXCEPT !.pc = c]]
  /\ UNCHANGED <<node, work, boot, broken>>

In(h, c) == helper[h].pc = c

\* It looks for the marker, then for the lock, until it has both or has waited long enough.
FindsNoMarker(h) == In(h, "wait") /\ ~Marked /\ Helps(h, "start", helper[h]) /\ UNCHANGED disk
FindsMarker(h)   == In(h, "wait") /\ Marked /\ Helps(h, "seen", helper[h]) /\ UNCHANGED disk
TakesLock(h)         == In(h, "seen") /\ LockFree /\ Helps(h, "check", helper[h]) /\ UNCHANGED disk
Waits(h)         == In(h, "seen") /\ ~LockFree /\ Helps(h, "wait", helper[h]) /\ UNCHANGED disk
TimesOut(h)      == In(h, "seen") /\ ~LockFree /\ Helps(h, "start", helper[h]) /\ UNCHANGED disk

\* The marker is gone: look again.
FindsItGone(h) == In(h, "check") /\ ~Marked /\ Helps(h, "wait", helper[h]) /\ UNCHANGED disk

\* There is nothing behind the marker: both are dropped.
DropsMarker(h) ==
  /\ In(h, "check") /\ Marked /\ disk["pending"] = Nothing
  /\ disk' = [disk EXCEPT !["marker"] = Nothing]
  /\ Helps(h, "start", helper[h])

\* It is not the program that was marked: everything stays.
Mismatches(h) ==
  /\ In(h, "check") /\ Marked /\ disk["pending"] \notin {Nothing, disk["marker"]}
  /\ Helps(h, "start", helper[h]) /\ UNCHANGED disk

\* Mutant: The staged program is applied as it is.
BacksUpUnverified(h) ==
  /\ In(h, "check") /\ Marked /\ disk["pending"] # Nothing
  /\ Puts("rollback", disk["exe"])
  /\ Helps(h, "vacate", helper[h])

\* The executable is copied to the backup.
BacksUp(h) ==
  /\ In(h, "check") /\ Marked /\ disk["pending"] = disk["marker"]
  /\ Puts("rollback", disk["exe"])
  /\ Helps(h, "vacate", helper[h])

BackupFails(h) ==
  /\ In(h, "check") /\ Marked /\ disk["pending"] = disk["marker"]
  /\ Helps(h, "start", helper[h]) /\ UNCHANGED disk

\* replaceLockedBinary: the executable is moved to .old, and the new one is written to its place.
Vacates(h) ==
  /\ In(h, "vacate") /\ disk["exe"] # Nothing
  /\ disk' = [disk EXCEPT !["old"] = disk["exe"], !["exe"] = Nothing]
  /\ Helps(h, "write", helper[h])

Writes(h) ==
  /\ In(h, "write")
  /\ Puts("exe", disk[helper[h].from])
  /\ Helps(h, IF helper[h].from = "pending" THEN "unmark" ELSE "start", helper[h])

\* It cannot be moved, or not written and is moved back.  The backup made for this is removed.
ReplaceFails(h) ==
  /\ helper[h].from = "pending" /\ (In(h, "vacate") \/ In(h, "write"))
  /\ disk' = IF In(h, "write")
             THEN [disk EXCEPT !["exe"] = disk["old"], !["old"] = Nothing, !["rollback"] = Nothing]
             ELSE [disk EXCEPT !["rollback"] = Nothing]
  /\ Helps(h, "start", helper[h])

\* The marker and the staged file are removed, and the lock is released.
Unmarks(h) ==
  /\ In(h, "unmark")
  /\ Puts("marker", Nothing)
  /\ Helps(h, "sweep", [helper[h] EXCEPT !.changed = TRUE])

\* The marker cannot be removed: the backup is put back.
UnmarkFails(h) ==
  /\ In(h, "unmark")
  /\ Helps(h, "vacate", [helper[h] EXCEPT !.from = "rollback"]) /\ UNCHANGED disk

Sweeps(h) ==
  /\ In(h, "sweep")
  /\ Puts("pending", Nothing)
  /\ Helps(h, "start", helper[h])

\* Mutant: The node is not told that the helper has already tried.
StartsUntold(h) ==
  /\ In(h, "start") /\ Executable /\ boot = NoBoot
  /\ boot' = [run |-> disk["exe"], calm |-> helper[h].calm]
  /\ helper' = [helper EXCEPT ![h] = NoHelper]
  /\ UNCHANGED <<disk, node, work, broken>>

\* The node is told not to try again if nothing was changed, or if its helper had been told so.
NodeStartEnv(h) == helper[h].calm \/ ~helper[h].changed

\* It starts the node.
StartsProgram(h) ==
  /\ In(h, "start") /\ Executable /\ boot = NoBoot
  /\ boot' = [run |-> disk["exe"], calm |-> NodeStartEnv(h)]
  /\ helper' = [helper EXCEPT ![h] = NoHelper]
  /\ UNCHANGED <<disk, node, work, broken>>

\* The new program does not start: the backup is put back, once.
StartFails(h) ==
  /\ In(h, "start") /\ ~Executable
  /\ IF helper[h].changed /\ helper[h].from = "pending"
     THEN Helps(h, "restore", [helper[h] EXCEPT !.from = "rollback"])
     ELSE Helps(h, "none", NoHelper)
  /\ UNCHANGED disk

\* This time without the lock.
Restores(h) ==
  /\ In(h, "restore")
  /\ disk["rollback"] # Nothing
  /\ disk' = [disk EXCEPT !["old"] = disk["exe"], !["exe"] = Nothing]
  /\ Helps(h, "rewrite", helper[h])

Rewrites(h) ==
  /\ In(h, "rewrite")
  /\ Puts("exe", disk["rollback"])
  /\ Helps(h, "start", helper[h])

Apply(h) ==
  \/ FindsItGone(h) \/ DropsMarker(h) \/ Mismatches(h) \/ BacksUp(h) \/ BackupFails(h)
  \/ Vacates(h) \/ Writes(h) \/ ReplaceFails(h) \/ Unmarks(h) \/ UnmarkFails(h) \/ Sweeps(h)

Help(h) ==
  \/ FindsNoMarker(h) \/ FindsMarker(h) \/ TakesLock(h) \/ Waits(h) \/ TimesOut(h) \/ Apply(h)
  \/ StartsProgram(h) \/ StartFails(h) \/ Restores(h) \/ Rewrites(h)

-----------------------------------------------------------------------------

\* The staged program is removed or damaged from outside, while nobody applies it, whether or not
\* its digest has been taken.
Spoils ==
  /\ disk["pending"] # Nothing /\ \A h \in Helpers : helper[h].pc \in {"none", "wait", "seen"}
  /\ \E d \in {Nothing, IF \E a \in Actors : work[a].pc = "digest"
                        THEN Altered(Version(disk["pending"])) ELSE Damaged} : Puts("pending", d)
  /\ UNCHANGED <<node, work, boot, helper, broken>>

\* The power fails: only the files are left.
Crash ==
  /\ boot' = NoBoot /\ helper' = [h \in Helpers |-> NoHelper] /\ Exits
  /\ UNCHANGED <<disk, broken>>

UpdateNext ==
  \/ Launch \/ HandsOver \/ ComesUp \/ Refused
  \/ Loop \/ UpdateRoutes
  \/ Downloads \/ Verifies \/ Unpacks
  \/ \E a \in Actors : FetchFails(a) \/ Stage(a)
  \/ \E h \in Helpers : Help(h)
  \/ Spoils \/ Crash

UpdateSpec == UpdateInit /\ [][UpdateNext]_updateVars

\* Processes that run go on, and somebody starts the program when nothing of it runs.  A process
\* that has no marker to hand over, or was told not to, gets the lock if it finds it free again
\* and again; one that has a marker hands over, and becomes the node only where it never can.
Gone    == ~node.up /\ boot = NoBoot /\ \A h \in Helpers : helper[h] = NoHelper
Alone   == Gone /\ Launch
Settles == (boot.calm \/ ~Marked) /\ ComesUp
Stranded == (~Executable \/ \A h \in Helpers : helper[h].pc # "none") /\ ComesUp

FairUpdateSpec ==
  /\ UpdateSpec
  /\ WF_updateVars(Alone) /\ WF_updateVars(HandsOver) /\ WF_updateVars(Refused)
  /\ SF_updateVars(Settles) /\ WF_updateVars(Stranded)
  /\ \A h \in Helpers : WF_updateVars(Help(h))

-----------------------------------------------------------------------------
(* Properties *)

\* The types; an actor works only in a running node, with the gate closed once it has begun.
TypeOK ==
  /\ disk \in [Paths -> Nothing .. Damaged]
  /\ node.run \in {Nothing} \union Installable /\ (node.up <=> node.run # Nothing)
  /\ \A a \in Actors : work[a] # Idle => node.up /\ (work[a].pc # "begun" => node.gate)
  /\ boot.run \in {Nothing} \union Installable

\* Whatever fails, and whenever the power does: a program that can be executed is in place, in
\* the backup or beside it, and nothing that was damaged after its digest was taken is.  (Damage
\* between the publication of the staged file and that reading is not noticed.)
NothingLost ==
  /\ \E f \in {"exe", "old", "rollback"} : disk[f] \notin broken \union {Nothing}
  /\ \A f \in {"exe", "old", "rollback"} : disk[f] # Damaged

\* A node hands out the program it has in place.  Only a helper that puts the backup back,
\* because it could not start the new program, changes that program under a node that another
\* process has started meanwhile.
OffersItself ==
  node.self \notin {Nothing, disk["exe"]} =>
    disk["exe"] = disk["rollback"] \/ \E h \in Helpers : helper[h].pc = "rewrite"

\* Once an update has landed nothing touches its marker, and no other update begins, until the
\* node ends.
Landed       == node.up /\ node.gate /\ \A a \in Actors : work[a].pc \in {"idle", "begun"}
LandedIsKept == [][Landed /\ node'.up => Landed' /\ disk'["marker"] = disk["marker"]]_updateVars

\* After every restart, failure or crash the node comes up again, with the old or the new
\* program, unless the program in place cannot be executed and has to be put back by hand, or
\* there is no end of power failures and of second copies that somebody starts.
Disturbs  == Crash \/ (Launch /\ ~Gone)
ComesBack == []<>(node.up \/ (Gone /\ ~Executable)) \/ []<><<Disturbs>>_updateVars

\* A round that is over and has staged nothing does not keep its target from being tried again.
MayTryAgain ==
  node.up /\ ~node.gate /\ work["round"] = Idle => \A v \in Programs : v \notin node.done

=============================================================================
