----------------------------- MODULE AgentProofs -----------------------------
(***************************************************************************)
(* Theorems about the process of a node: how it replaces its own program   *)
(* (SelfUpdate), and how it keeps its listeners in line (ClientNode).      *)
(***************************************************************************)
EXTENDS SelfUpdate, ClientNode, TLAPS

-----------------------------------------------------------------------------
(* Self-update *)

Locked == {"check", "vacate", "write", "unmark", "sweep"}
Good(v) == v \in Installable \ broken

WorkPlaces   == {"idle", "begun", "fetch", "unpack", "clear", "publish", "digest", "mark"}
HelperPlaces == Locked \union {"none", "wait", "seen", "start", "restore", "rewrite"}

HelperRecords == [pc : HelperPlaces, from : {"pending", "rollback"}, calm : BOOLEAN, changed : BOOLEAN]
Values        == Nothing .. Damaged

\* Every variable has its type.
UpdateTypes ==
  /\ disk \in [Paths -> Values]
  /\ node \in [up : BOOLEAN, run : Values, self : Values, calm : BOOLEAN, gate : BOOLEAN,
               done : SUBSET Programs]
  /\ work \in [Actors -> [pc : WorkPlaces, target : Values]]
  /\ boot \in [run : Values, calm : BOOLEAN]
  /\ helper \in [Helpers -> HelperRecords]
  /\ broken \in SUBSET Installable /\ 1 \notin broken

\* The lock is held by the node or by one helper.
OneOwner ==
  \A h \in Helpers : helper[h].pc \in Locked =>
    ~node.up /\ \A k \in Helpers : helper[k].pc \in Locked => k = h

\* Who runs has a program, and an actor that has begun works for a running node, alone once it
\* has the gate.
Owners ==
  /\ (node.up <=> node.run # Nothing) /\ (~node.up => node = NoNode)
  /\ boot.run = Nothing => boot = NoBoot
  /\ \A a \in Actors :
       /\ work[a].pc = "idle" => work[a] = Idle
       /\ work[a].pc # "idle" =>
            node.up /\ work[a].target \in IF work[a].pc = "mark" THEN Installable ELSE Programs
       /\ work[a].pc \notin {"idle", "begun"} =>
            node.gate /\ \A b \in Actors : work[b].pc \notin {"idle", "begun"} => a = b

\* Where a helper that has changed something, or that puts back the backup, can be.
Steps(h) ==
  /\ helper[h].changed => helper[h].pc \in {"sweep", "start", "restore", "rewrite"}
  /\ helper[h].pc \in {"sweep", "restore", "rewrite"} => helper[h].changed
  /\ helper[h].from = "rollback" =>
       helper[h].pc \in {"vacate", "write", "start", "restore", "rewrite"}
  /\ helper[h].pc \in {"restore", "rewrite"} => helper[h].from = "rollback"

\* A helper that has changed something has taken the marker away, nobody puts another one there
\* before it is done, and no other helper applies anything.
OnlyOne(h) ==
  helper[h].changed =>
    /\ disk["marker"] = Nothing
    /\ \A a \in Actors : work[a].pc \notin {"publish", "digest", "mark"}
    /\ \A k \in Helpers \ {h} :
         ~helper[k].changed /\ helper[k].pc \notin {"vacate", "write", "unmark", "sweep"}

\* What a helper finds in the files where it is.
Contents(h) ==
  /\ helper[h].pc = "vacate" /\ helper[h].from = "pending" =>
       /\ Good(disk["exe"]) /\ Good(disk["rollback"])
       /\ disk["pending"] = disk["marker"] /\ disk["marker"] # Nothing
  /\ helper[h].pc = "write" /\ helper[h].from = "pending" =>
       /\ Good(disk["old"]) /\ Good(disk["rollback"])
       /\ disk["pending"] = disk["marker"] /\ disk["marker"] # Nothing
  /\ helper[h].pc \in {"unmark", "sweep", "restore", "rewrite"} => Good(disk["rollback"])
  /\ helper[h].pc \in {"vacate", "write"} /\ helper[h].from = "rollback" => Good(disk["rollback"])
  /\ helper[h].pc = "start" /\ helper[h].changed =>
       Good(disk[IF helper[h].from = "pending" THEN "rollback" ELSE "exe"])

Mends(h) ==
  \/ helper[h].pc \in {"write", "unmark"} \/ helper[h].changed
  \/ helper[h].pc = "vacate" /\ helper[h].from = "rollback"

\* As long as anything of the program runs, the one in place can be executed, or a helper has it
\* in hand.
InHand ==
  (node.up \/ boot # NoBoot \/ \E h \in Helpers : helper[h].pc # "none") =>
    Good(disk["exe"]) \/ \E h \in Helpers : Mends(h)

\* No program that was damaged after its digest was taken runs or is marked.
Sound ==
  /\ Damaged \notin {disk["marker"], boot.run, node.run}
  /\ \A a \in Actors : work[a].pc = "digest" => disk["pending"] # Damaged

UpdateInv ==
  /\ UpdateTypes /\ OneOwner /\ Owners
  /\ \A h \in Helpers : Steps(h) /\ OnlyOne(h) /\ Contents(h)
  /\ InHand /\ Sound /\ NothingLost /\ OffersItself

LEMMA Numbers ==
  /\ Programs \subseteq Values /\ {Nothing, Damaged, Shipped, 1} \subseteq Values /\ Nothing # Damaged
  /\ Programs \subseteq Installable /\ Values \ {Nothing, Damaged} = Installable /\ 1 \in Programs
BY UpdateAssumption DEF Programs, Values, Nothing, Damaged, Installable, Alterations, Altered

\* What was altered can be installed, and is not what is damaged later.
LEMMA Alters == ASSUME NEW v \in Installable PROVE Altered(Version(v)) \in Installable
<1>1. Version(v) \in Programs
  BY UpdateAssumption DEF Version, Installable, Alterations, Altered, Programs
<1> QED
  BY <1>1 DEF Installable, Alterations

LEMMA SetTyped ==
  ASSUME UpdateTypes, NEW f \in Paths, NEW v \in Values, Puts(f, v) PROVE disk' \in [Paths -> Values]
BY DEF UpdateTypes, Puts

LEMMA WorksTyped ==
  ASSUME UpdateTypes, NEW a \in Actors, NEW c \in WorkPlaces, NEW t \in Values, NEW done \in SUBSET Programs,
         NEW gate \in BOOLEAN, GoesOn(a, c, t, done, gate), disk' \in [Paths -> Values]
  PROVE  UpdateTypes'
BY Numbers DEF UpdateTypes, GoesOn, Idle, WorkPlaces

LEMMA HelpsTyped ==
  ASSUME UpdateTypes, NEW h \in Helpers, NEW c \in HelperPlaces,
         NEW new \in HelperRecords, Helps(h, c, new), disk' \in [Paths -> Values]
  PROVE  UpdateTypes'
BY Numbers DEF UpdateTypes, Helps, HelperRecords

LEMMA SpawnsTyped ==
  ASSUME UpdateTypes, NEW calm \in BOOLEAN, Spawns(calm)
  PROVE  helper' \in [Helpers -> HelperRecords]
<1> DEFINE new == [NoHelper EXCEPT !.pc = "wait", !.calm = calm]
<1>1. new \in HelperRecords
  BY DEF NoHelper, HelperRecords, HelperPlaces
<1> HIDE DEF new
<1> QED
  BY <1>1 DEF Spawns, new, UpdateTypes

LEMMA Typed == ASSUME UpdateTypes, Sound, [UpdateNext]_updateVars PROVE UpdateTypes'
<1> USE Numbers
<1>0. /\ NoHelper \in HelperRecords /\ HelperPlaces =
              {"check", "vacate", "write", "unmark", "sweep"} \union {"none", "wait", "seen", "start", "restore", "rewrite"}
      /\ helper \in [Helpers -> HelperRecords]
      /\ \A h \in Helpers : helper[h] \in HelperRecords
      /\ {"exe", "old", "rollback", "pending", "marker", "credential"} = Paths
      /\ Idle \in [pc : WorkPlaces, target : Values] /\ NoBoot \in [run : Values, calm : BOOLEAN]
      /\ NoNode \in [up : BOOLEAN, run : Values, self : Values, calm : BOOLEAN, gate : BOOLEAN,
               done : SUBSET Programs]
      /\ disk \in [Paths -> Values]
  BY DEF NoHelper, HelperRecords, Locked, HelperPlaces, UpdateTypes, Paths, Idle, WorkPlaces, NoBoot, NoNode
<1>1. CASE Launch
  BY <1>0, <1>1 DEF Launch, UpdateTypes
<1>2. CASE HandsOver
  <2>1. boot.calm \in BOOLEAN
    BY DEF UpdateTypes
  <2> QED
    BY <2>1, <1>0, <1>2, SpawnsTyped DEF HandsOver, UpdateTypes
<1>3. CASE ComesUp
  BY <1>0, <1>3 DEF ComesUp, SelfHead, Credentials, CleansUp, Puts, UpdateTypes
<1>4. CASE Refused
  BY <1>0, <1>4 DEF Refused, UpdateTypes
<1>5. CASE Loop
  BY <1>5, WorksTyped DEF Loop, Round, RoundEnters, UpdateTypes, Actors, WorkPlaces
<1>6. CASE UpdateRoutes
  <2>1. ASSUME NEW v \in Programs, Click(v) PROVE UpdateTypes'
    BY <2>1, WorksTyped DEF Click, UpdateTypes, Actors, WorkPlaces
  <2>2. CASE RestartByHelper
    <3>1. node.calm \in BOOLEAN
      BY DEF UpdateTypes
    <3> QED
      BY <3>1, <1>0, <2>2, SpawnsTyped DEF RestartByHelper, Exits, UpdateTypes
  <2>3. CASE RestartPlain
    BY <1>0, <2>3 DEF RestartPlain, Exits, UpdateTypes
  <2>4. CASE Quit
    BY <1>0, <2>4 DEF Quit, Exits, UpdateTypes
  <2> QED
    BY <1>6, <2>1, <2>2, <2>3, <2>4 DEF UpdateRoutes
<1>7. CASE Downloads \/ Verifies \/ Unpacks
  <2>1. \A a \in Actors : work[a].target \in Values /\ node.done \in SUBSET Programs
    BY DEF UpdateTypes
  <2>2. ASSUME NEW v \in Values, Vouches(v) PROVE disk' \in [Paths -> Values]
    BY <1>0, <2>2, SetTyped DEF Vouches
  <2> QED
    BY <1>7, <1>0, <2>1, <2>2, WorksTyped DEF Downloads, Verifies, Unpacks, WorkPlaces, Actors
<1>8. ASSUME NEW a \in Actors, FetchFails(a) \/ Stage(a) PROVE UpdateTypes'
  <2>1. work[a].target \in Values /\ node.done \in SUBSET Programs
    BY DEF UpdateTypes
  <2>2. CASE FetchFails(a)
    BY <2>1, <2>2, <1>0, WorksTyped DEF FetchFails, WorkPlaces
  <2>3. CASE ClearsMarker(a) \/ Publishes(a) \/ StageFails(a)
    <3>1. disk' \in [Paths -> Values]
      BY <2>1, <2>3, <1>0, SetTyped DEF ClearsMarker, Publishes, StageFails
    <3> QED
      BY <2>1, <2>3, <3>1, WorksTyped DEF ClearsMarker, Publishes, StageFails, WorkPlaces
  <2>4. CASE Digests(a)
    BY <2>1, <2>4, <1>0 DEF Digests, UpdateTypes, Paths, WorkPlaces
  <2>5. CASE Marks(a)
    BY <2>1, <2>5, <1>0, SetTyped DEF Marks, UpdateTypes
  <2> QED
    BY <1>8, <2>2, <2>3, <2>4, <2>5 DEF Stage
<1>9. ASSUME NEW h \in Helpers, Help(h) PROVE UpdateTypes'
  <2> DEFINE r == helper[h]
  <2>1. r \in HelperRecords /\ [r EXCEPT !.changed = TRUE] \in HelperRecords
        /\ [r EXCEPT !.from = "rollback"] \in HelperRecords
    BY <1>0 DEF HelperRecords
  <2>2. CASE FindsNoMarker(h) \/ FindsMarker(h) \/ TakesLock(h) \/ Waits(h) \/ TimesOut(h)
    BY <1>0, <2>1, <2>2, HelpsTyped DEF FindsNoMarker, FindsMarker, TakesLock, Waits, TimesOut
  <2>3. CASE Apply(h)
    <3>1. disk' \in [Paths -> Values]
      BY <1>0, <2>3, SetTyped DEF Apply, FindsItGone, DropsMarker, Mismatches, BacksUp, BackupFails, Vacates,
        Writes, ReplaceFails, Unmarks, UnmarkFails, Sweeps, Puts, HelperRecords
    <3> HIDE DEF r
    <3> QED
      BY <1>0, <2>1, <2>3, <3>1, HelpsTyped DEF r, Apply, FindsItGone, DropsMarker, Mismatches, BacksUp,
        BackupFails, Vacates, Writes, ReplaceFails, Unmarks, UnmarkFails, Sweeps
  <2>4. CASE StartsProgram(h)
    <3>1. boot' \in [run : Values, calm : BOOLEAN]
      BY <1>0, <2>4 DEF StartsProgram, NodeStartEnv, UpdateTypes, HelperRecords
    <3> QED
      BY <1>0, <2>4, <3>1 DEF StartsProgram, UpdateTypes
  <2>5. CASE StartFails(h) \/ Restores(h) \/ Rewrites(h)
    <3>1. disk' \in [Paths -> Values]
      BY <1>0, <2>5, SetTyped DEF StartFails, Restores, Rewrites
    <3> QED
      BY <1>0, <2>1, <2>5, <3>1, HelpsTyped DEF StartFails, Restores, Rewrites
  <2> QED
    BY <1>9, <2>2, <2>3, <2>4, <2>5 DEF Help
<1>10. CASE Spoils
  <2>1. PICK d : /\ Puts("pending", d)
                 /\ d \in {Nothing, Damaged} \/ (d = Altered(Version(disk["pending"])) /\ disk["pending"] # Damaged)
    BY <1>10 DEF Spoils, Sound
  <2>2. disk["pending"] \in Values \ {Nothing}
    BY <1>0, <1>10 DEF Spoils
  <2>3. d \in Values
    BY <2>1, <2>2, Alters
  <2> QED
    BY <1>0, <1>10, <2>1, <2>3, SetTyped DEF Spoils, UpdateTypes
<1>11. CASE Crash
  BY <1>0, <1>11 DEF Crash, Exits, UpdateTypes
<1>12. CASE UNCHANGED updateVars
  BY <1>12 DEF updateVars, UpdateTypes
<1> QED
  BY <1>1, <1>2, <1>3, <1>4, <1>5, <1>6, <1>7, <1>8, <1>9, <1>10, <1>11, <1>12 DEF UpdateNext

LEMMA Moves ==
  ASSUME UpdateTypes, NEW h \in Helpers, NEW c \in HelperPlaces, NEW new \in HelperRecords, Helps(h, c, new)
  PROVE  /\ helper'[h].pc = c /\ helper'[h].from = new.from /\ helper'[h].changed = new.changed
         /\ \A k \in Helpers \ {h} : helper'[k] = helper[k]
         /\ node' = node /\ work' = work /\ boot' = boot /\ broken' = broken
BY DEF UpdateTypes, Helps, HelperRecords

LEMMA OthersKept ==
  ASSUME UpdateInv, NEW h \in Helpers,
         \A k \in Helpers \ {h} : helper'[k] = helper[k],
         node' = node, work' = work, broken' = broken,
         boot' = boot \/ boot'.run # Nothing,
         helper'[h].pc \in Locked => helper[h].pc \in Locked \/ LockFree,
         helper'[h].pc \in {"vacate", "write", "unmark", "sweep"} =>
           helper[h].pc \in {"vacate", "write", "unmark", "sweep"} \/ disk["marker"] # Nothing,
         helper'[h].changed => helper[h].changed \/ helper[h].pc = "unmark",
         disk'["marker"] \in {Nothing, disk["marker"]},
         \/ \A f \in {"exe", "old", "rollback", "pending", "marker"} : disk'[f] = disk[f]
         \/ helper[h].changed
         \/ helper[h].pc \in Locked /\ disk'["exe"] = disk["exe"] /\ disk'["rollback"] = disk["rollback"]
         \/ helper[h].pc \in Locked /\ disk["marker"] # Nothing
         \/ helper[h].pc \in {"vacate", "write", "unmark", "sweep"}
  PROVE  OneOwner' /\ Owners' /\ \A k \in Helpers \ {h} : Steps(k)' /\ OnlyOne(k)' /\ Contents(k)'
<1> USE DEF UpdateInv, Locked
<1>1. OneOwner' /\ Owners'
  BY DEF OneOwner, LockFree, Owners
<1>2. ASSUME NEW k \in Helpers \ {h} PROVE Steps(k)' /\ OnlyOne(k)' /\ Contents(k)'
  <2>1. Steps(k) /\ OnlyOne(k) /\ Contents(k) /\ OnlyOne(h)
    OBVIOUS
  <2>2. Steps(k)'
    BY <2>1 DEF Steps
  <2>3. OnlyOne(k)'
    BY <2>1 DEF Steps, OnlyOne, OneOwner
  <2>4. Contents(k)'
    BY <2>1 DEF Contents, Good, OnlyOne, Steps, OneOwner
  <2> QED
    BY <2>2, <2>3, <2>4
<1> QED
  BY <1>1, <1>2

LEMMA HelpKeeps ==
  ASSUME UpdateInv, NEW h \in Helpers, Help(h) PROVE UpdateInv'
<1> DEFINE r    == helper[h]
           told == [r EXCEPT !.changed = TRUE]
           back == [r EXCEPT !.from = "rollback"]
<1>0. /\ {r, told, back, NoHelper} \subseteq HelperRecords
      /\ r.pc \in HelperPlaces /\ r.from \in {"pending", "rollback"} /\ r.changed \in BOOLEAN
      /\ {"exe", "old", "rollback", "pending", "marker", "credential"} = Paths
      /\ disk \in [Paths -> Values]
      /\ told.changed = TRUE /\ told.from = r.from
      /\ back.changed = r.changed /\ back.from = "rollback"
      /\ NoHelper.from = "pending" /\ NoHelper.changed = FALSE
  <2>1. /\ r \in HelperRecords
        /\ {"exe", "old", "rollback", "pending", "marker", "credential"} = Paths
        /\ disk \in [Paths -> Values]
    BY DEF UpdateInv, UpdateTypes, Paths
  <2> HIDE DEF r
  <2>2. NoHelper \in HelperRecords /\ NoHelper.from = "pending" /\ NoHelper.changed = FALSE
    BY DEF NoHelper, HelperRecords, HelperPlaces, Locked
  <2>3. r.pc \in HelperPlaces /\ r.from \in {"pending", "rollback"} /\ r.changed \in BOOLEAN
    BY <2>1 DEF HelperRecords
  <2>4. told \in HelperRecords /\ told.changed = TRUE /\ told.from = r.from
    BY <2>1 DEF HelperRecords
  <2>5. back \in HelperRecords /\ back.changed = r.changed /\ back.from = "rollback"
    BY <2>1 DEF HelperRecords
  <2> QED
    BY <2>1, <2>2, <2>3, <2>4, <2>5
<1>1. UpdateTypes'
  BY Typed DEF UpdateInv, UpdateNext
<1>2. Steps(h) /\ OnlyOne(h) /\ Contents(h)
  BY DEF UpdateInv
<1> HIDE DEF r, told, back
<1>3. CASE FindsNoMarker(h) \/ FindsMarker(h) \/ TakesLock(h) \/ Waits(h) \/ TimesOut(h)
  <2>1. PICK c \in {"start", "seen", "check", "wait"} :
        Helps(h, c, r) /\ r.pc \in {"wait", "seen"} /\ (c = "check" => LockFree)
    BY <1>3, <1>0 DEF FindsNoMarker, FindsMarker, TakesLock, Waits, TimesOut, r, told, back, In, Marked, Executable
  <2>2. disk' = disk
    BY <1>3, <1>0 DEF FindsNoMarker, FindsMarker, TakesLock, Waits, TimesOut, r, Puts, In, Paths
  <2>3. /\ helper'[h].pc = c /\ helper'[h].from = r.from /\ helper'[h].changed = r.changed
        /\ \A k \in Helpers \ {h} : helper'[k] = helper[k]
        /\ node' = node /\ work' = work /\ boot' = boot /\ broken' = broken
    BY <1>0, <2>1, Moves DEF UpdateInv, HelperPlaces, Locked
  <2>4. OneOwner' /\ Owners' /\ \A k \in Helpers \ {h} : Steps(k)' /\ OnlyOne(k)' /\ Contents(k)'
    BY <1>0, <1>1, <1>2, <2>1, <2>2, <2>3, OthersKept DEF r, Locked, Steps
  <2> USE <1>0, <1>1, <1>2, <2>1, <2>2, <2>3, <2>4, Numbers DEF UpdateInv, r, Locked
  <2>5. Steps(h)' /\ OnlyOne(h)' /\ Contents(h)'
    BY DEF Steps, OnlyOne, Contents, Good, InHand, Mends, OneOwner, Owners, Sound, NothingLost
  <2>6. InHand' /\ Sound' /\ NothingLost'
    BY <2>5 DEF InHand, Mends, Good, Steps, Contents, Sound, NothingLost, OneOwner
  <2>7. OffersItself'
    BY DEF OffersItself, OneOwner, Owners, NoNode, OnlyOne, Steps
  <2> QED
    BY <2>5, <2>6, <2>7
<1>4. CASE FindsItGone(h) \/ Mismatches(h) \/ BackupFails(h)
  <2>1. PICK c \in {"start", "wait"} : Helps(h, c, r) /\ r.pc = "check"
    BY <1>4, <1>0 DEF FindsItGone, Mismatches, BackupFails, r, told, back, In, Marked, Executable
  <2>2. disk' = disk
    BY <1>4, <1>0 DEF FindsItGone, Mismatches, BackupFails, r, Puts, In, Paths
  <2>3. /\ helper'[h].pc = c /\ helper'[h].from = r.from /\ helper'[h].changed = r.changed
        /\ \A k \in Helpers \ {h} : helper'[k] = helper[k]
        /\ node' = node /\ work' = work /\ boot' = boot /\ broken' = broken
    BY <1>0, <2>1, Moves DEF UpdateInv, HelperPlaces, Locked
  <2>4. OneOwner' /\ Owners' /\ \A k \in Helpers \ {h} : Steps(k)' /\ OnlyOne(k)' /\ Contents(k)'
    BY <1>0, <1>1, <1>2, <2>1, <2>2, <2>3, OthersKept DEF r, Locked, Steps
  <2> USE <1>0, <1>1, <1>2, <2>1, <2>2, <2>3, <2>4, Numbers DEF UpdateInv, r, Locked
  <2>5. Steps(h)' /\ OnlyOne(h)' /\ Contents(h)'
    BY DEF Steps, OnlyOne, Contents, Good, InHand, Mends, OneOwner, Owners, Sound, NothingLost
  <2>6. InHand' /\ Sound' /\ NothingLost'
    BY <2>5 DEF InHand, Mends, Good, Steps, Contents, Sound, NothingLost, OneOwner
  <2>7. OffersItself'
    BY DEF OffersItself, OneOwner, Owners, NoNode, OnlyOne, Steps
  <2> QED
    BY <2>5, <2>6, <2>7
<1>5. CASE DropsMarker(h)
  <2>1. Helps(h, "start", r) /\ r.pc = "check"
    BY <1>5, <1>0 DEF DropsMarker, r, told, back, In, Marked, Executable
  <2>2. /\ disk'["marker"] = Nothing /\ disk'["exe"] = disk["exe"]
        /\ disk'["old"] = disk["old"] /\ disk'["rollback"] = disk["rollback"]
        /\ disk'["pending"] = disk["pending"]
    BY <1>5, <1>0 DEF DropsMarker, r, Puts, In, Paths
  <2>3. /\ helper'[h].pc = "start" /\ helper'[h].from = r.from /\ helper'[h].changed = r.changed
        /\ \A k \in Helpers \ {h} : helper'[k] = helper[k]
        /\ node' = node /\ work' = work /\ boot' = boot /\ broken' = broken
    BY <1>0, <2>1, Moves DEF UpdateInv, HelperPlaces, Locked
  <2>4. OneOwner' /\ Owners' /\ \A k \in Helpers \ {h} : Steps(k)' /\ OnlyOne(k)' /\ Contents(k)'
    BY <1>0, <1>1, <1>2, <2>1, <2>2, <2>3, OthersKept DEF r, Locked, Steps
  <2> USE <1>0, <1>1, <1>2, <2>1, <2>2, <2>3, <2>4, Numbers DEF UpdateInv, r, Locked
  <2>5. Steps(h)' /\ OnlyOne(h)' /\ Contents(h)'
    BY DEF Steps, OnlyOne, Contents, Good, InHand, Mends, OneOwner, Owners, Sound, NothingLost
  <2>6. InHand' /\ Sound' /\ NothingLost'
    BY <2>5 DEF InHand, Mends, Good, Steps, Contents, Sound, NothingLost, OneOwner
  <2>7. OffersItself'
    BY DEF OffersItself, OneOwner, Owners, NoNode, OnlyOne, Steps
  <2> QED
    BY <2>5, <2>6, <2>7
<1>6. CASE BacksUp(h)
  <2>1. Helps(h, "vacate", r) /\ r.pc = "check" /\ disk["marker"] # Nothing /\ disk["pending"] = disk["marker"]
    BY <1>6, <1>0 DEF BacksUp, r, told, back, In, Marked, Executable
  <2>2. /\ disk'["rollback"] = disk["exe"] /\ disk'["exe"] = disk["exe"]
        /\ disk'["old"] = disk["old"] /\ disk'["pending"] = disk["pending"]
        /\ disk'["marker"] = disk["marker"]
    BY <1>6, <1>0 DEF BacksUp, r, Puts, In, Paths
  <2>3. /\ helper'[h].pc = "vacate" /\ helper'[h].from = r.from /\ helper'[h].changed = r.changed
        /\ \A k \in Helpers \ {h} : helper'[k] = helper[k]
        /\ node' = node /\ work' = work /\ boot' = boot /\ broken' = broken
    BY <1>0, <2>1, Moves DEF UpdateInv, HelperPlaces, Locked
  <2>4. OneOwner' /\ Owners' /\ \A k \in Helpers \ {h} : Steps(k)' /\ OnlyOne(k)' /\ Contents(k)'
    BY <1>0, <1>1, <1>2, <2>1, <2>2, <2>3, OthersKept DEF r, Locked, Steps
  <2> USE <1>0, <1>1, <1>2, <2>1, <2>2, <2>3, <2>4, Numbers DEF UpdateInv, r, Locked
  <2>5. Steps(h)' /\ OnlyOne(h)' /\ Contents(h)'
    BY DEF Steps, OnlyOne, Contents, Good, InHand, Mends, OneOwner, Owners, Sound, NothingLost
  <2>6. InHand' /\ Sound' /\ NothingLost'
    BY <2>5 DEF InHand, Mends, Good, Steps, Contents, Sound, NothingLost, OneOwner
  <2>7. OffersItself'
    BY DEF OffersItself, OneOwner, Owners, NoNode, OnlyOne, Steps
  <2> QED
    BY <2>5, <2>6, <2>7
<1>7. CASE Vacates(h)
  <2>1. Helps(h, "write", r) /\ r.pc = "vacate" /\ disk["exe"] # Nothing
    BY <1>7, <1>0 DEF Vacates, r, told, back, In, Marked, Executable
  <2>2. /\ disk'["old"] = disk["exe"] /\ disk'["exe"] = Nothing
        /\ disk'["rollback"] = disk["rollback"] /\ disk'["pending"] = disk["pending"]
        /\ disk'["marker"] = disk["marker"]
    BY <1>7, <1>0 DEF Vacates, r, Puts, In, Paths
  <2>3. /\ helper'[h].pc = "write" /\ helper'[h].from = r.from /\ helper'[h].changed = r.changed
        /\ \A k \in Helpers \ {h} : helper'[k] = helper[k]
        /\ node' = node /\ work' = work /\ boot' = boot /\ broken' = broken
    BY <1>0, <2>1, Moves DEF UpdateInv, HelperPlaces, Locked
  <2>4. OneOwner' /\ Owners' /\ \A k \in Helpers \ {h} : Steps(k)' /\ OnlyOne(k)' /\ Contents(k)'
    BY <1>0, <1>1, <1>2, <2>1, <2>2, <2>3, OthersKept DEF r, Locked, Steps
  <2> USE <1>0, <1>1, <1>2, <2>1, <2>2, <2>3, <2>4, Numbers DEF UpdateInv, r, Locked
  <2>5. Steps(h)' /\ OnlyOne(h)' /\ Contents(h)'
    BY DEF Steps, OnlyOne, Contents, Good, InHand, Mends, OneOwner, Owners, Sound, NothingLost
  <2>6. InHand' /\ Sound' /\ NothingLost'
    BY <2>5 DEF InHand, Mends, Good, Steps, Contents, Sound, NothingLost, OneOwner
  <2>7. OffersItself'
    BY DEF OffersItself, OneOwner, Owners, NoNode, OnlyOne, Steps
  <2> QED
    BY <2>5, <2>6, <2>7
<1>8. CASE Writes(h) /\ r.from = "pending"
  <2>1. Helps(h, "unmark", r) /\ r.pc = "write" /\ r.from = "pending"
    BY <1>8, <1>0 DEF Writes, r, told, back, In, Marked, Executable
  <2>2. /\ disk'["exe"] = disk["pending"] /\ disk'["old"] = disk["old"]
        /\ disk'["rollback"] = disk["rollback"] /\ disk'["pending"] = disk["pending"]
        /\ disk'["marker"] = disk["marker"]
    BY <1>8, <1>0 DEF Writes, r, Puts, In, Paths
  <2>3. /\ helper'[h].pc = "unmark" /\ helper'[h].from = r.from /\ helper'[h].changed = r.changed
        /\ \A k \in Helpers \ {h} : helper'[k] = helper[k]
        /\ node' = node /\ work' = work /\ boot' = boot /\ broken' = broken
    BY <1>0, <2>1, Moves DEF UpdateInv, HelperPlaces, Locked
  <2>4. OneOwner' /\ Owners' /\ \A k \in Helpers \ {h} : Steps(k)' /\ OnlyOne(k)' /\ Contents(k)'
    BY <1>0, <1>1, <1>2, <2>1, <2>2, <2>3, OthersKept DEF r, Locked, Steps
  <2> USE <1>0, <1>1, <1>2, <2>1, <2>2, <2>3, <2>4, Numbers DEF UpdateInv, r, Locked
  <2>5. Steps(h)' /\ OnlyOne(h)' /\ Contents(h)'
    BY DEF Steps, OnlyOne, Contents, Good, InHand, Mends, OneOwner, Owners, Sound, NothingLost
  <2>6. InHand' /\ Sound' /\ NothingLost'
    BY <2>5 DEF InHand, Mends, Good, Steps, Contents, Sound, NothingLost, OneOwner
  <2>7. OffersItself'
    BY DEF OffersItself, OneOwner, Owners, NoNode, OnlyOne, Steps
  <2> QED
    BY <2>5, <2>6, <2>7
<1>9. CASE Writes(h) /\ r.from = "rollback"
  <2>1. Helps(h, "start", r) /\ r.pc = "write" /\ r.from = "rollback"
    BY <1>9, <1>0 DEF Writes, r, told, back, In, Marked, Executable
  <2>2. /\ disk'["exe"] = disk["rollback"] /\ disk'["old"] = disk["old"]
        /\ disk'["rollback"] = disk["rollback"] /\ disk'["pending"] = disk["pending"]
        /\ disk'["marker"] = disk["marker"]
    BY <1>9, <1>0 DEF Writes, r, Puts, In, Paths
  <2>3. /\ helper'[h].pc = "start" /\ helper'[h].from = r.from /\ helper'[h].changed = r.changed
        /\ \A k \in Helpers \ {h} : helper'[k] = helper[k]
        /\ node' = node /\ work' = work /\ boot' = boot /\ broken' = broken
    BY <1>0, <2>1, Moves DEF UpdateInv, HelperPlaces, Locked
  <2>4. OneOwner' /\ Owners' /\ \A k \in Helpers \ {h} : Steps(k)' /\ OnlyOne(k)' /\ Contents(k)'
    BY <1>0, <1>1, <1>2, <2>1, <2>2, <2>3, OthersKept DEF r, Locked, Steps
  <2> USE <1>0, <1>1, <1>2, <2>1, <2>2, <2>3, <2>4, Numbers DEF UpdateInv, r, Locked
  <2>5. Steps(h)' /\ OnlyOne(h)' /\ Contents(h)'
    BY DEF Steps, OnlyOne, Contents, Good, InHand, Mends, OneOwner, Owners, Sound, NothingLost
  <2>6. InHand' /\ Sound' /\ NothingLost'
    BY <2>5 DEF InHand, Mends, Good, Steps, Contents, Sound, NothingLost, OneOwner
  <2>7. OffersItself'
    BY DEF OffersItself, OneOwner, Owners, NoNode, OnlyOne, Steps
  <2> QED
    BY <2>5, <2>6, <2>7
<1>10. CASE ReplaceFails(h) /\ r.pc = "write"
  <2>1. Helps(h, "start", r) /\ r.pc = "write" /\ r.from = "pending"
    BY <1>10, <1>0 DEF ReplaceFails, r, told, back, In, Marked, Executable
  <2>2. /\ disk'["exe"] = disk["old"] /\ disk'["old"] = Nothing /\ disk'["rollback"] = Nothing
        /\ disk'["pending"] = disk["pending"] /\ disk'["marker"] = disk["marker"]
    BY <1>10, <1>0 DEF ReplaceFails, r, Puts, In, Paths
  <2>3. /\ helper'[h].pc = "start" /\ helper'[h].from = r.from /\ helper'[h].changed = r.changed
        /\ \A k \in Helpers \ {h} : helper'[k] = helper[k]
        /\ node' = node /\ work' = work /\ boot' = boot /\ broken' = broken
    BY <1>0, <2>1, Moves DEF UpdateInv, HelperPlaces, Locked
  <2>4. OneOwner' /\ Owners' /\ \A k \in Helpers \ {h} : Steps(k)' /\ OnlyOne(k)' /\ Contents(k)'
    BY <1>0, <1>1, <1>2, <2>1, <2>2, <2>3, OthersKept DEF r, Locked, Steps
  <2> USE <1>0, <1>1, <1>2, <2>1, <2>2, <2>3, <2>4, Numbers DEF UpdateInv, r, Locked
  <2>5. Steps(h)' /\ OnlyOne(h)' /\ Contents(h)'
    BY DEF Steps, OnlyOne, Contents, Good, InHand, Mends, OneOwner, Owners, Sound, NothingLost
  <2>6. InHand' /\ Sound' /\ NothingLost'
    BY <2>5 DEF InHand, Mends, Good, Steps, Contents, Sound, NothingLost, OneOwner
  <2>7. OffersItself'
    BY DEF OffersItself, OneOwner, Owners, NoNode, OnlyOne, Steps
  <2> QED
    BY <2>5, <2>6, <2>7
<1>11. CASE ReplaceFails(h) /\ r.pc # "write"
  <2>1. Helps(h, "start", r) /\ r.pc = "vacate" /\ r.from = "pending"
    BY <1>11, <1>0 DEF ReplaceFails, r, told, back, In, Marked, Executable
  <2>2. /\ disk'["rollback"] = Nothing /\ disk'["exe"] = disk["exe"]
        /\ disk'["old"] = disk["old"] /\ disk'["pending"] = disk["pending"]
        /\ disk'["marker"] = disk["marker"]
    BY <1>11, <1>0 DEF ReplaceFails, r, Puts, In, Paths
  <2>3. /\ helper'[h].pc = "start" /\ helper'[h].from = r.from /\ helper'[h].changed = r.changed
        /\ \A k \in Helpers \ {h} : helper'[k] = helper[k]
        /\ node' = node /\ work' = work /\ boot' = boot /\ broken' = broken
    BY <1>0, <2>1, Moves DEF UpdateInv, HelperPlaces, Locked
  <2>4. OneOwner' /\ Owners' /\ \A k \in Helpers \ {h} : Steps(k)' /\ OnlyOne(k)' /\ Contents(k)'
    BY <1>0, <1>1, <1>2, <2>1, <2>2, <2>3, OthersKept DEF r, Locked, Steps
  <2> USE <1>0, <1>1, <1>2, <2>1, <2>2, <2>3, <2>4, Numbers DEF UpdateInv, r, Locked
  <2>5. Steps(h)' /\ OnlyOne(h)' /\ Contents(h)'
    BY DEF Steps, OnlyOne, Contents, Good, InHand, Mends, OneOwner, Owners, Sound, NothingLost
  <2>6. InHand' /\ Sound' /\ NothingLost'
    BY <2>5 DEF InHand, Mends, Good, Steps, Contents, Sound, NothingLost, OneOwner
  <2>7. OffersItself'
    BY DEF OffersItself, OneOwner, Owners, NoNode, OnlyOne, Steps
  <2> QED
    BY <2>5, <2>6, <2>7
<1>12. CASE Unmarks(h)
  <2>1. Helps(h, "sweep", told) /\ r.pc = "unmark"
    BY <1>12, <1>0 DEF Unmarks, r, told, back, In, Marked, Executable
  <2>2. /\ disk'["marker"] = Nothing /\ disk'["exe"] = disk["exe"]
        /\ disk'["old"] = disk["old"] /\ disk'["rollback"] = disk["rollback"]
        /\ disk'["pending"] = disk["pending"]
    BY <1>12, <1>0 DEF Unmarks, r, Puts, In, Paths
  <2>3. /\ helper'[h].pc = "sweep" /\ helper'[h].from = r.from /\ helper'[h].changed = TRUE
        /\ \A k \in Helpers \ {h} : helper'[k] = helper[k]
        /\ node' = node /\ work' = work /\ boot' = boot /\ broken' = broken
    BY <1>0, <2>1, Moves DEF UpdateInv, HelperPlaces, Locked
  <2>4. OneOwner' /\ Owners' /\ \A k \in Helpers \ {h} : Steps(k)' /\ OnlyOne(k)' /\ Contents(k)'
    BY <1>0, <1>1, <1>2, <2>1, <2>2, <2>3, OthersKept DEF r, Locked, Steps
  <2> USE <1>0, <1>1, <1>2, <2>1, <2>2, <2>3, <2>4, Numbers DEF UpdateInv, r, Locked
  <2>5. Steps(h)' /\ OnlyOne(h)' /\ Contents(h)'
    BY DEF Steps, OnlyOne, Contents, Good, InHand, Mends, OneOwner, Owners, Sound, NothingLost
  <2>6. InHand' /\ Sound' /\ NothingLost'
    BY <2>5 DEF InHand, Mends, Good, Steps, Contents, Sound, NothingLost, OneOwner
  <2>7. OffersItself'
    BY DEF OffersItself, OneOwner, Owners, NoNode, OnlyOne, Steps
  <2> QED
    BY <2>5, <2>6, <2>7
<1>13. CASE UnmarkFails(h)
  <2>1. Helps(h, "vacate", back) /\ r.pc = "unmark"
    BY <1>13, <1>0 DEF UnmarkFails, r, told, back, In, Marked, Executable
  <2>2. disk' = disk
    BY <1>13, <1>0 DEF UnmarkFails, r, Puts, In, Paths
  <2>3. /\ helper'[h].pc = "vacate" /\ helper'[h].from = "rollback" /\ helper'[h].changed = r.changed
        /\ \A k \in Helpers \ {h} : helper'[k] = helper[k]
        /\ node' = node /\ work' = work /\ boot' = boot /\ broken' = broken
    BY <1>0, <2>1, Moves DEF UpdateInv, HelperPlaces, Locked
  <2>4. OneOwner' /\ Owners' /\ \A k \in Helpers \ {h} : Steps(k)' /\ OnlyOne(k)' /\ Contents(k)'
    BY <1>0, <1>1, <1>2, <2>1, <2>2, <2>3, OthersKept DEF r, Locked, Steps
  <2> USE <1>0, <1>1, <1>2, <2>1, <2>2, <2>3, <2>4, Numbers DEF UpdateInv, r, Locked
  <2>5. Steps(h)' /\ OnlyOne(h)' /\ Contents(h)'
    BY DEF Steps, OnlyOne, Contents, Good, InHand, Mends, OneOwner, Owners, Sound, NothingLost
  <2>6. InHand' /\ Sound' /\ NothingLost'
    BY <2>5 DEF InHand, Mends, Good, Steps, Contents, Sound, NothingLost, OneOwner
  <2>7. OffersItself'
    BY DEF OffersItself, OneOwner, Owners, NoNode, OnlyOne, Steps
  <2> QED
    BY <2>5, <2>6, <2>7
<1>14. CASE Sweeps(h)
  <2>1. Helps(h, "start", r) /\ r.pc = "sweep"
    BY <1>14, <1>0 DEF Sweeps, r, told, back, In, Marked, Executable
  <2>2. /\ disk'["pending"] = Nothing /\ disk'["exe"] = disk["exe"]
        /\ disk'["old"] = disk["old"] /\ disk'["rollback"] = disk["rollback"]
        /\ disk'["marker"] = disk["marker"]
    BY <1>14, <1>0 DEF Sweeps, r, Puts, In, Paths
  <2>3. /\ helper'[h].pc = "start" /\ helper'[h].from = r.from /\ helper'[h].changed = r.changed
        /\ \A k \in Helpers \ {h} : helper'[k] = helper[k]
        /\ node' = node /\ work' = work /\ boot' = boot /\ broken' = broken
    BY <1>0, <2>1, Moves DEF UpdateInv, HelperPlaces, Locked
  <2>4. OneOwner' /\ Owners' /\ \A k \in Helpers \ {h} : Steps(k)' /\ OnlyOne(k)' /\ Contents(k)'
    BY <1>0, <1>1, <1>2, <2>1, <2>2, <2>3, OthersKept DEF r, Locked, Steps
  <2> USE <1>0, <1>1, <1>2, <2>1, <2>2, <2>3, <2>4, Numbers DEF UpdateInv, r, Locked
  <2>5. Steps(h)' /\ OnlyOne(h)' /\ Contents(h)'
    BY DEF Steps, OnlyOne, Contents, Good, InHand, Mends, OneOwner, Owners, Sound, NothingLost
  <2>6. InHand' /\ Sound' /\ NothingLost'
    BY <2>5 DEF InHand, Mends, Good, Steps, Contents, Sound, NothingLost, OneOwner
  <2>7. OffersItself'
    BY DEF OffersItself, OneOwner, Owners, NoNode, OnlyOne, Steps
  <2> QED
    BY <2>5, <2>6, <2>7
<1>15. CASE StartFails(h) /\ r.changed /\ r.from = "pending"
  <2>1. Helps(h, "restore", back) /\ r.pc = "start" /\ r.changed = TRUE /\ r.from = "pending"
    BY <1>15, <1>0 DEF StartFails, r, told, back, In, Marked, Executable
  <2>2. disk' = disk
    BY <1>15, <1>0 DEF StartFails, r, Puts, In, Paths
  <2>3. /\ helper'[h].pc = "restore" /\ helper'[h].from = "rollback" /\ helper'[h].changed = TRUE
        /\ \A k \in Helpers \ {h} : helper'[k] = helper[k]
        /\ node' = node /\ work' = work /\ boot' = boot /\ broken' = broken
    BY <1>0, <2>1, Moves DEF UpdateInv, HelperPlaces, Locked
  <2>4. OneOwner' /\ Owners' /\ \A k \in Helpers \ {h} : Steps(k)' /\ OnlyOne(k)' /\ Contents(k)'
    BY <1>0, <1>1, <1>2, <2>1, <2>2, <2>3, OthersKept DEF r, Locked, Steps
  <2> USE <1>0, <1>1, <1>2, <2>1, <2>2, <2>3, <2>4, Numbers DEF UpdateInv, r, Locked
  <2>5. Steps(h)' /\ OnlyOne(h)' /\ Contents(h)'
    BY DEF Steps, OnlyOne, Contents, Good, InHand, Mends, OneOwner, Owners, Sound, NothingLost
  <2>6. InHand' /\ Sound' /\ NothingLost'
    BY <2>5 DEF InHand, Mends, Good, Steps, Contents, Sound, NothingLost, OneOwner
  <2>7. OffersItself'
    BY DEF OffersItself, OneOwner, Owners, NoNode, OnlyOne, Steps
  <2> QED
    BY <2>5, <2>6, <2>7
<1>16. CASE StartFails(h) /\ ~(r.changed /\ r.from = "pending")
  <2>1. /\ Helps(h, "none", NoHelper) /\ r.pc = "start"
        /\ ~(r.changed /\ r.from = "pending") /\ disk["exe"] \in broken \union {Nothing}
    BY <1>16, <1>0 DEF StartFails, r, told, back, In, Marked, Executable
  <2>2. disk' = disk
    BY <1>16, <1>0 DEF StartFails, r, Puts, In, Paths
  <2>3. /\ helper'[h].pc = "none" /\ helper'[h].from = "pending" /\ helper'[h].changed = FALSE
        /\ \A k \in Helpers \ {h} : helper'[k] = helper[k]
        /\ node' = node /\ work' = work /\ boot' = boot /\ broken' = broken
    BY <1>0, <2>1, Moves DEF UpdateInv, HelperPlaces, Locked
  <2>4. OneOwner' /\ Owners' /\ \A k \in Helpers \ {h} : Steps(k)' /\ OnlyOne(k)' /\ Contents(k)'
    BY <1>0, <1>1, <1>2, <2>1, <2>2, <2>3, OthersKept DEF r, Locked, Steps
  <2> USE <1>0, <1>1, <1>2, <2>1, <2>2, <2>3, <2>4, Numbers DEF UpdateInv, r, Locked
  <2>5. Steps(h)' /\ OnlyOne(h)' /\ Contents(h)'
    BY DEF Steps, OnlyOne, Contents, Good, InHand, Mends, OneOwner, Owners, Sound, NothingLost
  <2>6. InHand' /\ Sound' /\ NothingLost'
    BY <2>5 DEF InHand, Mends, Good, Steps, Contents, Sound, NothingLost, OneOwner
  <2>7. OffersItself'
    BY DEF OffersItself, OneOwner, Owners, NoNode, OnlyOne, Steps
  <2> QED
    BY <2>5, <2>6, <2>7
<1>17. CASE Restores(h)
  <2>1. Helps(h, "rewrite", r) /\ r.pc = "restore"
    BY <1>17, <1>0 DEF Restores, r, told, back, In, Marked, Executable
  <2>2. /\ disk'["old"] = disk["exe"] /\ disk'["exe"] = Nothing
        /\ disk'["rollback"] = disk["rollback"] /\ disk'["pending"] = disk["pending"]
        /\ disk'["marker"] = disk["marker"]
    BY <1>17, <1>0 DEF Restores, r, Puts, In, Paths
  <2>3. /\ helper'[h].pc = "rewrite" /\ helper'[h].from = r.from /\ helper'[h].changed = r.changed
        /\ \A k \in Helpers \ {h} : helper'[k] = helper[k]
        /\ node' = node /\ work' = work /\ boot' = boot /\ broken' = broken
    BY <1>0, <2>1, Moves DEF UpdateInv, HelperPlaces, Locked
  <2>4. OneOwner' /\ Owners' /\ \A k \in Helpers \ {h} : Steps(k)' /\ OnlyOne(k)' /\ Contents(k)'
    BY <1>0, <1>1, <1>2, <2>1, <2>2, <2>3, OthersKept DEF r, Locked, Steps
  <2> USE <1>0, <1>1, <1>2, <2>1, <2>2, <2>3, <2>4, Numbers DEF UpdateInv, r, Locked
  <2>5. Steps(h)' /\ OnlyOne(h)' /\ Contents(h)'
    BY DEF Steps, OnlyOne, Contents, Good, InHand, Mends, OneOwner, Owners, Sound, NothingLost
  <2>6. InHand' /\ Sound' /\ NothingLost'
    BY <2>5 DEF InHand, Mends, Good, Steps, Contents, Sound, NothingLost, OneOwner
  <2>7. OffersItself'
    BY DEF OffersItself, OneOwner, Owners, NoNode, OnlyOne, Steps
  <2> QED
    BY <2>5, <2>6, <2>7
<1>18. CASE Rewrites(h)
  <2>1. Helps(h, "start", r) /\ r.pc = "rewrite"
    BY <1>18, <1>0 DEF Rewrites, r, told, back, In, Marked, Executable
  <2>2. /\ disk'["exe"] = disk["rollback"] /\ disk'["old"] = disk["old"]
        /\ disk'["rollback"] = disk["rollback"] /\ disk'["pending"] = disk["pending"]
        /\ disk'["marker"] = disk["marker"]
    BY <1>18, <1>0 DEF Rewrites, r, Puts, In, Paths
  <2>3. /\ helper'[h].pc = "start" /\ helper'[h].from = r.from /\ helper'[h].changed = r.changed
        /\ \A k \in Helpers \ {h} : helper'[k] = helper[k]
        /\ node' = node /\ work' = work /\ boot' = boot /\ broken' = broken
    BY <1>0, <2>1, Moves DEF UpdateInv, HelperPlaces, Locked
  <2>4. OneOwner' /\ Owners' /\ \A k \in Helpers \ {h} : Steps(k)' /\ OnlyOne(k)' /\ Contents(k)'
    BY <1>0, <1>1, <1>2, <2>1, <2>2, <2>3, OthersKept DEF r, Locked, Steps
  <2> USE <1>0, <1>1, <1>2, <2>1, <2>2, <2>3, <2>4, Numbers DEF UpdateInv, r, Locked
  <2>5. Steps(h)' /\ OnlyOne(h)' /\ Contents(h)'
    BY DEF Steps, OnlyOne, Contents, Good, InHand, Mends, OneOwner, Owners, Sound, NothingLost
  <2>6. InHand' /\ Sound' /\ NothingLost'
    BY <2>5 DEF InHand, Mends, Good, Steps, Contents, Sound, NothingLost, OneOwner
  <2>7. OffersItself'
    BY DEF OffersItself, OneOwner, Owners, NoNode, OnlyOne, Steps
  <2> QED
    BY <2>5, <2>6, <2>7
<1>19. CASE StartsProgram(h)
  <2>1. /\ r.pc = "start" /\ boot = NoBoot /\ disk["exe"] \notin broken \union {Nothing}
        /\ boot'.run = disk["exe"] /\ disk' = disk /\ node' = node /\ work' = work /\ broken' = broken
    BY <1>19 DEF StartsProgram, In, r, Executable
  <2>2. helper'[h] = NoHelper /\ \A k \in Helpers \ {h} : helper'[k] = helper[k]
    BY <1>19 DEF StartsProgram, UpdateInv, UpdateTypes
  <2>3. helper'[h].pc = "none" /\ helper'[h].from = "pending" /\ helper'[h].changed = FALSE
    BY <2>2 DEF NoHelper
  <2>4. OneOwner' /\ Owners' /\ \A k \in Helpers \ {h} : Steps(k)' /\ OnlyOne(k)' /\ Contents(k)'
    BY <1>0, <1>1, <1>2, <2>1, <2>2, <2>3, OthersKept DEF r, Locked, Steps
  <2> USE <1>0, <1>1, <1>2, <2>1, <2>2, <2>3, <2>4, Numbers DEF UpdateInv, r, Locked
  <2>5. Steps(h)' /\ OnlyOne(h)' /\ Contents(h)'
    BY DEF Steps, OnlyOne, Contents, Good, InHand, Mends, OneOwner, Owners, Sound, NothingLost
  <2>6. InHand' /\ Sound' /\ NothingLost'
    BY <2>5 DEF InHand, Mends, Good, Steps, Contents, Sound, NothingLost, OneOwner
  <2>7. OffersItself'
    BY DEF OffersItself, OneOwner, Owners, NoNode, OnlyOne, Steps
  <2> QED
    BY <2>5, <2>6, <2>7
<1> QED
  BY <1>0, <1>3, <1>4, <1>5, <1>6, <1>7, <1>8, <1>9, <1>10, <1>11, <1>12, <1>13, <1>14, <1>15, <1>16,
    <1>17, <1>18, <1>19 DEF Help, Apply

LEMMA SpawnsOne ==
  ASSUME UpdateTypes, NEW calm \in BOOLEAN, Spawns(calm)
  PROVE  \E h \in Helpers :
           /\ helper[h].pc = "none"
           /\ helper'[h].pc = "wait" /\ helper'[h].from = "pending" /\ helper'[h].changed = FALSE
           /\ \A k \in Helpers \ {h} : helper'[k] = helper[k]
<1> DEFINE new == [NoHelper EXCEPT !.pc = "wait", !.calm = calm]
<1>1. new.pc = "wait" /\ new.from = "pending" /\ new.changed = FALSE
  BY DEF NoHelper
<1> HIDE DEF new
<1> QED
  BY <1>1 DEF Spawns, new, UpdateTypes

LEMMA Spawned ==
  ASSUME UpdateInv, NEW calm \in BOOLEAN, Spawns(calm), disk' = disk, broken' = broken,
         Good(disk["exe"]),
         \A a \in Actors : work'[a].pc \in {"publish", "digest", "mark"} => work[a].pc \in {"publish", "digest", "mark"},
         node'.up => node.up
  PROVE  OneOwner' /\ InHand' /\ (\A k \in Helpers : Steps(k)' /\ OnlyOne(k)' /\ Contents(k)')
<1>1. PICK h \in Helpers :
           /\ helper[h].pc = "none"
           /\ helper'[h].pc = "wait" /\ helper'[h].from = "pending" /\ helper'[h].changed = FALSE
           /\ \A k \in Helpers \ {h} : helper'[k] = helper[k]
  BY SpawnsOne DEF UpdateInv
<1> USE <1>1 DEF UpdateInv, Locked
<1>2. OneOwner'
  BY DEF OneOwner
<1>3. InHand'
  BY DEF InHand, Mends, Good, Steps
<1>4. Steps(h)' /\ OnlyOne(h)' /\ Contents(h)'
  BY DEF Steps, OnlyOne, Contents
<1>5. ASSUME NEW k \in Helpers \ {h} PROVE Steps(k)' /\ OnlyOne(k)' /\ Contents(k)'
  BY DEF Steps, OnlyOne, Contents, Good
<1> QED
  BY <1>2, <1>3, <1>4, <1>5

LEMMA ExecutableIsGood == ASSUME UpdateInv, Executable PROVE Good(disk["exe"])
<1>1. disk["exe"] \in Values /\ disk["exe"] # Damaged
  BY DEF UpdateInv, UpdateTypes, NothingLost, Paths
<1> QED
  BY <1>1, Numbers DEF Executable, Good

\* A step that leaves the helpers and the files they look at alone.
LEMMA FilesKept ==
  ASSUME UpdateInv, helper' = helper, broken' = broken,
         \A f \in {"exe", "rollback", "pending", "marker"} : disk'[f] = disk[f],
         disk'["old"] = disk["old"] \/ (LockFree /\ disk'["old"] = Nothing),
         \A a \in Actors : work'[a].pc \in {"publish", "digest", "mark"} =>
           work[a].pc \in {"publish", "digest", "mark"} \/ (Prompt /\ node.up)
  PROVE  \A k \in Helpers : Steps(k)' /\ OnlyOne(k)' /\ Contents(k)'
<1> TAKE k \in Helpers
<1> USE DEF UpdateInv, Locked, LockFree, Prompt
<1>1. Steps(k) /\ OnlyOne(k) /\ Contents(k)
  OBVIOUS
<1>2. Steps(k)'
  BY <1>1 DEF Steps
<1>3. OnlyOne(k)'
  BY <1>1 DEF OnlyOne, Steps, OneOwner
<1>4. Contents(k)'
  BY <1>1 DEF Contents, Good
<1> QED
  BY <1>2, <1>3, <1>4

LEMMA ProcessKeeps ==
  ASSUME UpdateInv, Launch \/ HandsOver \/ ComesUp \/ Refused \/ RestartByHelper \/ RestartPlain \/ Quit \/ Crash
  PROVE  UpdateInv'
<1>1. UpdateTypes'
  BY Typed DEF UpdateInv, UpdateNext, UpdateRoutes
<1>2. /\ Actors = {"round", "console"} /\ Idle.pc = "idle"
      /\ NoHelper.pc = "none" /\ NoHelper.changed = FALSE /\ NoHelper.from = "pending"
      /\ NoNode.up = FALSE /\ NoNode.run = Nothing /\ NoNode.self = Nothing /\ NoNode.gate = FALSE
      /\ NoBoot.run = Nothing
  BY DEF Actors, Idle, NoHelper, NoNode, NoBoot
<1>3. boot.calm \in BOOLEAN /\ node.calm \in BOOLEAN
  BY DEF UpdateInv, UpdateTypes
<1> USE <1>1, <1>2, <1>3, Numbers
<1>4. CASE Launch \/ Refused \/ RestartPlain \/ Quit
  <2>1. /\ disk' = disk /\ helper' = helper /\ broken' = broken
        /\ \/ work' = work /\ node' = node
           \/ node' = NoNode /\ \A a \in Actors : work'[a] = Idle
        /\ \/ boot' = boot
           \/ boot' = NoBoot
           \/ Executable /\ boot'.run = disk["exe"]
    BY <1>4 DEF Launch, Refused, RestartPlain, Quit, Exits
  <2>0. \A k \in Helpers : Steps(k)' /\ OnlyOne(k)' /\ Contents(k)'
    BY <2>1, FilesKept
  <2> USE <2>0, <2>1 DEF UpdateInv, Executable
  <2>2. OneOwner' /\ Owners'
    BY DEF OneOwner, Owners
  <2>3. InHand'
    BY ExecutableIsGood DEF InHand, Mends, Good
  <2>4. Sound' /\ NothingLost' /\ OffersItself'
    BY DEF Sound, NothingLost, OffersItself
  <2> QED
    BY <2>2, <2>3, <2>4
<1>5. CASE HandsOver \/ RestartByHelper
  <2>0. PICK calm \in BOOLEAN :
          /\ Spawns(calm) /\ disk' = disk /\ broken' = broken /\ Executable
          /\ \/ boot' = NoBoot /\ node' = node /\ work' = work
             \/ boot' = boot /\ node' = NoNode /\ \A a \in Actors : work'[a] = Idle
    BY <1>5 DEF HandsOver, RestartByHelper, Exits
  <2>5. Good(disk["exe"])
    BY <2>0, ExecutableIsGood
  <2>6. /\ \A a \in Actors : work'[a].pc \in {"publish", "digest", "mark"} => work[a].pc \in {"publish", "digest", "mark"}
        /\ node'.up => node.up
    BY <2>0
  <2>1. OneOwner' /\ InHand' /\ \A k \in Helpers : Steps(k)' /\ OnlyOne(k)' /\ Contents(k)'
    BY <2>0, <2>5, <2>6, Spawned
  <2> USE <2>0 DEF UpdateInv
  <2>2. Owners' /\ Sound' /\ NothingLost'
    BY DEF Owners, Sound, NothingLost
  <2>3. OffersItself'
    BY SpawnsOne DEF OffersItself
  <2> QED
    BY <2>1, <2>2, <2>3
<1>6. CASE ComesUp
  <2>1. /\ node'.up = TRUE /\ node'.run = boot.run /\ node'.self = SelfHead /\ node'.gate = FALSE
        /\ boot # NoBoot /\ LockFree /\ boot' = NoBoot /\ work' = work /\ helper' = helper /\ broken' = broken
    BY <1>6 DEF ComesUp, NoNode
  <2>2. /\ \A f \in {"exe", "rollback", "pending", "marker"} : disk'[f] = disk[f]
        /\ disk'["old"] = Nothing
    BY <1>6 DEF ComesUp, CleansUp, Puts, Paths, UpdateTypes, UpdateInv
  <2>3. \A k \in Helpers : Steps(k)' /\ OnlyOne(k)' /\ Contents(k)'
    BY <2>1, <2>2, FilesKept
  <2> USE <2>1, <2>2 DEF UpdateInv
  <2>4. OneOwner' /\ Owners'
    BY DEF OneOwner, Owners, LockFree, Locked, Sound
  <2>5. InHand'
    BY DEF InHand, Mends, Good, NothingLost, Owners
  <2>6. Sound' /\ NothingLost' /\ OffersItself'
    BY DEF Sound, NothingLost, OffersItself, SelfHead, InHand, Mends, LockFree, Contents, Steps, Good
  <2> QED
    BY <2>3, <2>4, <2>5, <2>6
<1>7. CASE Crash
  <2>1. \A h \in Helpers : helper'[h] = NoHelper
    BY <1>7 DEF Crash
  <2> USE <1>7, <2>1 DEF Crash, Exits, UpdateInv
  <2>2. \A k \in Helpers : Steps(k)' /\ OnlyOne(k)' /\ Contents(k)'
    BY DEF Steps, OnlyOne, Contents
  <2>3. OneOwner' /\ Owners'
    BY DEF OneOwner, Owners, Locked
  <2>4. InHand' /\ Sound' /\ NothingLost' /\ OffersItself'
    BY DEF InHand, Sound, NothingLost, OffersItself
  <2> QED
    BY <2>2, <2>3, <2>4
<1> QED
  BY <1>4, <1>5, <1>6, <1>7

LEMMA Beginning ==
  ASSUME UpdateTypes, NEW a \in Actors, NEW c \in WorkPlaces \ {"idle"}, NEW t \in Values, NEW done \in SUBSET Programs,
         NEW gate \in BOOLEAN, GoesOn(a, c, t, done, gate)
  PROVE  /\ work'[a].pc = c /\ work'[a].target = t
         /\ \A b \in Actors \ {a} : work'[b] = work[b]
         /\ node'.gate = gate /\ node'.up = node.up /\ node'.run = node.run /\ node'.self = node.self
         /\ boot' = boot /\ helper' = helper /\ broken' = broken
BY DEF UpdateTypes, GoesOn

LEMMA Ending ==
  ASSUME UpdateTypes, NEW a \in Actors, NEW t \in Values, NEW done \in SUBSET Programs,
         NEW gate \in BOOLEAN, GoesOn(a, "idle", t, done, gate)
  PROVE  /\ work'[a] = Idle
         /\ \A b \in Actors \ {a} : work'[b] = work[b]
         /\ node'.gate = gate /\ node'.up = node.up /\ node'.run = node.run /\ node'.self = node.self
         /\ boot' = boot /\ helper' = helper /\ broken' = broken
BY DEF UpdateTypes, GoesOn

\* A step of an actor of the running node, whatever it does to the staged program.
LEMMA ActorSteps ==
  ASSUME UpdateInv, node.up, node'.up, node'.run = node.run, node'.self = node.self, Owners', UpdateTypes',
         boot' = boot, helper' = helper, broken' = broken,
         \A f \in {"exe", "rollback", "old"} : disk'[f] = disk[f],
         disk'["marker"] # Damaged, \A a \in Actors : work'[a].pc = "digest" => disk'["pending"] # Damaged,
         (\A f \in {"pending", "marker"} : disk'[f] = disk[f]) \/ ~\E h \in Helpers : helper[h].changed,
         \A a \in Actors : work'[a].pc \in {"publish", "digest", "mark"} =>
           work[a].pc \in {"publish", "digest", "mark"} \/ Prompt
  PROVE  UpdateInv'
<1> USE DEF UpdateInv, Locked
<1>1. OneOwner'
  BY DEF OneOwner
<1>2. ASSUME NEW k \in Helpers PROVE Steps(k)' /\ OnlyOne(k)' /\ Contents(k)'
  <2>1. Steps(k) /\ OnlyOne(k) /\ Contents(k) /\ helper[k].pc \notin Locked
    BY DEF OneOwner
  <2>2. Steps(k)'
    BY <2>1 DEF Steps
  <2>3. OnlyOne(k)'
    BY <2>1 DEF OnlyOne, Steps, Prompt
  <2>4. Contents(k)'
    BY <2>1 DEF Contents, Good
  <2> QED
    BY <2>2, <2>3, <2>4
<1>3. InHand' /\ Sound' /\ NothingLost' /\ OffersItself'
  BY DEF InHand, Mends, Good, Sound, NothingLost, OffersItself
<1> QED
  BY <1>1, <1>2, <1>3

\* One actor goes on or ends.
LEMMA OwnersKept ==
  ASSUME UpdateInv, NEW a \in Actors, node.up,
         node'.up = node.up, node'.run = node.run, boot' = boot,
         \A b \in Actors \ {a} : work'[b] = work[b],
         \/ work'[a] = Idle
         \/ work'[a].pc # "idle" /\ work'[a].target \in IF work'[a].pc = "mark" THEN Installable ELSE Programs,
         \/ node'.gate = TRUE /\ (work'[a].pc \in {"idle", "begun"} \/ work[a].pc \notin {"idle", "begun"})
         \/ node'.gate = node.gate /\ work'[a].pc \in {"idle", "begun"}
         \/ work'[a].pc \in {"idle", "begun"} /\ work[a].pc \notin {"idle", "begun"}
         \/ node'.gate = TRUE /\ ~node.gate
  PROVE  Owners'
<1>1. Idle.pc = "idle"
  BY DEF Idle
<1> QED
  BY <1>1 DEF UpdateInv, Owners

\* What a step of an actor may do to the files.
Staged(c) ==
  /\ \A f \in {"exe", "rollback", "old"} : disk'[f] = disk[f]
  /\ disk'["marker"] # Damaged
  /\ IF c = "digest" THEN disk'["pending"] # Damaged ELSE disk'["pending"] \in {disk["pending"], Nothing}
  /\ (\A f \in {"pending", "marker"} : disk'[f] = disk[f]) \/ ~\E h \in Helpers : helper[h].changed
  /\ c = "publish" => Prompt

LEMMA ActorWorks ==
  ASSUME UpdateInv, UpdateTypes', NEW a \in Actors, NEW c \in WorkPlaces, NEW t \in Values, NEW done \in SUBSET Programs,
         NEW gate \in BOOLEAN, GoesOn(a, c, t, done, gate), node.up, c = "idle" \/ t \in Programs,
         c # "mark", c = "digest" => work[a].pc = "publish",
         Staged(c),
         IF c \in {"idle", "begun"} THEN gate = node.gate \/ work[a].pc \notin {"idle", "begun"}
         ELSE gate = TRUE /\ (work[a].pc \notin {"idle", "begun"} \/ ~node.gate)
  PROVE  UpdateInv'
<1>1. /\ \A b \in Actors \ {a} : work'[b] = work[b]
      /\ node'.gate = gate /\ node'.up = node.up /\ node'.run = node.run /\ node'.self = node.self
      /\ boot' = boot /\ helper' = helper /\ broken' = broken
      /\ IF c = "idle" THEN work'[a] = Idle ELSE work'[a].pc = c /\ work'[a].target = t
  <2>1. UpdateTypes
    BY DEF UpdateInv
  <2>2. CASE c = "idle"
    BY <2>1, <2>2, Ending
  <2>3. CASE c # "idle"
    <3>1. c \in WorkPlaces \ {"idle"}
      BY <2>3
    <3>2. /\ work'[a].pc = c /\ work'[a].target = t
          /\ \A b \in Actors \ {a} : work'[b] = work[b]
          /\ node'.gate = gate /\ node'.up = node.up /\ node'.run = node.run /\ node'.self = node.self
          /\ boot' = boot /\ helper' = helper /\ broken' = broken
      BY <2>1, <3>1, Beginning
    <3> QED
      BY <2>3, <3>2
  <2> QED
    BY <2>2, <2>3
<1>2. Owners'
  <2>1. \/ work'[a] = Idle
        \/ work'[a].pc # "idle" /\ work'[a].target \in IF work'[a].pc = "mark" THEN Installable ELSE Programs
    BY <1>1
  <2>2. Idle.pc = "idle"
    BY DEF Idle
  <2>3. \/ node'.gate = TRUE /\ (work'[a].pc \in {"idle", "begun"} \/ work[a].pc \notin {"idle", "begun"})
        \/ node'.gate = node.gate /\ work'[a].pc \in {"idle", "begun"}
        \/ work'[a].pc \in {"idle", "begun"} /\ work[a].pc \notin {"idle", "begun"}
        \/ node'.gate = TRUE /\ ~node.gate
    BY <1>1, <2>2
  <2> QED
    BY <1>1, <2>1, <2>3, OwnersKept
<1>3. \A b \in Actors : work'[b].pc \in {"publish", "digest", "mark"} => work[b].pc \in {"publish", "digest", "mark"} \/ Prompt
  <2>1. Idle.pc = "idle"
    BY DEF Idle
  <2> QED
    BY <1>1, <2>1 DEF Staged
<1>4. ASSUME NEW b \in Actors, work'[b].pc = "digest" PROVE disk'["pending"] # Damaged
  <2>1. Idle.pc = "idle" /\ Nothing # Damaged
    BY Numbers DEF Idle
  <2>2. CASE b = a
    BY <1>1, <1>4, <2>1, <2>2 DEF Staged
  <2>3. CASE b # a
    <3>1. work[b].pc = "digest" /\ disk["pending"] # Damaged
      BY <1>1, <1>4, <2>3 DEF UpdateInv, Sound
    <3> QED
      BY <2>1, <3>1 DEF Staged
  <2> QED
    BY <2>2, <2>3
<1> QED
  BY <1>1, <1>2, <1>3, <1>4, ActorSteps DEF Staged

LEMMA ActorsKeep ==
  ASSUME UpdateInv,
         \/ Loop
         \/ \E v \in Programs : Click(v)
         \/ Downloads \/ Verifies \/ Unpacks
         \/ \E a \in Actors : FetchFails(a) \/ Stage(a)
  PROVE  UpdateInv'
<1>1. UpdateTypes' /\ UpdateTypes
  BY Typed DEF UpdateInv, UpdateNext, UpdateRoutes
<1>2. /\ Actors = {"round", "console"} /\ Idle.pc = "idle"
      /\ {"idle", "begun", "fetch", "unpack", "clear", "publish", "digest", "mark"} = WorkPlaces
      /\ {"exe", "old", "rollback", "pending", "marker", "credential"} = Paths
  BY DEF Actors, Idle, WorkPlaces, Paths
<1>3. /\ disk \in [Paths -> Values] /\ node.gate \in BOOLEAN /\ node.done \in SUBSET Programs
      /\ disk["marker"] # Damaged
      /\ \A a \in Actors : work[a].pc \notin {"idle", "mark"} => work[a].target \in Programs
  BY <1>1 DEF UpdateTypes, UpdateInv, Sound, Owners
<1>4. ASSUME disk' = disk PROVE \A c \in WorkPlaces \ {"publish", "digest"} : Staged(c)
  BY <1>3, <1>4 DEF Staged
<1>5. ASSUME NEW v \in Programs, Round(v) PROVE UpdateInv'
  <2>1. /\ node.up /\ node.gate = FALSE /\ disk' = disk
        /\ GoesOn("round", "begun", v, node.done \union {v}, FALSE)
    BY <1>3, <1>5 DEF Round, At
  <2>2. node.done \union {v} \in SUBSET Programs /\ Staged("begun")
    BY <1>2, <1>3, <1>4, <2>1
  <2> QED
    BY <1>1, <1>2, <2>1, <2>2, Numbers, ActorWorks
<1>6. CASE RoundEnters
  <2> DEFINE v == work["round"].target
  <2>1. /\ node.up /\ disk' = disk /\ work["round"].pc = "begun" /\ v \in Programs
        /\ \/ node.gate = TRUE /\ GoesOn("round", "idle", v, node.done \ {v}, TRUE)
           \/ node.gate = FALSE /\ GoesOn("round", "fetch", v, node.done, TRUE)
    BY <1>2, <1>3, <1>6 DEF RoundEnters, At
  <2>2. node.done \ {v} \in SUBSET Programs /\ Staged("idle") /\ Staged("fetch")
    BY <1>2, <1>3, <1>4, <2>1
  <2> HIDE DEF v
  <2> QED
    BY <1>1, <1>2, <1>3, <2>1, <2>2, Numbers, ActorWorks
<1>7. ASSUME NEW v \in Programs, Click(v) PROVE UpdateInv'
  <2>1. /\ node.up /\ node.gate = FALSE /\ disk' = disk
        /\ GoesOn("console", "fetch", v, node.done, TRUE)
    BY <1>3, <1>7 DEF Click, At
  <2>2. Staged("fetch")
    BY <1>2, <1>4, <2>1
  <2> QED
    BY <1>1, <1>2, <1>3, <2>1, <2>2, Numbers, ActorWorks
<1>8. ASSUME NEW a \in Actors, FetchFails(a) PROVE UpdateInv'
  <2>1. /\ node.up /\ work[a].pc \in {"fetch", "unpack"} /\ disk' = disk
        /\ \E done \in SUBSET Programs : GoesOn(a, "idle", Nothing, done, FALSE)
    BY <1>3, <1>8 DEF FetchFails, At
  <2>2. Staged("idle")
    BY <1>2, <1>4, <2>1
  <2> QED
    BY <1>1, <1>2, <1>3, <2>1, <2>2, Numbers, ActorWorks
<1>9. CASE Downloads \/ Verifies \/ Unpacks
  <2>1. PICK a \in Actors, c \in {"unpack", "clear"} :
          /\ node.up /\ work[a].pc \in {"fetch", "unpack"} /\ (disk' = disk \/ Vouches(work[a].target))
          /\ GoesOn(a, c, work[a].target, node.done, TRUE)
    BY <1>2, <1>9 DEF Downloads, Verifies, Unpacks, At
  <2>2. Staged(c)
    <3>1. \A f \in Paths \ {"credential"} : disk'[f] = disk[f]
      BY <1>3, <2>1 DEF Vouches, Puts
    <3> QED
      BY <1>2, <1>3, <2>1, <3>1 DEF Staged
  <2> QED
    BY <1>1, <1>2, <1>3, <2>1, <2>2, Numbers, ActorWorks
<1>10. ASSUME NEW a \in Actors, ClearsMarker(a) PROVE UpdateInv'
  <2>1. /\ node.up /\ work[a].pc = "clear" /\ Prompt
        /\ GoesOn(a, "publish", work[a].target, node.done, TRUE)
    BY <1>10 DEF ClearsMarker, At
  <2>2. ~\E h \in Helpers : helper[h].changed
    BY <2>1 DEF UpdateInv, Steps, OneOwner, Locked, Prompt
  <2>3. Staged("publish")
    BY <1>2, <1>3, <1>10, <2>1, <2>2, Numbers DEF ClearsMarker, Puts, Staged
  <2> QED
    BY <1>1, <1>2, <1>3, <2>1, <2>3, Numbers, ActorWorks
<1>11. ASSUME NEW a \in Actors, Publishes(a) PROVE UpdateInv'
  <2>1. /\ node.up /\ work[a].pc = "publish"
        /\ GoesOn(a, "digest", work[a].target, node.done, TRUE)
    BY <1>11 DEF Publishes, At
  <2>2. ~\E h \in Helpers : helper[h].changed
    BY <2>1 DEF UpdateInv, OnlyOne
  <2>3. Staged("digest")
    BY <1>2, <1>3, <1>11, <2>1, <2>2, Numbers DEF Publishes, Puts, Staged
  <2> QED
    BY <1>1, <1>2, <1>3, <2>1, <2>3, Numbers, ActorWorks
<1>12. ASSUME NEW a \in Actors, StageFails(a) PROVE UpdateInv'
  <2>1. /\ node.up /\ work[a].pc \in {"clear", "publish", "digest", "mark"}
        /\ GoesOn(a, "idle", Nothing, node.done, FALSE)
    BY <1>12 DEF StageFails, At
  <2>2. Staged("idle")
    <3>1. \A f \in Paths \ {"pending"} : disk'[f] = disk[f]
      BY <1>3, <1>12 DEF StageFails, Puts
    <3>2. CASE work[a].pc \in {"digest", "mark"}
      <4>0. disk'["pending"] = Nothing
        BY <1>2, <1>3, <1>12, <3>2 DEF StageFails, Puts
      <4>1. ~\E h \in Helpers : helper[h].changed
        BY <3>2 DEF UpdateInv, OnlyOne
      <4> QED
        BY <1>2, <1>3, <3>1, <4>0, <4>1 DEF Staged
    <3>3. CASE work[a].pc \notin {"digest", "mark"}
      <4>1. disk'["pending"] = disk["pending"]
        BY <1>2, <1>3, <1>12, <3>3 DEF StageFails, Puts
      <4> QED
        BY <1>2, <1>3, <3>1, <4>1 DEF Staged
    <3> QED
      BY <3>2, <3>3
  <2> QED
    BY <1>1, <1>2, <1>3, <2>1, <2>2, Numbers, ActorWorks
<1>13. ASSUME NEW a \in Actors, Marks(a) PROVE UpdateInv'
  <2>1. /\ node.up /\ work[a].pc = "mark" /\ node' = node /\ boot' = boot /\ helper' = helper
        /\ broken' = broken /\ Puts("marker", work[a].target)
    BY <1>13 DEF Marks, At
  <2>2. work'[a] = Idle /\ \A b \in Actors \ {a} : work'[b] = work[b]
    BY <1>1, <1>13 DEF Marks, UpdateTypes
  <2>3. ~\E h \in Helpers : helper[h].changed
    BY <2>1 DEF UpdateInv, OnlyOne
  <2>4. Owners'
    BY <1>2, <2>1, <2>2, OwnersKept
  <2>5. /\ \A f \in Paths \ {"marker"} : disk'[f] = disk[f]
        /\ disk'["marker"] # Damaged
    <3>1. work[a].target \in Installable
      BY <2>1 DEF UpdateInv, Owners
    <3> QED
      BY <1>2, <1>3, <2>1, <3>1, Numbers DEF Puts
  <2>6. /\ \A b \in Actors : work'[b].pc \in {"publish", "digest", "mark"} => work[b].pc \in {"publish", "digest", "mark"}
        /\ \A b \in Actors : work'[b].pc = "digest" => disk'["pending"] # Damaged
    BY <1>2, <2>2, <2>5 DEF UpdateInv, Sound
  <2> QED
    BY <1>1, <1>2, <2>1, <2>3, <2>4, <2>5, <2>6, ActorSteps
<1>14. ASSUME NEW a \in Actors, Digests(a) PROVE UpdateInv'
  <2>1. /\ node.up /\ work[a].pc = "digest" /\ node' = node /\ boot' = boot /\ helper' = helper
        /\ broken' = broken /\ disk' = disk
    BY <1>14 DEF Digests, At
  <2>2. /\ work'[a].pc = "mark" /\ work'[a].target = disk["pending"]
        /\ \A b \in Actors \ {a} : work'[b] = work[b]
    BY <1>1, <1>14 DEF Digests, UpdateTypes
  <2>3. disk["pending"] \in Installable
    BY <1>2, <1>3, <1>14, <2>1, Numbers DEF Digests, UpdateInv, Sound
  <2>4. Owners'
    <3>1. node.gate = TRUE
      BY <1>3, <2>1 DEF UpdateInv, Owners
    <3> QED
      BY <2>1, <2>2, <2>3, <3>1, OwnersKept
  <2>5. /\ \A b \in Actors : work'[b].pc \in {"publish", "digest", "mark"} => work[b].pc \in {"publish", "digest", "mark"}
        /\ \A b \in Actors : work'[b].pc = "digest" => disk'["pending"] # Damaged
    BY <2>1, <2>2 DEF UpdateInv, Sound
  <2> QED
    BY <1>1, <1>2, <1>3, <2>1, <2>4, <2>5, ActorSteps
<1> QED
  BY <1>5, <1>6, <1>7, <1>8, <1>9, <1>10, <1>11, <1>12, <1>13, <1>14 DEF Loop, Stage

\* The staged program is damaged while no helper looks at it.
LEMMA SpoilsKeeps == ASSUME UpdateInv, Spoils PROVE UpdateInv'
<1>1. UpdateTypes'
  BY Typed DEF UpdateInv, UpdateNext
<1>2. /\ \A f \in {"exe", "old", "rollback", "marker"} : disk'[f] = disk[f]
      /\ \A h \in Helpers : helper[h].pc \in {"none", "wait", "seen"}
      /\ node' = node /\ work' = work /\ boot' = boot /\ helper' = helper /\ broken' = broken
  BY DEF Spoils, Puts, UpdateInv, UpdateTypes, Paths
<1>0. \A a \in Actors : work[a].pc = "digest" => disk'["pending"] # Damaged
  <2> SUFFICES ASSUME NEW a \in Actors, work[a].pc = "digest" PROVE disk'["pending"] # Damaged
    OBVIOUS
  <2>1. "pending" \in Paths /\ disk \in [Paths -> Values]
    BY DEF UpdateInv, UpdateTypes, Paths
  <2>2. disk["pending"] \in Installable
    BY <2>1, Numbers DEF Spoils, UpdateInv, Sound
  <2>3. disk'["pending"] \in {Nothing, Altered(Version(disk["pending"]))}
    BY <2>1 DEF Spoils, Puts
  <2> QED
    BY <2>2, <2>3, Alters, Numbers
<1> USE <1>0, <1>1, <1>2 DEF UpdateInv
<1>3. OneOwner' /\ Owners'
  BY DEF OneOwner, Owners
<1>4. ASSUME NEW k \in Helpers PROVE Steps(k)' /\ OnlyOne(k)' /\ Contents(k)'
  BY DEF Steps, OnlyOne, Contents
<1>5. InHand' /\ Sound' /\ NothingLost' /\ OffersItself'
  BY DEF InHand, Mends, Good, Sound, NothingLost, OffersItself
<1> QED
  BY <1>3, <1>4, <1>5

LEMMA UpdateStarting == UpdateInit => UpdateInv
<1> SUFFICES ASSUME UpdateInit PROVE UpdateInv
  OBVIOUS
<1>1. /\ NoHelper.pc = "none" /\ NoHelper.changed = FALSE /\ NoHelper.from = "pending"
      /\ NoNode.up = FALSE /\ NoNode.run = Nothing /\ NoNode.self = Nothing /\ NoBoot.run = Nothing
      /\ Idle.pc = "idle" /\ NoHelper \in HelperRecords
      /\ Idle \in [pc : WorkPlaces, target : Values] /\ NoBoot \in [run : Values, calm : BOOLEAN]
      /\ NoNode \in [up : BOOLEAN, run : Values, self : Values, calm : BOOLEAN, gate : BOOLEAN,
               done : SUBSET Programs]
  BY Numbers DEF NoHelper, NoNode, NoBoot, Idle, HelperRecords, HelperPlaces, Locked, WorkPlaces
<1>2. /\ \A h \in Helpers : helper[h] = NoHelper
      /\ disk["exe"] = 1 /\ disk["marker"] = Nothing /\ disk["old"] = Nothing /\ disk["rollback"] = Nothing
      /\ broken \in SUBSET Installable /\ 1 \notin broken
  BY UpdateAssumption DEF UpdateInit, Installable, Paths
<1>3. UpdateTypes
  BY <1>1, <1>2, Numbers DEF UpdateInit, UpdateTypes
<1>4. OneOwner /\ Owners /\ \A h \in Helpers : Steps(h) /\ OnlyOne(h) /\ Contents(h)
  BY <1>1, <1>2 DEF UpdateInit, OneOwner, Owners, Steps, OnlyOne, Contents, Locked
<1>5. InHand /\ Sound /\ NothingLost /\ OffersItself
  BY <1>1, <1>2, Numbers DEF UpdateInit, InHand, Good, Sound, NothingLost, OffersItself
<1> QED
  BY <1>3, <1>4, <1>5 DEF UpdateInv

LEMMA UpdateKeeping == UpdateInv /\ [UpdateNext]_updateVars => UpdateInv'
<1> SUFFICES ASSUME UpdateInv, [UpdateNext]_updateVars PROVE UpdateInv'
  OBVIOUS
<1>1. CASE UNCHANGED updateVars
  BY <1>1 DEF updateVars, UpdateInv, UpdateTypes, OneOwner, Owners, Steps, OnlyOne, Contents, InHand, Mends, Good, Sound,
    NothingLost, OffersItself
<1> QED
  BY <1>1, ProcessKeeps, ActorsKeep, SpoilsKeeps, HelpKeeps DEF UpdateNext, UpdateRoutes

THEOREM UpdateInvariance == UpdateSpec => []UpdateInv
BY UpdateStarting, UpdateKeeping, PTL DEF UpdateSpec

\* The types hold, and an actor works only in a running node, with the gate closed once it has begun.
THEOREM TypeCorrect == UpdateSpec => []TypeOK
<1>1. UpdateInv => TypeOK
  <2> SUFFICES ASSUME UpdateInv PROVE TypeOK
    OBVIOUS
  <2>1. /\ node.run \in Values \ {Damaged} /\ boot.run \in Values \ {Damaged}
        /\ disk \in [Paths -> Nothing .. Damaged]
    BY DEF UpdateInv, UpdateTypes, Sound, Values
  <2>2. Values \ {Damaged} = {Nothing} \union Installable
    BY Numbers
  <2>3. \A a \in Actors : work[a] # Idle => node.up /\ (work[a].pc # "begun" => node.gate)
    BY DEF UpdateInv, Owners
  <2> QED
    BY <2>1, <2>2, <2>3 DEF TypeOK, UpdateInv, Owners
<1> QED
  BY <1>1, UpdateInvariance, PTL

\* Whatever fails, and whenever the power does: a program that can be executed is in place, in the
\* backup or beside it, and nothing that was damaged after its digest was taken is.
THEOREM NothingIsLost == UpdateSpec => []NothingLost
<1>1. UpdateInv => NothingLost
  BY DEF UpdateInv
<1> QED
  BY <1>1, UpdateInvariance, PTL

\* A node hands out the program it has in place, unless a helper puts the backup back under it.
THEOREM ItOffersItself == UpdateSpec => []OffersItself
<1>1. UpdateInv => OffersItself
  BY DEF UpdateInv
<1> QED
  BY <1>1, UpdateInvariance, PTL

\* Once an update has landed nothing touches its marker, and no other update begins, until the
\* node ends.
THEOREM WhatLandedIsKept == UpdateSpec => LandedIsKept
<1>1. ASSUME UpdateInv, UpdateNext, Landed, node'.up PROVE Landed' /\ disk'["marker"] = disk["marker"]
  <2>1. /\ node.up /\ node.gate /\ \A a \in Actors : work[a].pc \in {"idle", "begun"}
        /\ \A h \in Helpers : helper[h].pc \notin Locked
    BY <1>1 DEF Landed, UpdateInv, OneOwner
  <2>2. /\ Actors = {"round", "console"} /\ NoNode.up = FALSE
        /\ UpdateTypes /\ \A a \in Actors : work[a].target \in Values
    BY <1>1 DEF Actors, NoNode, UpdateInv, UpdateTypes
  <2>3. CASE disk'["marker"] = disk["marker"] /\ node' = node /\ work' = work
    BY <2>1, <2>3 DEF Landed
  <2>4. CASE Exits
    BY <1>1, <2>2, <2>4 DEF Exits
  <2>5. CASE RoundEnters
    <3> DEFINE v == work["round"].target
    <3>1. disk' = disk /\ GoesOn("round", "idle", v, node.done \ {v}, TRUE)
      BY <2>1, <2>5 DEF RoundEnters
    <3>2. node.done \ {v} \in SUBSET Programs /\ v \in Values /\ "round" \in Actors
      BY <2>2 DEF UpdateTypes
    <3> HIDE DEF v
    <3>3. node'.gate = TRUE /\ node'.up = node.up /\ work'["round"] = Idle /\ \A b \in Actors \ {"round"} : work'[b] = work[b]
      BY <2>2, <3>1, <3>2, Ending
    <3> QED
      BY <2>1, <3>1, <3>3 DEF Landed, Idle
  <2>6. ASSUME NEW h \in Helpers, Help(h) PROVE disk'["marker"] = disk["marker"] /\ node' = node /\ work' = work
    <3>1. "marker" \in Paths /\ disk \in [Paths -> Values]
      BY <2>2 DEF Paths, UpdateTypes
    <3> QED
      BY <2>1, <2>6, <3>1 DEF Help, FindsNoMarker, FindsMarker, TakesLock, Waits, TimesOut, Apply, StartsProgram, StartFails,
        Restores, Rewrites, FindsItGone, DropsMarker, Mismatches, BacksUp, BackupFails, Vacates, Writes, ReplaceFails,
        Unmarks, UnmarkFails, Sweeps, Helps, Puts, In, Locked
  <2>7. CASE Launch \/ HandsOver \/ ComesUp \/ Refused \/ Spoils
    <3>1. "marker" \in Paths /\ disk \in [Paths -> Values]
      BY <2>2 DEF Paths, UpdateTypes
    <3> QED
      BY <2>1, <2>3, <2>7, <3>1 DEF Launch, HandsOver, ComesUp, Refused, Spoils, LockFree, Puts
  <2>8. CASE UpdateRoutes \/ Crash
    BY <2>1, <2>2, <2>4, <2>8 DEF UpdateRoutes, Crash, Click, RestartByHelper, RestartPlain, Quit
  <2>9. ~(\E v \in Programs : Round(v)) /\ ~Downloads /\ ~Verifies /\ ~Unpacks
        /\ ~\E a \in Actors : FetchFails(a) \/ Stage(a)
    BY <2>1, <2>2 DEF Round, Downloads, Verifies, Unpacks, FetchFails, Stage, ClearsMarker, Publishes, Digests, Marks,
      StageFails, At
  <2> QED
    BY <1>1, <2>3, <2>5, <2>6, <2>7, <2>8, <2>9 DEF UpdateNext, Loop
<1>2. UpdateInv /\ [UpdateNext]_updateVars => [Landed /\ node'.up => Landed' /\ disk'["marker"] = disk["marker"]]_updateVars
  BY <1>1
<1> QED
  BY <1>2, UpdateInvariance, PTL DEF UpdateSpec, LandedIsKept

-----------------------------------------------------------------------------
(* The listeners of the port forwards *)

Places == {"idle", "save", "lock", "read", "align", "over"}

ClientTypes ==
  /\ table \in Tables /\ saw \in [Callers -> Tables] /\ doing \in [Callers -> Places]
  /\ stops \in [Callers -> SUBSET Ports] /\ starts \in [Callers -> SUBSET Ports]
  /\ listed \in [Ports -> Listeners \union {None}]
  /\ what \in [Listeners -> Rules \union {None}]
  /\ faults \in Nat /\ file \in Tables \union {None}

\* One caller at a time brings the listeners in line; nobody does before New.
OneAligns ==
  /\ \A s \in Callers : doing[s] \in {"read", "align"} => lock = s
  /\ step \in {"host", "join", "start", "serve"} => \A s \in Callers : doing[s] = "idle"

\* Close works on a node whose context is over.
ClosedContext == closing \notin {"no", "ctx"} => ~alive

Known == \A p \in Ports : listed[p] # None => what[listed[p]] # None

\* Somebody has yet to compare the listeners with the table.
Pending == \E s \in Callers : doing[s] \in {"save", "lock", "read"}

\* What is there on port p, as far as it is not to be changed.
Settled(p) ==
  /\ listed[p] # None => what[listed[p]].target = table[p]
  /\ listed[p] = None => table[p] = None \/ faults > 0 \/ ~alive

\* The caller s knows what is left to do.
Plans(s) ==
  /\ saw[s] = table
  /\ stops[s] # {} => starts[s] = {p \in Ports : table[p] # None}
  /\ \A p \in Ports :
       /\ p \notin stops[s] /\ listed[p] # None => what[listed[p]].target = table[p]
       /\ p \notin stops[s] \union starts[s] => Settled(p)

InLine ==
  Pending \/ IF \E s \in Callers : doing[s] = "align"
             THEN \A s \in Callers : doing[s] = "align" => Plans(s)
             ELSE \A p \in Ports : Settled(p)

ClientInv ==
  /\ ClientTypes /\ OneAligns /\ ClosedContext /\ Known /\ InLine
  /\ closing \in {"back", "done"} => Listed = {}

LEMMA ClientConstants ==
  /\ MaxFaults \in Nat /\ None \notin Listeners /\ None \notin Callers /\ None \notin Rules
  /\ NoTable \in Tables /\ Files \subseteq Tables \union {None} /\ New \in Callers /\ Setters \subseteq Callers
BY ClientAssumption DEF NoTable, Tables, Callers

LEMMA ClientStarting == Init => ClientInv
<1> SUFFICES ASSUME Init PROVE ClientInv
  OBVIOUS
<1> USE ClientConstants DEF Init
<1>1. ClientTypes
  BY DEF ClientTypes, Places
<1>2. OneAligns /\ ClosedContext /\ Known /\ (closing \in {"back", "done"} => Listed = {})
  BY DEF OneAligns, ClosedContext, Known
<1>3. \A p \in Ports : Settled(p)
  BY DEF Settled, NoTable
<1> QED
  BY <1>1, <1>2, <1>3 DEF ClientInv, InLine

\* Steps that leave the table, the callers and the listeners of the table alone.
LEMMA Apart ==
  ASSUME ClientInv, UNCHANGED <<tables, syncing, listed, what>>, alive' => alive, faults' \in Nat, faults' >= faults,
         step' \in {"host", "join", "start", "serve"} => step \in {"host", "join", "start", "serve"},
         closing' = closing \/ closing' \in {"no", "ctx"} \/ (closing' \in {"front", "dns", "listeners"} /\ ~alive')
           \/ (closing' = "done" /\ closing = "back")
  PROVE  ClientInv'
<1> USE DEF ClientInv, tables, syncing
<1>1. ClientTypes' /\ OneAligns' /\ Known'
  BY DEF ClientTypes, OneAligns, Known
<1>2. ClosedContext' /\ (closing' \in {"back", "done"} => Listed' = {})
  BY DEF ClosedContext, Listed
<1>3. InLine'
  <2>1. \A p \in Ports : Settled(p) => Settled(p)'
    BY DEF Settled, ClientTypes
  <2>2. \A s \in Callers : Plans(s) => Plans(s)'
    BY <2>1 DEF Plans
  <2> QED
    BY <2>1, <2>2 DEF InLine, Pending
<1> QED
  BY <1>1, <1>2, <1>3

LEMMA ApartSteps ==
  ASSUME ClientInv,
         \/ HostUp \/ JoinsGroup \/ MakesDiscovery \/ StartsDiscovery \/ StartsTUN \/ StartsDNS \/ StartsConsole
         \/ Fails \/ Cancels \/ Close \/ CancelsRoot \/ ReleasesFront \/ ReleasesDNS \/ ReleasesBack
         \/ BindsDNS \/ EndsDNS \/ EndsTUN
         \/ \E l \in Listeners : Follows(l) \/ ShutsDown(l) \/ AcceptEnds(l)
         \/ \E l \in Listeners, k \in Conns : Accepts(l, k) \/ Admits(l, k)
         \/ \E k \in Conns : Arrives(k) \/ Asks(k) \/ Dials(k) \/ HalfEnds(k)
         \/ UNCHANGED vars
  PROVE  ClientInv'
<1>0. faults \in Nat
  BY DEF ClientInv, ClientTypes
<1>1. ASSUME NEW f \in {0, 1}, faults' = faults + f PROVE faults' \in Nat /\ faults' >= faults
  BY <1>0, <1>1
<1> USE <1>0
<1>2. CASE \/ HostUp \/ JoinsGroup \/ MakesDiscovery \/ StartsDiscovery \/ StartsTUN \/ StartsDNS
           \/ StartsConsole \/ Fails \/ Cancels \/ Close
  <2>1. /\ UNCHANGED <<tables, syncing, listed, what>> /\ (alive' => alive) /\ (faults' = faults \/ faults' = faults + 1)
        /\ step' \in {"host", "join", "start", "serve"} => step \in {"host", "join", "start", "serve"}
        /\ closing' = closing \/ closing' \in {"no", "ctx"}
    BY <1>2 DEF HostUp, JoinsGroup, MakesDiscovery, StartsDiscovery, StartsTUN, StartsDNS, StartsConsole, Fails,
      Cancels, Close, JoinGroup, Goes, Faulty, ears
  <2> QED
    BY <2>1, Apart
<1>3. CASE CancelsRoot \/ ReleasesFront \/ ReleasesDNS \/ ReleasesBack \/ BindsDNS \/ EndsDNS \/ EndsTUN
  <2>1. /\ UNCHANGED <<tables, syncing, listed, what>> /\ (alive' => alive) /\ (faults' = faults \/ faults' = faults + 1)
        /\ step' = step
        /\ \/ closing' = closing
           \/ closing' \in {"front", "dns", "listeners"} /\ ~alive'
           \/ closing' = "done" /\ closing = "back"
    BY <1>3 DEF CancelsRoot, ReleasesFront, ReleasesDNS, ReleasesBack, BindsDNS, EndsDNS, EndsTUN, Faulty, ears,
      ClientInv, ClosedContext
  <2> QED
    BY <2>1, Apart
<1>4. CASE \/ \E l \in Listeners : Follows(l) \/ ShutsDown(l) \/ AcceptEnds(l)
           \/ \E l \in Listeners, k \in Conns : Accepts(l, k) \/ Admits(l, k)
           \/ \E k \in Conns : Arrives(k) \/ Asks(k) \/ Dials(k) \/ HalfEnds(k)
           \/ UNCHANGED vars
  <2>1. /\ UNCHANGED <<tables, syncing, listed, what>> /\ alive' = alive /\ (faults' = faults \/ faults' = faults + 1)
        /\ step' = step /\ closing' = closing
    BY <1>4 DEF Follows, ShutsDown, AcceptEnds, Accepts, Admits, Arrives, Asks, Dials, HalfEnds, Faulty, ears, life_,
      vars
  <2> QED
    BY <2>1, Apart
<1> QED
  BY <1>2, <1>3, <1>4

\* A step of the caller s.
LEMMA CallerSteps ==
  ASSUME ClientInv, NEW s \in Callers,
         \/ \E t \in Tables : Stores(s, t)
         \/ Saves(s) \/ Locks(s) \/ Compares(s) \/ Unlocks(s)
         \/ \E p \in Ports : Stops(s, p) \/ Starts(s, p)
  PROVE  ClientInv'
<1> USE ClientConstants DEF ClientInv, life_, tables, syncing, copies
<1>1. ASSUME NEW t \in Tables, Stores(s, t) PROVE ClientInv'
  <2> USE <1>1 DEF Set, Stores, ClientTypes, Places, ears
  <2>1. doing' \in [Callers -> Places] /\ doing'[s] = "save" /\ \A r \in Callers \ {s} : doing'[r] = doing[r]
    OBVIOUS
  <2>2. ClientTypes' /\ OneAligns' /\ ClosedContext' /\ Known'
    BY <2>1 DEF OneAligns, ClosedContext, Known
  <2>3. InLine' /\ (closing' \in {"back", "done"} => Listed' = {})
    BY <2>1 DEF InLine, Pending, Listed
  <2> QED
    BY <2>2, <2>3
<1>2. CASE Saves(s) \/ Locks(s)
  <2> USE <1>2 DEF Set, Saves, Locks, ClientTypes, Places, ears
  <2>1. /\ doing' \in [Callers -> Places] /\ doing'[s] \in {"lock", "read"}
        /\ \A r \in Callers \ {s} : doing'[r] = doing[r]
        /\ saw[s] \in Tables
    OBVIOUS
  <2>2. ClientTypes' /\ ClosedContext' /\ Known'
    BY <2>1 DEF ClosedContext, Known
  <2>3. OneAligns'
    BY <2>1 DEF OneAligns
  <2>4. InLine' /\ (closing' \in {"back", "done"} => Listed' = {})
    BY <2>1 DEF InLine, Pending, Listed
  <2> QED
    BY <2>2, <2>3, <2>4
<1>3. CASE Compares(s)
  <2> DEFINE st == {p \in Ports : listed[p] # None /\ what[listed[p]].target # table[p]}
             sa == {p \in Ports : table[p] # None}
  <2>1. /\ doing[s] = "read" /\ UNCHANGED <<life_, tables, lock, ears, faults>>
        /\ saw' = Set(saw, s, table) /\ stops' = Set(stops, s, st) /\ starts' = Set(starts, s, sa)
        /\ doing' = Set(doing, s, "align") /\ st \in SUBSET Ports /\ sa \in SUBSET Ports
    BY <1>3 DEF Compares
  <2> HIDE DEF st, sa
  <2>2. /\ doing' \in [Callers -> Places] /\ doing'[s] = "align"
        /\ \A r \in Callers \ {s} : doing'[r] = doing[r]
    BY <2>1 DEF Set, ClientTypes, Places
  <2>3. stops' \in [Callers -> SUBSET Ports] /\ stops'[s] = st
    BY <2>1 DEF Set, ClientTypes
  <2>4. starts' \in [Callers -> SUBSET Ports] /\ starts'[s] = sa
    BY <2>1 DEF Set, ClientTypes
  <2>5. saw' \in [Callers -> Tables] /\ saw'[s] = table
    BY <2>1 DEF Set, ClientTypes
  <2>6. ClientTypes' /\ ClosedContext' /\ Known' /\ OneAligns'
    BY <2>1, <2>2, <2>3, <2>4, <2>5 DEF ClientTypes, ClosedContext, Known, OneAligns, ears
  <2>7. Plans(s)'
    BY <2>1, <2>3, <2>4, <2>5 DEF st, sa, Plans, Settled, ears
  <2>8. \A r \in Callers : doing'[r] = "align" => r = s
    BY <2>1, <2>2 DEF OneAligns
  <2>9. InLine' /\ (closing' \in {"back", "done"} => Listed' = {})
    BY <2>1, <2>2, <2>7, <2>8 DEF InLine, Pending, Listed, ears
  <2> QED
    BY <2>6, <2>9
<1>4. CASE Unlocks(s)
  <2>1. /\ doing[s] = "align" /\ stops[s] = {} /\ starts[s] = {}
        /\ UNCHANGED <<life_, tables, stops, starts, ears, copies, faults>>
        /\ doing' = Set(doing, s, "over") /\ saw' = Set(saw, s, NoTable)
    BY <1>4 DEF Unlocks, Aligned
  <2>2. /\ doing' \in [Callers -> Places] /\ doing'[s] = "over"
        /\ \A r \in Callers \ {s} : doing'[r] = doing[r]
    BY <2>1 DEF Set, ClientTypes, Places
  <2>3. saw' \in [Callers -> Tables] /\ \A r \in Callers \ {s} : saw'[r] = saw[r]
    BY <2>1 DEF Set, ClientTypes
  <2>4. ClientTypes' /\ ClosedContext' /\ Known'
    BY <2>1, <2>2, <2>3 DEF ClientTypes, ClosedContext, Known, ears
  <2>5. \A r \in Callers : doing'[r] \notin {"read", "align"}
    BY <2>1, <2>2 DEF OneAligns
  <2>6. OneAligns'
    BY <2>1, <2>2, <2>5 DEF OneAligns
  <2>7. InLine' /\ (closing' \in {"back", "done"} => Listed' = {})
    BY <2>1, <2>2, <2>5 DEF InLine, Pending, Listed, Plans, Settled, ears
  <2> QED
    BY <2>4, <2>6, <2>7
<1>5. ASSUME NEW p \in Ports, Stops(s, p) PROVE ClientInv'
  <2>1. /\ doing[s] = "align" /\ p \in stops[s] /\ UNCHANGED <<life_, tables, doing, saw, starts, lock, what, faults>>
        /\ stops' = Set(stops, s, stops[s] \ {p}) /\ listed' = Set(listed, p, None)
    BY <1>5 DEF Stops
  <2>2. /\ stops' \in [Callers -> SUBSET Ports] /\ stops'[s] = stops[s] \ {p}
        /\ \A r \in Callers \ {s} : stops'[r] = stops[r]
    BY <2>1 DEF Set, ClientTypes
  <2>3. /\ listed' \in [Ports -> Listeners \union {None}] /\ listed'[p] = None
        /\ \A q \in Ports \ {p} : listed'[q] = listed[q]
    BY <2>1 DEF Set, ClientTypes
  <2>4. ClientTypes' /\ ClosedContext' /\ Known' /\ OneAligns'
    BY <2>1, <2>2, <2>3 DEF ClientTypes, ClosedContext, Known, OneAligns
  <2>5. Plans(s) => Plans(s)'
    BY <2>1, <2>2, <2>3 DEF Plans, Settled
  <2>6. InLine'
    BY <2>1, <2>5 DEF InLine, Pending, OneAligns
  <2>7. closing' \in {"back", "done"} => Listed' = {}
    BY <2>1, <2>3 DEF Listed
  <2> QED
    BY <2>4, <2>6, <2>7
<1>6. ASSUME NEW p \in Ports, Starts(s, p) PROVE ClientInv'
  <2>0. faults \in Nat
    BY DEF ClientTypes
  <2>1. /\ doing[s] = "align" /\ stops[s] = {} /\ p \in starts[s]
        /\ UNCHANGED <<life_, tables, doing, saw, stops, lock>>
        /\ starts' = Set(starts, s, starts[s] \ {p})
    BY <1>6 DEF Starts, Aligned
  <2>2. /\ starts' \in [Callers -> SUBSET Ports] /\ starts'[s] = starts[s] \ {p}
        /\ \A r \in Callers \ {s} : starts'[r] = starts[r]
    BY <2>1 DEF Set, ClientTypes
  <2>3. ASSUME UNCHANGED <<listed, what>>, faults' \in Nat, faults' >= faults, listed[p] # None \/ ~alive \/ faults' > 0
        PROVE  ClientInv'
    <3>1. ClientTypes'
      BY <2>1, <2>2, <2>3 DEF ClientTypes
    <3>2. ClosedContext' /\ Known' /\ OneAligns'
      BY <2>1, <2>2, <2>3 DEF ClosedContext, Known, OneAligns
    <3>3. \A q \in Ports : Settled(q) => Settled(q)'
      BY <2>0, <2>1, <2>3 DEF Settled
    <3>4. Plans(s) => Plans(s)'
      BY <2>1, <2>2, <2>3, <3>3 DEF Plans, Settled
    <3>5. InLine'
      BY <2>1, <3>4 DEF InLine, Pending, OneAligns
    <3>6. closing' \in {"back", "done"} => Listed' = {}
      BY <2>1, <2>3 DEF Listed
    <3> QED
      BY <3>1, <3>2, <3>5, <3>6
  <2>4. ASSUME Listens(s, p), faults' = faults, alive
        PROVE  ClientInv'
    <3> DEFINE rule == [port |-> p, target |-> saw[s][p]]
               l == CHOOSE m \in Fresh : TRUE
    <3>1. /\ l \in Listeners /\ what[l] = None
          /\ what' = Set(what, l, rule) /\ listed' = Set(listed, p, l)
      BY <2>4 DEF Listens, Fresh
    <3>2. rule \in Rules /\ rule # None /\ rule.target = saw[s][p]
      BY DEF ClientTypes, Tables, Rules
    <3> HIDE DEF rule, l
    <3>3. /\ what' \in [Listeners -> Rules \union {None}] /\ what'[l] = rule
          /\ \A m \in Listeners \ {l} : what'[m] = what[m]
      BY <3>1, <3>2 DEF Set, ClientTypes
    <3>4. /\ listed' \in [Ports -> Listeners \union {None}] /\ listed'[p] = l
          /\ \A q \in Ports \ {p} : listed'[q] = listed[q]
      BY <3>1 DEF Set, ClientTypes
    <3>5. \A q \in Ports : listed[q] # None => listed[q] # l /\ what'[listed[q]] = what[listed[q]]
      BY <3>1, <3>3 DEF Known, ClientTypes
    <3>6. l # None
      BY <3>1
    <3>7. ClientTypes'
      BY <2>0, <2>1, <2>2, <2>4, <3>3, <3>4 DEF ClientTypes
    <3>8. ClosedContext' /\ OneAligns'
      BY <2>1, <2>4 DEF ClosedContext, OneAligns
    <3>9. Known'
      BY <3>2, <3>3, <3>4, <3>5 DEF Known
    <3>10. \A q \in Ports \ {p} : Settled(q) => Settled(q)'
      BY <2>1, <2>4, <3>4, <3>5 DEF Settled
    <3>11. Plans(s) => Plans(s)'
      <4> SUFFICES ASSUME Plans(s) PROVE Plans(s)'
        OBVIOUS
      <4>1. saw'[s] = table' /\ stops'[s] = {}
        BY <2>1 DEF Plans
      <4>2. what'[listed'[p]].target = table'[p]
        BY <2>1, <3>2, <3>3, <3>4 DEF Plans
      <4>3. \A q \in Ports \ {p} : listed'[q] # None => what'[listed'[q]].target = table'[q]
        BY <2>1, <3>4, <3>5 DEF Plans
      <4>4. Settled(p)'
        BY <3>4, <3>6, <4>2 DEF Settled
      <4>5. \A q \in Ports : q \notin stops'[s] \union starts'[s] => Settled(q)'
        BY <2>1, <2>2, <3>10, <4>4 DEF Plans
      <4> QED
        BY <4>1, <4>2, <4>3, <4>5 DEF Plans
    <3>12. InLine'
      BY <2>1, <3>11 DEF InLine, Pending, OneAligns
    <3>13. closing' \in {"back", "done"} => Listed' = {}
      BY <2>1, <2>4 DEF ClosedContext
    <3> QED
      BY <3>7, <3>8, <3>9, <3>12, <3>13
  <2>5. \/ /\ UNCHANGED <<listed, what>> /\ (faults' = faults \/ faults' = faults + 1)
           /\ listed[p] # None \/ ~alive \/ faults' = faults + 1
        \/ Listens(s, p) /\ faults' = faults /\ alive
    BY <1>6 DEF Starts, ears, Faulty
  <2>6. CASE Listens(s, p) /\ faults' = faults /\ alive
    BY <2>4, <2>6
  <2>7. CASE /\ UNCHANGED <<listed, what>> /\ (faults' = faults \/ faults' = faults + 1)
             /\ listed[p] # None \/ ~alive \/ faults' = faults + 1
    <3>1. faults' \in Nat /\ faults' >= faults /\ (faults' = faults + 1 => faults' > 0)
      BY <2>0, <2>7
    <3> QED
      BY <2>3, <2>7, <3>1
  <2> QED
    BY <2>5, <2>6, <2>7
<1> QED
  BY <1>1, <1>2, <1>3, <1>4, <1>5, <1>6

\* New loads the table and brings the listeners in line for the first time.
LEMMA ServesStep ==
  ASSUME ClientInv, Serves
  PROVE  ClientInv'
<1> USE ClientConstants DEF ClientInv
<1>1. /\ step = "serve" /\ step' = "listen" /\ doing' = Set(doing, New, "lock")
      /\ ((table' = file /\ file # None) \/ table' = table)
      /\ UNCHANGED <<alive, closing, file, saw, stops, starts, lock, ears, faults>>
  BY DEF Serves, Goes, LoadState
<1>2. /\ doing' \in [Callers -> Places] /\ doing'[New] = "lock"
      /\ \A r \in Callers \ {New} : doing'[r] = doing[r]
  BY <1>1 DEF Set, ClientTypes, Places
<1>3. ClientTypes'
  BY <1>1, <1>2 DEF ClientTypes, ears
<1>4. ClosedContext' /\ Known' /\ OneAligns'
  BY <1>1, <1>2 DEF ClosedContext, Known, OneAligns, ears
<1>5. InLine' /\ (closing' \in {"back", "done"} => Listed' = {})
  BY <1>1, <1>2 DEF InLine, Pending, Listed, ears
<1> QED
  BY <1>3, <1>4, <1>5

\* Close takes the listeners of the table: the context of the node is over by then.
LEMMA ReleasesListenersStep ==
  ASSUME ClientInv, ReleasesListeners
  PROVE  ClientInv'
<1> USE ClientConstants DEF ClientInv
<1>1. /\ closing = "listeners" /\ UNCHANGED <<step, alive, tables, syncing, what, faults>>
      /\ \/ UNCHANGED <<listed, closing>>
         \/ listed' = [p \in Ports |-> None] /\ closing' = "back"
  BY DEF ReleasesListeners
<1>2. CASE UNCHANGED <<listed, closing>>
  BY <1>1, <1>2, Apart DEF ClientTypes
<1>3. CASE listed' = [p \in Ports |-> None] /\ closing' = "back"
  <2>1. ~alive
    BY <1>1 DEF ClosedContext
  <2>2. ClientTypes'
    BY <1>1, <1>3 DEF ClientTypes, tables, syncing
  <2>3. ClosedContext' /\ Known' /\ OneAligns' /\ Listed' = {}
    BY <1>1, <1>3, <2>1 DEF ClosedContext, Known, OneAligns, Listed, syncing
  <2>4. \A p \in Ports : Settled(p)'
    BY <1>1, <1>3, <2>1 DEF Settled
  <2>5. \A s \in Callers : Plans(s) => Plans(s)'
    BY <1>1, <1>3, <2>4 DEF Plans, tables, syncing
  <2>6. InLine'
    BY <1>1, <2>4, <2>5 DEF InLine, Pending, syncing
  <2> QED
    BY <2>2, <2>3, <2>6
<1> QED
  BY <1>1, <1>2, <1>3

LEMMA ClientKeeping == ClientInv /\ [Next]_vars => ClientInv'
<1> SUFFICES ASSUME ClientInv, [Next]_vars PROVE ClientInv'
  OBVIOUS
<1>1. CASE Serves
  BY <1>1, ServesStep
<1>2. CASE ReleasesListeners
  BY <1>2, ReleasesListenersStep
<1>3. CASE \E s \in Callers : \/ Saves(s) \/ Locks(s) \/ Compares(s) \/ Unlocks(s)
                              \/ \E p \in Ports : Stops(s, p) \/ Starts(s, p)
  BY <1>3, CallerSteps
<1>4. ASSUME NEW s \in Setters, NEW t \in Tables, Stores(s, t) PROVE ClientInv'
  BY <1>4, CallerSteps, ClientConstants
<1>5. CASE \E k \in Conns : CutsOff(k)
  BY <1>5, ApartSteps DEF CutsOff
<1>6. CASE UNCHANGED vars
  BY <1>6, ApartSteps
<1>7. CASE \/ HostUp \/ JoinsGroup \/ MakesDiscovery \/ StartsDiscovery \/ StartsTUN \/ StartsDNS \/ StartsConsole
           \/ CancelsRoot \/ ReleasesFront \/ ReleasesDNS \/ ReleasesBack \/ BindsDNS \/ EndsDNS \/ EndsTUN
           \/ Fails \/ Cancels \/ Close
  BY <1>7, ApartSteps
<1>8. CASE \/ \E l \in Listeners : Follows(l) \/ ShutsDown(l) \/ (\E k \in Conns : Admits(l, k)) \/ AcceptEnds(l)
           \/ \E l \in Listeners : \E k \in Conns : Accepts(l, k)
           \/ \E k \in Conns : Asks(k) \/ Dials(k) \/ Arrives(k) \/ HalfEnds(k)
  BY <1>8, ApartSteps
<1> QED
  BY <1>1, <1>2, <1>3, <1>4, <1>5, <1>6, <1>7, <1>8 DEF Next, Works

\* In every reachable state the listeners are in line with the table, or somebody who has
\* seen the table knows what is left to do, or somebody has yet to look.
THEOREM ClientInvariance == Spec => []ClientInv
<1> QED
  BY ClientStarting, ClientKeeping, PTL DEF Spec

\* When every caller of SetLANForwards is through, the listeners are those of the last table
\* (syncListenForwards, lfReconcileMu), and none is started behind the back of Close.
THEOREM TheLastTableWins == Spec => []LastTableWins
<1>1. ClientInv => LastTableWins
  <2> SUFFICES ASSUME ClientInv PROVE LastTableWins
    OBVIOUS
  <2>1. ASSUME Resting, NEW p \in Ports
        PROVE  IF listed[p] # None THEN what[listed[p]].target = table[p] ELSE table[p] = None \/ faults > 0
    <3>1. ~Pending /\ ~(\E s \in Callers : doing[s] = "align") /\ alive
      BY <2>1 DEF Resting, Pending
    <3>2. Settled(p)
      BY <3>1 DEF ClientInv, InLine
    <3> QED
      BY <3>1, <3>2 DEF Settled
  <2> QED
    BY <2>1 DEF LastTableWins, ClientInv
<1> QED
  BY <1>1, ClientInvariance, PTL
==============================================================================
