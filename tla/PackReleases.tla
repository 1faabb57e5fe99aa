----------------------------- MODULE PackReleases -----------------------------
(***************************************************************************)
(* One plugin pack on disk: its source tree, its built UI, its release     *)
(* snapshots and its entry of lock.json, as internal/pluginpack/manager.go *)
(* and release.go change them.                                             *)
(*                                                                         *)
(* EnsureSeeded, BuildUI, Snapshot, Rollback and SetEnabled hold Manager.mu*)
(* from start to end, so at most one of them is in progress (op); they are *)
(* sequences of file-system steps, and the process may die between any two *)
(* of them.  WriteSourceFile and PatchSourceFile (files.go) do not take the*)
(* lock and run between the steps of the others.                           *)
(*                                                                         *)
(* A source tree is abstracted to the version in its pack.yml and the set  *)
(* of user edits it contains; an edit is the last write of one file. What  *)
(* a removal leaves when it is cut off or fails is any part of the tree or *)
(* release; a UI cut off half way counts as the whole or as none.          *)
(***************************************************************************)
EXTENDS Naturals, FiniteSets

CONSTANTS
  Seeded,    \* TRUE: the pack is one of the built-in seeds
  MaxSeed,   \* bound: versions of the seed, 1..MaxSeed, one per app upgrade
  Edits,     \* the user's writes, each made at most once
  MaxEdits,  \* bound: writes the user makes
  Breaking,  \* the edits that leave a pack.yml that cannot be parsed
  Skipped,   \* the edits below node_modules, .git or dist
  Keep,      \* maxPackReleases, 20 in the code
  MaxTime,   \* bound: seconds the clock can show, 0..MaxTime
  PerSecond, \* bound: snapshots started within one second
  MaxRuns,   \* bound: times the app is started
  MaxOps     \* bound: operations the user asks for

ASSUME SeededAssumption == Seeded \in BOOLEAN
ASSUME EditsAssumption == Breaking \subseteq Edits /\ Skipped \subseteq Edits
ASSUME BoundsAssumption ==
  /\ MaxSeed \in Nat \ {0}
  /\ Keep \in Nat \ {0}
  /\ MaxTime \in Nat
  /\ PerSecond \in Nat \ {0}
  /\ MaxRuns \in Nat \ {0}
  /\ MaxOps \in Nat
  /\ MaxEdits \in Nat

Versions == 1..MaxSeed

(* A release id is its version and second; within the same second a second *)
(* id with a constant suffix is tried, and taken whether it is free or not.*)
Ids == Versions \X (0..MaxTime) \X {0, 1}
NoId == <<0, 0, 0>>

(* main: pack.yml is there; whole: the copy that made the tree completed,  *)
(* and no removal of it began; v: 0 when there is no directory.            *)
Trees == [main : BOOLEAN, whole : BOOLEAN,
          v : 0..MaxSeed, edits : SUBSET Edits]
NoTree == [main |-> FALSE, whole |-> FALSE, v |-> 0, edits |-> {}]

(* A built UI is the version it was built from, 0 when there is none.      *)
UIs == 0..MaxSeed

(* A release directory; it is listed once its meta.json is written.        *)
Releases == [dir : BOOLEAN, meta : BOOLEAN, src : Trees, ui : UIs]
NoRelease == [dir |-> FALSE, meta |-> FALSE, src |-> NoTree, ui |-> 0]

(* What befell a release: kept, or a snapshot of the same second is written*)
(* over it, or its removal was begun, or it became active after that.      *)
Fates == {"kept", "rewritten", "pruned", "activated"}

Kinds == {"none", "seed", "build", "snapshot", "rollback"}
Steps == {"idle", "check", "snap", "snapCopy", "snapMeta", "prune", "pruning",
          "compile", "remove", "restore", "copying", "dropUI", "restoreUI", "lock"}

VARIABLES
  up,       \* the process runs
  launches, \* times it was started
  seed,     \* version of the seed the running app carries
  work,     \* plugins/<pack>: the source tree
  ui,       \* run/<pack>/ui: the built UI
  releases, \* releases/<pack>/<id>
  lock,     \* the entry of lock.json, written atomically (tmp + rename)
  op,       \* the operation that holds Manager.mu
  now,      \* the clock, in seconds
  made,     \* snapshots started in the current second
  asked,    \* operations the user asked for
  written,  \* history: edits the user made
  late,     \* history: edits that the snapshot of the operation in progress
            \* need not have: made while it runs, or found without a pack.yml
  fate      \* history: what befell each release

process == <<up, launches, seed>>
clock == <<now, made>>
user == <<asked, written, late>>
vars == <<process, work, ui, releases, lock, op, clock, user, fate>>

(* id: the release it makes; doomed: those yet to be pruned; failed: its   *)
(* snapshot failed, or is pruned itself; room: it began below the limit.   *)
Idle == [kind |-> "none", pc |-> "idle", id |-> NoId, target |-> NoId,
         doomed |-> {}, failed |-> FALSE, room |-> FALSE]

TypeOK ==
  /\ up \in BOOLEAN
  /\ launches \in 0..MaxRuns
  /\ seed \in Versions
  /\ work \in Trees
  /\ ui \in UIs
  /\ releases \in [Ids -> Releases]
  /\ lock \in [entry : BOOLEAN, enabled : BOOLEAN, active : Ids \cup {NoId}]
  /\ op \in [kind : Kinds, pc : Steps, id : Ids \cup {NoId},
             target : Ids \cup {NoId}, doomed : SUBSET Ids,
             failed : BOOLEAN, room : BOOLEAN]
  /\ now \in 0..MaxTime
  /\ made \in 0..PerSecond
  /\ asked \in 0..MaxOps
  /\ written \in SUBSET Edits
  /\ late \in SUBSET Edits
  /\ fate \in [Ids -> Fates]

(* A pack that is not a seed was put there by the user.                    *)
Init ==
  /\ up = FALSE
  /\ launches = 0
  /\ seed = 1
  /\ work = IF Seeded THEN NoTree
            ELSE [main |-> TRUE, whole |-> TRUE, v |-> 1, edits |-> {}]
  /\ ui = 0
  /\ releases = [i \in Ids |-> NoRelease]
  /\ lock = [entry |-> FALSE, enabled |-> FALSE, active |-> NoId]
  /\ op = Idle
  /\ now = 0
  /\ made = 0
  /\ asked = 0
  /\ written = {}
  /\ late = {}
  /\ fate = [i \in Ids |-> "kept"]

-----------------------------------------------------------------------------
(* Helpers.                                                                *)

Listed == {i \in Ids : releases[i].meta}

(* readManifestUnlocked succeeds.                                          *)
Valid == work.main /\ work.edits \cap Breaking = {}

(* packInfoUnlocked: a pack without an entry counts as enabled.            *)
Enabled == lock.entry => lock.enabled

SeedTree == [main |-> TRUE, whole |-> TRUE, v |-> seed, edits |-> {}]

(* The part of a tree that a removal leaves when it is cut off.            *)
PartsOf(tree) ==
  {NoTree} \cup [main : {FALSE, tree.main}, whole : {FALSE},
                 v : {tree.v}, edits : SUBSET tree.edits]

(* os.RemoveAll of a release, whose error is dropped: nothing is left, or  *)
(* some of its files.                                                      *)
RestsOf(release) ==
  {NoRelease} \cup [dir : {TRUE}, meta : {FALSE, release.meta},
                    src : PartsOf(release.src), ui : {release.ui}]

(* No snapshot is made of a tree without pack.yml.                         *)
Unsaved == IF work.main THEN {} ELSE work.edits

Begin(kind, pc, target) ==
  /\ up
  /\ op.kind = "none"
  /\ asked < MaxOps
  /\ asked' = asked + 1
  /\ op' = [Idle EXCEPT !.kind = kind, !.pc = pc, !.target = target,
                        !.room = Cardinality(Listed) < Keep]
  /\ late' = Unsaved
  /\ UNCHANGED <<written, fate>>

At(pc) == op.pc = pc
Step(here, there) == At(here) /\ op' = [op EXCEPT !.pc = there]

(* Where an operation continues after its snapshot.                        *)
AfterSnapshot ==
  IF op.kind \in {"seed", "rollback"} THEN "remove" ELSE "lock"

Ends == op' = Idle /\ late' = {}
Saves(entry) == lock' = entry /\ Ends

(* The id of a release goes into lock.json, whether or not it was pruned.  *)
Activates(i) ==
  fate' = IF i \in Ids /\ fate[i] = "pruned"
          THEN [fate EXCEPT ![i] = "activated"] ELSE fate

(* Mutant: the list is cut one release too early.                          *)
Newest_OffByOne ==
  {s \in SUBSET Listed :
     /\ Cardinality(s) = IF Cardinality(Listed) < Keep
                         THEN Cardinality(Listed) ELSE Keep - 1
     /\ \A i \in s : \A j \in Listed \ s : i[2] >= j[2]}

(* The releases list, newest first, cut after Keep; ties fall either way.  *)
Newest ==
  {s \in SUBSET Listed :
     /\ Cardinality(s) = IF Cardinality(Listed) <= Keep
                         THEN Cardinality(Listed) ELSE Keep
     /\ \A i \in s : \A j \in Listed \ s : i[2] >= j[2]}

(* Mutant: the active release is pruned like the others.                   *)
Doomed_ActiveToo(newest) == Listed \ newest

(* What is pruned: the others, but not the active one.                     *)
Doomed(newest) == (Listed \ newest) \ {lock.active}

-----------------------------------------------------------------------------
(* The process and the clock.                                              *)

(* main.go: EnsureSeeded runs before anything else; v > seed: the app was  *)
(* upgraded since it last ran.                                             *)
Start(v) ==
  /\ ~up
  /\ launches < MaxRuns
  /\ v >= seed
  /\ up' = TRUE
  /\ launches' = launches + 1
  /\ seed' = v
  /\ op' = IF Seeded THEN [Idle EXCEPT !.kind = "seed", !.pc = "check"]
            ELSE Idle
  /\ late' = Unsaved
  /\ UNCHANGED <<work, ui, releases, lock, clock, asked, written, fate>>

(* The process ends: killed, or log.Fatal on an error of EnsureSeeded. A   *)
(* meta.json that is half written over an old one cannot be read.          *)
Crash ==
  /\ up
  /\ up' = FALSE
  /\ Ends
  /\ \/ UNCHANGED releases
     \/ At("snapMeta") /\ releases' = [releases EXCEPT ![op.id].meta = FALSE]
  /\ UNCHANGED <<launches, seed, work, ui, lock, clock, asked, written, fate>>

Tick ==
  /\ now < MaxTime
  /\ now' = now + 1
  /\ made' = 0
  /\ UNCHANGED <<process, work, ui, releases, lock, op, user, fate>>

-----------------------------------------------------------------------------
(* Snapshots: snapshotUnlocked, called by the operations that need one.    *)

(* The effects of SnapBegin, for a given id and meta.json.                 *)
OpenRelease(id, meta) ==
  /\ At("snap")
  /\ Valid
  /\ made < PerSecond
  /\ made' = made + 1
  /\ op' = [op EXCEPT !.pc = "snapCopy", !.id = id]
  /\ releases' = [releases EXCEPT
                    ![id].dir = TRUE,
                    ![id].meta = meta,
                    ![id].src =
                      [main |-> TRUE, whole |-> FALSE, v |-> work.v,
                       edits |-> @.edits \cup (work.edits \ Skipped)]]
  /\ fate' = IF meta THEN [fate EXCEPT ![id] = "rewritten"]
             ELSE fate
  /\ UNCHANGED <<process, work, ui, lock, now, user>>

NextId ==
  LET first == <<work.v, now, 0>>
  IN  IF releases[first].dir THEN <<work.v, now, 1>> ELSE first

(* Mutants: a directory of the same second is not looked for; the suffix   *)
(* is counted from the wrong number.                                       *)
SnapBegin_SameId ==
  OpenRelease(<<work.v, now, 0>>, releases[<<work.v, now, 0>>].meta)
SnapBegin_Counts == OpenRelease(<<work.v, now, made + 1>>, FALSE)

(* The id is chosen, and the copy starts; a release that already has the   *)
(* second id is written over, and its meta.json stays until the new one.   *)
SnapBegin == OpenRelease(NextId, releases[NextId].meta)

(* copyTree: a file written meanwhile is copied or was already passed, one *)
(* in node_modules, .git or dist is skipped.                               *)
SnapCopy ==
  /\ Step("snapCopy", "snapMeta")
  /\ \E seen \in SUBSET ((work.edits \cap late) \ Skipped) :
       releases' = [releases EXCEPT
                      ![op.id].src.whole = TRUE,
                      ![op.id].src.edits = @ \cup seen,
                      ![op.id].ui = IF ui = 0 THEN @ ELSE ui]
  /\ UNCHANGED <<process, work, ui, lock, clock, user, fate>>

SnapMeta ==
  /\ Step("snapMeta", "prune")
  /\ releases' = [releases EXCEPT ![op.id].meta = TRUE]
  /\ fate' = [fate EXCEPT ![op.id] = "kept"]
  /\ UNCHANGED <<process, work, ui, lock, clock, user>>

(* The list is read and cut; with more than Keep releases of one second the*)
(* one just made may be past the cut.                                      *)
Prune ==
  /\ At("prune")
  /\ \E newest \in Newest :
       op' = [op EXCEPT !.pc = IF Doomed(newest) = {} THEN AfterSnapshot
                               ELSE "pruning",
                        !.doomed = Doomed(newest),
                        !.failed = @ \/ op.id \in Doomed(newest)]
  /\ UNCHANGED <<process, work, ui, releases, lock, clock, user, fate>>

(* One release after another is removed, the newer first.                  *)
PruneRelease(i) ==
  /\ At("pruning")
  /\ i \in op.doomed
  /\ \A j \in op.doomed : i[2] >= j[2]
  /\ \E rest \in RestsOf(releases[i]) :
       releases' = [releases EXCEPT ![i] = rest]
  /\ fate' = [fate EXCEPT ![i] = "pruned"]
  /\ op' = [op EXCEPT !.doomed = @ \ {i},
                      !.pc = IF op.doomed = {i} THEN AfterSnapshot ELSE @]
  /\ UNCHANGED <<process, work, ui, lock, clock, user>>

(* A failed snapshot removes its directory; only Snapshot itself gives up. *)
SnapFails ==
  /\ op.pc \in {"snap", "snapCopy", "snapMeta"}
  /\ \/ op.id = NoId /\ UNCHANGED releases
     \/ /\ op.id \in Ids
        /\ \E rest \in RestsOf(releases[op.id]) :
             releases' = [releases EXCEPT ![op.id] = rest]
  /\ IF op.kind = "snapshot" THEN Ends
     ELSE /\ op' = [op EXCEPT !.pc = AfterSnapshot, !.id = NoId, !.failed = TRUE]
          /\ UNCHANGED late
  /\ UNCHANGED <<process, work, ui, lock, clock, asked, written, fate>>

-----------------------------------------------------------------------------
(* EnsureSeeded for one pack.                                              *)

(* Mutant: an upgrade does not snapshot what it replaces.                  *)
SeedCheck_NoSnapshot ==
  /\ At("check")
  /\ IF Valid /\ seed <= work.v
     THEN Saves(IF lock.entry THEN lock
                ELSE [entry |-> TRUE, enabled |-> TRUE, active |-> NoId])
     ELSE op' = [op EXCEPT !.pc = "remove"] /\ UNCHANGED <<lock, late>>
  /\ UNCHANGED <<process, work, ui, releases, clock, asked, written, fate>>

(* A tree without pack.yml is copied, and one with an older or unreadable  *)
(* pack.yml after a snapshot; of the rest only the entry is made.          *)
SeedCheck ==
  /\ At("check")
  /\ IF Valid /\ seed <= work.v
     THEN Saves(IF lock.entry THEN lock
                ELSE [entry |-> TRUE, enabled |-> TRUE, active |-> NoId])
     ELSE /\ op' = [op EXCEPT !.pc = IF work.main THEN "snap" ELSE "remove"]
          /\ UNCHANGED <<lock, late>>
  /\ UNCHANGED <<process, work, ui, releases, clock, asked, written, fate>>

(* Mutant: an upgrade switches the pack on.                                *)
SeedLock_Default ==
  /\ op.kind = "seed"
  /\ At("lock")
  /\ Saves([entry |-> TRUE, enabled |-> TRUE, active |-> NoId])
  /\ UNCHANGED <<process, work, ui, releases, clock, asked, written, fate>>

(* Nothing is active in the entry of a copied seed.  Recording the snapshot*)
(* of a pack without an entry made one, which is not enabled.              *)
SeedLock ==
  /\ op.kind = "seed"
  /\ At("lock")
  /\ Saves([entry |-> TRUE,
            enabled |-> Enabled /\ (op.id # NoId => lock.entry),
            active |-> NoId])
  /\ UNCHANGED <<process, work, ui, releases, clock, asked, written, fate>>

-----------------------------------------------------------------------------
(* BuildUI, Snapshot and SetEnabled.                                       *)

(* The old UI is cleared before npm install and the build.                 *)
BuildUI ==
  /\ Valid
  /\ Begin("build", "compile", NoId)
  /\ ui' = 0
  /\ UNCHANGED <<process, work, releases, lock, clock>>

Compile ==
  /\ Step("compile", "snap")
  /\ ui' = work.v
  /\ UNCHANGED <<process, work, releases, lock, clock, user, fate>>

(* npm fails, or the result bundles React and stays where it is.           *)
CompileFails ==
  /\ At("compile")
  /\ Ends
  /\ ui' \in {0, work.v}
  /\ UNCHANGED <<process, work, releases, lock, clock, asked, written, fate>>

BuildLock ==
  /\ op.kind = "build"
  /\ At("lock")
  /\ Saves([entry |-> TRUE, enabled |-> Enabled,
            active |-> IF op.id = NoId THEN lock.active ELSE op.id])
  /\ Activates(op.id)
  /\ UNCHANGED <<process, work, ui, releases, clock, asked, written>>

Snapshot ==
  /\ Begin("snapshot", "snap", NoId)
  /\ UNCHANGED <<process, work, ui, releases, lock, clock>>

(* The zero LockEntry of a pack without one is not enabled.                *)
SnapshotLock ==
  /\ op.kind = "snapshot"
  /\ At("lock")
  /\ Saves([entry |-> TRUE, enabled |-> lock.entry /\ lock.enabled,
            active |-> op.id])
  /\ Activates(op.id)
  /\ UNCHANGED <<process, work, ui, releases, clock, asked, written>>

SetEnabled(b) ==
  /\ up
  /\ op.kind = "none"
  /\ Valid
  /\ asked < MaxOps
  /\ asked' = asked + 1
  /\ lock' = [lock EXCEPT !.entry = TRUE, !.enabled = b]
  /\ UNCHANGED <<process, work, ui, releases, op, clock, written, late, fate>>

-----------------------------------------------------------------------------
(* Rollback, and the removal and copy it shares with EnsureSeeded.         *)

Rollback(target) ==
  /\ target \in Listed
  /\ releases[target].src.v # 0
  /\ Begin("rollback", IF work.main THEN "snap" ELSE "remove", target)
  /\ UNCHANGED <<process, work, ui, releases, lock, clock>>

(* os.RemoveAll of the source tree, whose error is dropped.                *)
Remove ==
  /\ Step("remove", "restore")
  /\ work' \in PartsOf(work)
  /\ UNCHANGED <<process, ui, releases, lock, clock, user, fate>>

(* What copyTree and copySeedPack read.                                    *)
Source == IF op.kind = "seed" THEN SeedTree ELSE releases[op.target].src

(* Half of the files are there, pack.yml is among them or not.             *)
CopySome ==
  /\ Step("restore", "copying")
  /\ Source.v # 0
  /\ \/ work' = [work EXCEPT !.whole = FALSE]
     \/ /\ Source.main
        /\ work' = [work EXCEPT !.whole = FALSE, !.main = TRUE, !.v = Source.v]
  /\ UNCHANGED <<process, ui, releases, lock, clock, user, fate>>

(* A file the user wrote meanwhile, or that was not removed, is overwritten*)
(* or stays.                                                               *)
CopyRest ==
  /\ Step("copying", "dropUI")
  /\ \E stay \in SUBSET work.edits :
       work' = [main |-> work.main \/ Source.main, whole |-> Source.whole,
                v |-> IF Source.main THEN Source.v ELSE work.v,
                edits |-> Source.edits \cup stay]
  /\ UNCHANGED <<process, ui, releases, lock, clock, user, fate>>

(* The copy fails, at once if the release is no longer there: Rollback     *)
(* returns the error.                                                      *)
CopyFails ==
  /\ op.kind = "rollback"
  /\ op.pc \in {"restore", "copying", "restoreUI"}
  /\ Ends
  /\ UNCHANGED <<process, work, ui, releases, lock, clock, asked, written, fate>>

DropUI ==
  /\ Step("dropUI", IF op.kind = "seed" THEN "lock" ELSE "restoreUI")
  /\ ui' = 0
  /\ UNCHANGED <<process, work, releases, lock, clock, user, fate>>

RestoreUI ==
  /\ Step("restoreUI", "lock")
  /\ ui' = releases[op.target].ui
  /\ UNCHANGED <<process, work, releases, lock, clock, user, fate>>

RollbackLock ==
  /\ op.kind = "rollback"
  /\ At("lock")
  /\ Saves([entry |-> TRUE, enabled |-> Enabled, active |-> op.target])
  /\ Activates(op.target)
  /\ UNCHANGED <<process, work, ui, releases, clock, asked, written>>

(* lock.json cannot be written: the operation returns what it has done.    *)
SaveFails ==
  /\ At("lock")
  /\ op.kind # "seed"
  /\ Ends
  /\ UNCHANGED <<process, work, ui, releases, lock, clock, asked, written, fate>>

-----------------------------------------------------------------------------
(* WriteSourceFile and PatchSourceFile: only pack.yml must be there.       *)
WriteSource(e) ==
  /\ up
  /\ op.kind # "seed"
  /\ work.main
  /\ e \notin written
  /\ Cardinality(written) < MaxEdits
  /\ work' = [work EXCEPT !.edits = @ \cup {e}]
  /\ written' = written \cup {e}
  /\ late' = IF op.kind = "none" THEN late ELSE late \cup {e}
  /\ UNCHANGED <<process, ui, releases, lock, op, clock, asked, fate>>

-----------------------------------------------------------------------------
SnapshotStep ==
  \/ SnapBegin
  \/ SnapCopy
  \/ SnapMeta
  \/ Prune
  \/ \E i \in Ids : PruneRelease(i)
  \/ SnapFails

Next ==
  \/ \E v \in Versions : Start(v)
  \/ Crash
  \/ Tick
  \/ SnapshotStep
  \/ SeedCheck
  \/ SeedLock
  \/ BuildUI
  \/ Compile
  \/ CompileFails
  \/ BuildLock
  \/ Snapshot
  \/ SnapshotLock
  \/ \E b \in BOOLEAN : SetEnabled(b)
  \/ \E i \in Ids : Rollback(i)
  \/ Remove
  \/ CopySome
  \/ CopyRest
  \/ CopyFails
  \/ DropUI
  \/ RestoreUI
  \/ RollbackLock
  \/ SaveFails
  \/ \E e \in Edits : WriteSource(e)

Spec == Init /\ [][Next]_vars

-----------------------------------------------------------------------------
(* Properties.                                                             *)

(* A release that ListReleases shows is a complete copy: whatever kills    *)
(* the process, meta.json is only there once the tree is (release.go,      *)
(* snapshotUnlocked). The exceptions are the removal that is cut off and   *)
(* the third snapshot of a second, written over the second.                *)
ListedAreWhole ==
  \A i \in Listed :
    fate[i] = "kept" => releases[i].src.whole /\ releases[i].src.main

(* The active release of lock.json is never a half-made one, and pruning   *)
(* passes it over (pruneReleasesUnlocked, BuildUI, Snapshot, Rollback). It *)
(* may be the one a third snapshot is written over, and one that was pruned*)
(* before it became active.                                                *)
ActiveIsListed ==
  \/ lock.active \in Listed \cup {NoId}
  \/ fate[lock.active] \in {"rewritten", "activated"}

(* A rollback that starts with fewer than Keep releases still has its      *)
(* target when it has removed the source tree, unless its own snapshot was *)
(* the third of the second of the target and failed.                       *)
TargetKeptBelowLimit ==
  (op.kind = "rollback" /\ op.room /\ op.pc \in {"remove", "restore", "copying"})
     => op.target \in Listed \/ fate[op.target] = "rewritten"

(* A release is pruned only when Keep others as new as it stay listed      *)
(* (listReleasesUnlocked, pruneReleasesUnlocked).                          *)
PrunedAreOldest ==
  \A i \in op.doomed :
    Cardinality({j \in Listed \ op.doomed : j[2] >= i[2]}) >= Keep

(* What can be listed can be restored: all four of the above.              *)
ListIsSound ==
  /\ ListedAreWhole
  /\ ActiveIsListed
  /\ TargetKeptBelowLimit
  /\ PrunedAreOldest

(* A listed release (types.go ReleaseInfo: an immutable snapshot) changes  *)
(* only by the removal of what was pruned, or by being written over: it has*)
(* the second id of its second, the second is not over, and at least two   *)
(* snapshots were started in it before this one (snapshotUnlocked).        *)
ReleaseImmutable ==
  [][\A i \in Listed :
       /\ releases'[i] = releases[i] \/ fate'[i] \in {"pruned", "rewritten"}
       /\ (fate[i] # "rewritten" /\ fate'[i] = "rewritten")
            => i[3] = 1 /\ i[2] = now /\ made >= 2]_vars

(* The user's edits leave the source tree only into a listed release,      *)
(* except those in node_modules, .git or dist, which no snapshot has, those*)
(* made while the operation ran or found in a tree without a pack.yml, and *)
(* all when the snapshot failed (Rollback and EnsureSeeded snapshot before *)
(* they remove).                                                           *)
EditsSavedUnlessFailed ==
  [][\A e \in (work.edits \ work'.edits) \ Skipped :
        \/ e \in late \/ op.failed
        \/ \E i \in Listed : e \in releases[i].src.edits]_vars

(* Once a pack has an entry in lock.json, only SetEnabled switches it on or*)
(* off: upgrades, builds, snapshots, rollbacks and crashes keep the choice *)
(* of the user (EnsureSeeded, BuildUI, Snapshot, Rollback).                *)
ChoiceIsKept ==
  [][lock.entry => /\ lock'.entry
                   /\ lock'.enabled = lock.enabled
                        \/ \E b \in BOOLEAN : SetEnabled(b)]_vars

-----------------------------------------------------------------------------
(* Statements of the code's comments that the code does not keep.          *)

(* manager.go, EnsureSeeded: at the same version the user's edits are not  *)
(* overwritten.                                                            *)
SameVersionKeepsEdits ==
  [][(op.kind = "seed" /\ work.v = seed) => work.edits \subseteq work'.edits]_vars

(* release.go, Rollback: restores the release it was asked for; when the   *)
(* source tree is gone the release is still there to copy from.            *)
TargetKept ==
  (op.kind = "rollback" /\ op.pc \in {"remove", "restore", "copying"})
     => op.target \in Listed
=============================================================================
