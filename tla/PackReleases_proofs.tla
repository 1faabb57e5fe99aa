------------------------- MODULE PackReleases_proofs -------------------------
(* Proofs about PackReleases, for every number of versions of the seed,    *)
(* edits, launches, seconds, snapshots per second and operations, and every*)
(* limit of the list (Keep).                                               *)
(*                                                                         *)
(* A release is listed once its meta.json is written, which is the last    *)
(* step of the operation that makes it (SnapOK). Until then nothing else   *)
(* names its directory, because its id is new, or it is the second one of  *)
(* its second, and then its fate says that it is written over (Newborn).   *)
(* What removes the source tree has listed a copy of the edits in it, or   *)
(* has failed to and says so (EditsOK). Pruning takes what it chose to     *)
(* take, which the active release is not part of (OpOK), and nothing is    *)
(* chosen below the limit (TargetOK).                                      *)
EXTENDS PackReleases, TLAPS, FiniteSetTheorems

\* What op can be.
Ops == [kind : Kinds, pc : Steps, id : Ids \cup {NoId}, target : Ids \cup {NoId},
        doomed : SUBSET Ids, failed : BOOLEAN, room : BOOLEAN]

\* The releases of one second that have a directory.
OfSecond(t) == {i \in Ids : releases[i].dir /\ i[2] = t}

\* A tree with a pack.yml has a version.
TreesOK ==
  /\ work.main => work.v \in Versions
  /\ \A i \in Ids : releases[i].src.main => releases[i].src.v \in Versions

\* Releases are dated up to now, and of this second there are those made in it.
DirsOK ==
  /\ \A i \in Ids : ~releases[i].dir => releases[i] = NoRelease
  /\ \A i \in Ids : releases[i].dir => i[2] <= now
  /\ Cardinality(OfSecond(now)) <= made

\* Which operation can be at which step, and what it may be pruning.
OpOK ==
  /\ op.pc = "idle" <=> op.kind = "none"
  /\ op.kind = "none" => op = Idle
  /\ op.pc = "check" => op.kind = "seed"
  /\ op.pc = "compile" => op.kind = "build"
  /\ op.pc \in {"remove", "restore", "copying", "dropUI"} =>
       op.kind \in {"seed", "rollback"}
  /\ op.pc = "restoreUI" => op.kind = "rollback"
  /\ op.pc \in {"idle", "check", "compile", "snap"} => op.id = NoId
  /\ op.kind = "rollback" => op.target \in Ids
  /\ op.pc = "pruning" \/ op.doomed = {}
  /\ op.doomed \subseteq Listed /\ lock.active \notin op.doomed

\* The release being made holds what the operation found edited.
HasEdits ==
  \A e \in (work.edits \ late) \ Skipped : e \in releases[op.id].src.edits

\* Begun, and not yet listed, unless it is written over a listed one.
Newborn ==
  /\ op.id \in Ids /\ releases[op.id].dir /\ releases[op.id].src.main
  /\ releases[op.id].meta => fate[op.id] = "rewritten"

\* A release that is being made, and after it: nothing is removed before it is listed.
SnapOK ==
  /\ op.pc = "snapCopy" => Newborn /\ HasEdits
  /\ op.pc = "snapMeta" => Newborn /\ HasEdits /\ releases[op.id].src.whole
  /\ op.pc = "prune" => op.id \in Listed /\ HasEdits
  /\ op.pc \in {"pruning", "remove", "restore", "copying", "dropUI", "restoreUI",
                 "lock"} =>
        op.id = NoId \/ op.id \in Listed \/ fate[op.id] = "pruned"

\* Where the edits are while the source tree is being replaced.
EditsOK ==
  /\ op.pc = "check" => work.main \/ work.edits \subseteq late
  /\ op.pc = "pruning" =>
       op.failed \/ (op.id \in Listed \ op.doomed /\ HasEdits)
  /\ op.pc \in {"remove", "restore", "copying"} =>
       op.failed \/ work.edits \subseteq late \/ (op.id \in Listed /\ HasEdits)

\* The release that is rolled back to, and the room left below the limit.
TargetOK ==
  op.kind = "rollback" =>
    /\ op.target \in Listed \/ fate[op.target] # "kept"
    /\ op.room =>
         /\ op.target \in Listed \/ fate[op.target] = "rewritten"
         /\ op.pc \in {"snap", "snapCopy", "snapMeta"} => Cardinality(Listed) < Keep
         /\ op.pc = "prune" => Cardinality(Listed) <= Keep
         /\ op.pc # "pruning"

PackInv ==
  TypeOK /\ TreesOK /\ DirsOK /\ OpOK /\ SnapOK /\ EditsOK /\ TargetOK /\ ListIsSound

-----------------------------------------------------------------------------
LEMMA IdShape ==
  /\ \A i \in Ids : /\ i = <<i[1], i[2], i[3]>>
                    /\ i[1] \in Versions /\ i[2] \in 0..MaxTime /\ i[3] \in {0, 1}
  /\ \A v \in Versions, t \in 0..MaxTime, k \in {0, 1} : <<v, t, k>> \in Ids
  /\ NoId \notin Ids
<1>1. 0 \notin Versions
  BY DEF Versions
<1>. QED BY <1>1 DEF Ids, NoId

LEMMA IdsFinite == IsFiniteSet(Ids)
<1> DEFINE Pairs == (Versions \X (0..MaxTime)) \X {0, 1}
           f == [i \in Ids |-> <<<<i[1], i[2]>>, i[3]>>]
<1>1. IsFiniteSet(Versions) /\ IsFiniteSet(0..MaxTime)
  BY FS_Interval, BoundsAssumption DEF Versions
<1>2. IsFiniteSet({0, 1})
  <2>1. IsFiniteSet({0} \cup {1})
    BY FS_Singleton, FS_AddElement
  <2>2. {0} \cup {1} = {0, 1}
    OBVIOUS
  <2>. QED BY <2>1, <2>2, Zenon
<1>3. IsFiniteSet(Versions \X (0..MaxTime))
  BY <1>1, FS_Product
<1>4. IsFiniteSet(Pairs)
  BY <1>2, <1>3, FS_Product
<1>5. f \in Injection(Ids, Pairs)
  <2>1. f \in [Ids -> Pairs]
    <3> SUFFICES ASSUME NEW i \in Ids PROVE <<<<i[1], i[2]>>, i[3]>> \in Pairs
      OBVIOUS
    <3>. QED BY IdShape
  <2>2. ASSUME NEW i \in Ids, NEW j \in Ids, f[i] = f[j] PROVE i = j
    <3>1. <<<<i[1], i[2]>>, i[3]>> = <<<<j[1], j[2]>>, j[3]>>
      BY <2>2
    <3>. QED BY <3>1, IdShape
  <2>. QED BY <2>1, <2>2 DEF Injection, IsInjective
<1>. HIDE DEF Pairs, f
<1>. QED BY <1>4, <1>5, FS_Injection

LEMMA SomeIds ==
  ASSUME NEW S \in SUBSET Ids
  PROVE  IsFiniteSet(S) /\ Cardinality(S) \in Nat
BY IdsFinite, FS_Subset, FS_CardinalityType

LEMMA FewerIds ==
  ASSUME NEW S \in SUBSET Ids, NEW R \in SUBSET S
  PROVE  Cardinality(R) <= Cardinality(S)
BY SomeIds, FS_Subset

LEMMA OneMoreId ==
  ASSUME NEW S \in SUBSET Ids, NEW i \in Ids, NEW R \in SUBSET (S \cup {i})
  PROVE  Cardinality(R) <= Cardinality(S) + 1
<1>1. Cardinality(S \cup {i}) <= Cardinality(S) + 1
  BY SomeIds, FS_AddElement
<1>2. Cardinality(R) <= Cardinality(S \cup {i})
  BY FewerIds
<1>. QED BY <1>1, <1>2, SomeIds

LEMMA TwoIds ==
  ASSUME NEW S \in SUBSET Ids, NEW i \in S, NEW j \in S, i # j
  PROVE  Cardinality(S) >= 2
<1>1. IsFiniteSet({i}) /\ Cardinality({i}) = 1
  BY FS_Singleton
<1>2. Cardinality({i} \cup {j}) = 2
  BY <1>1, FS_AddElement
<1>3. {i} \cup {j} \in SUBSET S
  OBVIOUS
<1>. QED BY <1>2, <1>3, FewerIds

-----------------------------------------------------------------------------
LEMMA SameDirs ==
  ASSUME DirsOK, UNCHANGED <<releases, clock>>
  PROVE  DirsOK' /\ Listed' = Listed
BY DEF DirsOK, OfSecond, clock, Listed

LEMMA Begun ==
  ASSUME NEW kind \in Kinds, NEW pc \in Steps, NEW target \in Ids \cup {NoId},
         Begin(kind, pc, target)
  PROVE  op' \in Ops
<1> DEFINE below == Cardinality(Listed) < Keep
<1>1. below \in BOOLEAN
  OBVIOUS
<1>2. op' = [Idle EXCEPT !.kind = kind, !.pc = pc, !.target = target, !.room = below]
  BY DEF Begin
<1>. HIDE DEF below
<1>. QED BY <1>1, <1>2 DEF Idle, Ops

LEMMA SourceIsTree ==
  ASSUME PackInv, op.pc \in {"restore", "copying"}
  PROVE  Source \in Trees
<1>1. CASE op.kind = "seed"
  BY <1>1 DEF Source, SeedTree, Trees, PackInv, TypeOK, Versions
<1>2. CASE op.kind = "rollback"
  BY <1>2 DEF Source, PackInv, TypeOK, OpOK, Releases
<1>. QED BY <1>1, <1>2 DEF PackInv, OpOK

LEMMA StartKeeps == ASSUME NEW v \in Versions, PackInv, Start(v) PROVE PackInv'
<1>1. DirsOK' /\ Listed' = Listed
  BY SameDirs DEF PackInv, Start, At
<1>2. TypeOK'
  <2>1. /\ up' \in BOOLEAN /\ launches' \in 0..MaxRuns /\ seed' \in Versions
       /\ now' \in 0..MaxTime /\ made' \in 0..PerSecond /\ asked' \in 0..MaxOps
    BY <1>1, BoundsAssumption DEF PackInv, TypeOK, Start, clock, user, Saves, Ends, Step, At,
       Begin
  <2>2. work' \in Trees
    BY <1>1 DEF PackInv, TypeOK, Start, At
  <2>3. ui' \in UIs /\ releases' \in [Ids -> Releases]
    BY <1>1 DEF PackInv, TypeOK, Start, At
  <2>4. lock' \in [entry : BOOLEAN, enabled : BOOLEAN, active : Ids \cup {NoId}]
    BY <1>1 DEF PackInv, TypeOK, Start, At
  <2>5. op' \in Ops
    BY <1>1 DEF Ops, PackInv, Kinds, Steps, Idle, Start
  <2>6. written' \in SUBSET Edits /\ late' \in SUBSET Edits /\ fate' \in [Ids -> Fates]
    BY <1>1 DEF PackInv, TypeOK, Trees, Unsaved, Start, At
  <2>. QED BY <2>1, <2>2, <2>3, <2>4, <2>5, <2>6 DEF TypeOK, Ops
<1>3. TreesOK'
  BY <1>1 DEF PackInv, TreesOK, Start
<1>4. OpOK'
  BY <1>1 DEF PackInv, OpOK, Idle, Start
<1>5. SnapOK'
  BY <1>1 DEF PackInv, SnapOK, Idle, Start
<1>6. EditsOK'
  BY <1>1 DEF PackInv, EditsOK, Unsaved, Idle, Start
<1>7. TargetOK'
  BY <1>1 DEF PackInv, TargetOK, Idle, Start
<1>8. ListIsSound'
  BY <1>1 DEF PackInv, ListIsSound, ListedAreWhole, ActiveIsListed, TargetKeptBelowLimit,
     PrunedAreOldest,
     Idle, Start
<1>. QED BY <1>1, <1>2, <1>3, <1>4, <1>5, <1>6, <1>7, <1>8 DEF PackInv

LEMMA SeedCheckKeeps == ASSUME PackInv, SeedCheck PROVE PackInv'
<1>1. DirsOK' /\ Listed' = Listed
  BY SameDirs DEF PackInv, SeedCheck
<1>2. TypeOK'
  <2>1. /\ up' \in BOOLEAN /\ launches' \in 0..MaxRuns /\ seed' \in Versions
       /\ now' \in 0..MaxTime /\ made' \in 0..PerSecond /\ asked' \in 0..MaxOps
    BY <1>1 DEF PackInv, TypeOK, SeedCheck, process, clock, user
  <2>2. work' \in Trees
    BY <1>1 DEF PackInv, TypeOK, SeedCheck
  <2>3. ui' \in UIs /\ releases' \in [Ids -> Releases]
    BY <1>1 DEF PackInv, TypeOK, SeedCheck
  <2>4. lock' \in [entry : BOOLEAN, enabled : BOOLEAN, active : Ids \cup {NoId}]
    <3>1. CASE Valid /\ seed <= work.v
      <4>1. /\ op' = Idle
            /\ \/ lock' = lock
               \/ lock' = [entry |-> TRUE, enabled |-> TRUE, active |-> NoId]
        BY <3>1 DEF SeedCheck, Saves, Ends
      <4>2. [entry |-> TRUE, enabled |-> TRUE, active |-> NoId]
              \in [entry : BOOLEAN, enabled : BOOLEAN, active : Ids \cup {NoId}]
        OBVIOUS
      <4>. QED BY <4>1, <4>2 DEF PackInv, TypeOK
    <3>2. CASE ~(Valid /\ seed <= work.v)
      BY <3>2 DEF PackInv, TypeOK, SeedCheck
    <3>. QED BY <3>1, <3>2
  <2>5. op' \in Ops
    <3>1. CASE Valid /\ seed <= work.v
      <4>1. /\ op' = Idle
            /\ \/ lock' = lock
               \/ lock' = [entry |-> TRUE, enabled |-> TRUE, active |-> NoId]
        BY <3>1 DEF SeedCheck, Saves, Ends
      <4>2. [entry |-> TRUE, enabled |-> TRUE, active |-> NoId]
              \in [entry : BOOLEAN, enabled : BOOLEAN, active : Ids \cup {NoId}]
        OBVIOUS
      <4>. QED BY <4>1, <4>2 DEF PackInv, Idle, Kinds, Steps, Ops
    <3>2. CASE ~(Valid /\ seed <= work.v)
      BY <3>2 DEF PackInv, TypeOK, SeedCheck, Steps, Ops
    <3>. QED BY <3>1, <3>2
  <2>6. written' \in SUBSET Edits /\ late' \in SUBSET Edits /\ fate' \in [Ids -> Fates]
    BY <1>1 DEF PackInv, TypeOK, SeedCheck, Saves, Ends
  <2>. QED BY <2>1, <2>2, <2>3, <2>4, <2>5, <2>6 DEF TypeOK, Ops
<1>3. TreesOK'
  BY <1>1 DEF PackInv, TreesOK, SeedCheck
<1>4. OpOK'
  BY <1>1 DEF PackInv, TypeOK, OpOK, Idle, SeedCheck, Saves, Ends, At
<1>5. SnapOK'
  BY <1>1 DEF PackInv, TypeOK, OpOK, SnapOK, Idle, SeedCheck, Saves, Ends, At
<1>6. EditsOK'
  BY <1>1 DEF PackInv, TypeOK, OpOK, EditsOK, Idle, SeedCheck, Saves, Ends, At
<1>7. TargetOK'
  BY <1>1 DEF PackInv, TypeOK, OpOK, TargetOK, Idle, SeedCheck, Saves, Ends, At
<1>8. ListIsSound'
  BY <1>1 DEF PackInv, TypeOK, OpOK, TargetOK, ListIsSound, ListedAreWhole, ActiveIsListed,
     TargetKeptBelowLimit,
     PrunedAreOldest, Idle, Steps, SeedCheck, Saves, Ends
<1>. QED BY <1>1, <1>2, <1>3, <1>4, <1>5, <1>6, <1>7, <1>8 DEF PackInv

LEMMA SeedLockKeeps == ASSUME PackInv, SeedLock PROVE PackInv'
<1>1. DirsOK' /\ Listed' = Listed
  BY SameDirs DEF PackInv, SeedLock
<1>2. TypeOK'
  BY <1>1 DEF PackInv, TypeOK, Kinds, Steps, Idle, SeedLock, process, clock, user, Saves, Ends
<1>3. TreesOK'
  BY <1>1 DEF PackInv, TreesOK, SeedLock
<1>4. OpOK'
  BY <1>1 DEF PackInv, OpOK, Idle, SeedLock, Saves, Ends
<1>5. SnapOK'
  BY <1>1 DEF PackInv, SnapOK, Idle, SeedLock, Saves, Ends
<1>6. EditsOK'
  BY <1>1 DEF PackInv, EditsOK, Idle, SeedLock, Saves, Ends
<1>7. TargetOK'
  BY <1>1 DEF PackInv, TargetOK, Idle, SeedLock, Saves, Ends
<1>8. ListIsSound'
  BY <1>1 DEF PackInv, ListIsSound, ListedAreWhole, ActiveIsListed, TargetKeptBelowLimit,
     PrunedAreOldest,
     Idle, SeedLock, Saves, Ends
<1>. QED BY <1>1, <1>2, <1>3, <1>4, <1>5, <1>6, <1>7, <1>8 DEF PackInv

LEMMA BuildUIKeeps == ASSUME PackInv, BuildUI PROVE PackInv'
<1>1. DirsOK' /\ Listed' = Listed
  BY SameDirs DEF PackInv, BuildUI, At
<1>2. TypeOK'
  <2>1. /\ up' \in BOOLEAN /\ launches' \in 0..MaxRuns /\ seed' \in Versions
       /\ now' \in 0..MaxTime /\ made' \in 0..PerSecond /\ asked' \in 0..MaxOps
    BY <1>1, BoundsAssumption DEF PackInv, TypeOK, BuildUI, process, clock, user, Saves, Ends,
       Step, At, Begin
  <2>2. work' \in Trees
    BY <1>1 DEF PackInv, TypeOK, BuildUI, At
  <2>3. ui' \in UIs /\ releases' \in [Ids -> Releases]
    BY <1>1, BoundsAssumption DEF PackInv, TypeOK, UIs, BuildUI, At
  <2>4. lock' \in [entry : BOOLEAN, enabled : BOOLEAN, active : Ids \cup {NoId}]
    BY <1>1 DEF PackInv, TypeOK, BuildUI, At
  <2>5. op' \in Ops
    BY Begun DEF Ops, BuildUI, Kinds, Steps
  <2>6. written' \in SUBSET Edits /\ late' \in SUBSET Edits /\ fate' \in [Ids -> Fates]
    BY <1>1 DEF PackInv, TypeOK, Trees, Unsaved, BuildUI, At, Begin
  <2>. QED BY <2>1, <2>2, <2>3, <2>4, <2>5, <2>6 DEF TypeOK, Ops
<1>3. TreesOK'
  BY DEF PackInv, TreesOK, BuildUI
<1>4. OpOK'
  BY <1>1 DEF PackInv, OpOK, BuildUI, Begin
<1>5. SnapOK'
  BY <1>1 DEF PackInv, SnapOK, BuildUI, Begin
<1>6. EditsOK'
  BY <1>1 DEF PackInv, EditsOK, BuildUI, Begin
<1>7. TargetOK'
  BY <1>1 DEF PackInv, TargetOK, BuildUI, Begin
<1>8. ListIsSound'
  BY <1>1 DEF PackInv, ListIsSound, ListedAreWhole, ActiveIsListed, TargetKeptBelowLimit,
     PrunedAreOldest,
     BuildUI, Begin, Idle
<1>. QED BY <1>1, <1>2, <1>3, <1>4, <1>5, <1>6, <1>7, <1>8 DEF PackInv

LEMMA CompileKeeps == ASSUME PackInv, Compile PROVE PackInv'
<1>1. DirsOK' /\ Listed' = Listed
  BY SameDirs DEF PackInv, Compile
<1>2. TypeOK'
  BY <1>1 DEF PackInv, TypeOK, Trees, UIs, Steps, Compile, process, clock, user, Step
<1>3. TreesOK'
  BY <1>1 DEF PackInv, TreesOK, Compile
<1>4. OpOK'
  BY <1>1 DEF PackInv, OpOK, Compile, Step, At
<1>5. SnapOK'
  BY <1>1 DEF PackInv, SnapOK, Compile, Step
<1>6. EditsOK'
  BY <1>1 DEF PackInv, EditsOK, Compile, Step
<1>7. TargetOK'
  BY <1>1 DEF PackInv, OpOK, TargetOK, Compile, Step, At
<1>8. ListIsSound'
  BY <1>1 DEF PackInv, ListIsSound, ListedAreWhole, ActiveIsListed, TargetKeptBelowLimit,
     PrunedAreOldest,
     Compile, Step
<1>. QED BY <1>1, <1>2, <1>3, <1>4, <1>5, <1>6, <1>7, <1>8 DEF PackInv

LEMMA CompileFailsKeeps == ASSUME PackInv, CompileFails PROVE PackInv'
<1>1. DirsOK' /\ Listed' = Listed
  BY SameDirs DEF PackInv, CompileFails
<1>2. TypeOK'
  BY <1>1, BoundsAssumption DEF PackInv, TypeOK, Trees, UIs, Kinds, Steps, Idle, Ends,
     CompileFails, process, clock, user
<1>3. TreesOK'
  BY <1>1 DEF PackInv, TreesOK, CompileFails
<1>4. OpOK'
  BY <1>1 DEF PackInv, OpOK, Idle, Ends, CompileFails
<1>5. SnapOK'
  BY <1>1 DEF PackInv, SnapOK, Idle, Ends, CompileFails
<1>6. EditsOK'
  BY <1>1 DEF PackInv, EditsOK, Idle, Ends, CompileFails
<1>7. TargetOK'
  BY <1>1 DEF PackInv, TargetOK, Idle, Ends, CompileFails
<1>8. ListIsSound'
  BY <1>1 DEF PackInv, ListIsSound, ListedAreWhole, ActiveIsListed, TargetKeptBelowLimit,
     PrunedAreOldest,
     Idle, Ends, CompileFails
<1>. QED BY <1>1, <1>2, <1>3, <1>4, <1>5, <1>6, <1>7, <1>8 DEF PackInv

LEMMA BuildLockKeeps == ASSUME PackInv, BuildLock PROVE PackInv'
<1>1. DirsOK' /\ Listed' = Listed
  BY SameDirs DEF PackInv, BuildLock
<1>2. TypeOK'
  <2>1. /\ up' \in BOOLEAN /\ launches' \in 0..MaxRuns /\ seed' \in Versions
        /\ now' \in 0..MaxTime /\ made' \in 0..PerSecond /\ asked' \in 0..MaxOps
        /\ work' \in Trees /\ ui' \in UIs /\ releases' \in [Ids -> Releases]
        /\ written' \in SUBSET Edits
    BY DEF PackInv, TypeOK, BuildLock, process, clock
  <2>2. op' = Idle /\ Idle \in Ops /\ late' = {}
    BY DEF BuildLock, Saves, Ends, Idle, Ops, Kinds, Steps
  <2>3. lock' \in [entry : BOOLEAN, enabled : BOOLEAN, active : Ids \cup {NoId}]
    BY DEF PackInv, TypeOK, OpOK, Enabled, BuildLock, Saves
  <2>4. fate' \in [Ids -> Fates]
    BY DEF PackInv, TypeOK, Fates, Activates, BuildLock
  <2>. QED BY <2>1, <2>2, <2>3, <2>4 DEF TypeOK, Ops
<1>3. TreesOK'
  BY <1>1 DEF PackInv, TreesOK, BuildLock
<1>4. OpOK'
  BY <1>1 DEF PackInv, OpOK, Idle, BuildLock, Saves, Ends
<1>5. SnapOK'
  BY <1>1 DEF PackInv, SnapOK, Idle, BuildLock, Saves, Ends
<1>6. EditsOK'
  BY <1>1 DEF PackInv, EditsOK, Idle, BuildLock, Saves, Ends
<1>7. TargetOK'
  BY <1>1 DEF PackInv, TargetOK, Idle, BuildLock, Saves, Ends
<1>8. ListIsSound'
  <2>1. \A i \in Ids : fate'[i] = fate[i] \/ (fate[i] = "pruned" /\ fate'[i] = "activated")
    BY DEF PackInv, TypeOK, Activates, BuildLock
  <2>2. ListedAreWhole'
    BY <1>1, <2>1 DEF PackInv, ListIsSound, ListedAreWhole, Listed, BuildLock
  <2>3. ActiveIsListed'
    <3>1. CASE lock'.active = lock.active /\ lock.active = NoId
      BY <3>1 DEF ActiveIsListed
    <3>2. CASE lock'.active = lock.active /\ lock.active # NoId
      BY <1>1, <2>1, <3>2 DEF PackInv, TypeOK, ListIsSound, ActiveIsListed
    <3>3. CASE lock'.active = op.id
      BY <1>1, <3>3 DEF PackInv, TypeOK, Fates, OpOK, SnapOK, TargetOK, ActiveIsListed,
         Activates, BuildLock, At
    <3>. QED BY <3>1, <3>2, <3>3 DEF BuildLock, Saves
  <2>4. TargetKeptBelowLimit' /\ PrunedAreOldest'
    BY DEF TargetKeptBelowLimit, PrunedAreOldest, BuildLock, Saves, Ends, Idle
  <2>. QED BY <2>2, <2>3, <2>4 DEF ListIsSound
<1>. QED BY <1>1, <1>2, <1>3, <1>4, <1>5, <1>6, <1>7, <1>8 DEF PackInv

LEMMA SnapshotKeeps == ASSUME PackInv, Snapshot PROVE PackInv'
<1>1. DirsOK' /\ Listed' = Listed
  BY SameDirs DEF PackInv, Snapshot, At
<1>2. TypeOK'
  <2>1. /\ up' \in BOOLEAN /\ launches' \in 0..MaxRuns /\ seed' \in Versions
       /\ now' \in 0..MaxTime /\ made' \in 0..PerSecond /\ asked' \in 0..MaxOps
    BY <1>1, BoundsAssumption DEF PackInv, TypeOK, Snapshot, process, clock, user, Saves, Ends,
       Step, At, Begin
  <2>2. work' \in Trees
    BY <1>1 DEF PackInv, TypeOK, Snapshot, At
  <2>3. ui' \in UIs /\ releases' \in [Ids -> Releases]
    BY <1>1 DEF PackInv, TypeOK, Snapshot, At
  <2>4. lock' \in [entry : BOOLEAN, enabled : BOOLEAN, active : Ids \cup {NoId}]
    BY <1>1 DEF PackInv, TypeOK, Snapshot, At
  <2>5. op' \in Ops
    BY Begun DEF Ops, Snapshot, Kinds, Steps
  <2>6. written' \in SUBSET Edits /\ late' \in SUBSET Edits /\ fate' \in [Ids -> Fates]
    BY <1>1 DEF PackInv, TypeOK, Trees, Unsaved, Snapshot, At, Begin
  <2>. QED BY <2>1, <2>2, <2>3, <2>4, <2>5, <2>6 DEF TypeOK, Ops
<1>3. TreesOK'
  BY <1>1 DEF PackInv, TreesOK, Snapshot
<1>4. OpOK'
  BY <1>1 DEF PackInv, OpOK, Snapshot, Begin
<1>5. SnapOK'
  BY <1>1 DEF PackInv, SnapOK, Snapshot, Begin
<1>6. EditsOK'
  BY <1>1 DEF PackInv, EditsOK, Snapshot, Begin
<1>7. TargetOK'
  BY <1>1 DEF PackInv, TargetOK, Snapshot, Begin
<1>8. ListIsSound'
  BY <1>1 DEF PackInv, ListIsSound, ListedAreWhole, ActiveIsListed, TargetKeptBelowLimit,
     PrunedAreOldest,
     Snapshot, Begin, Idle
<1>. QED BY <1>1, <1>2, <1>3, <1>4, <1>5, <1>6, <1>7, <1>8 DEF PackInv

LEMMA SnapshotLockKeeps == ASSUME PackInv, SnapshotLock PROVE PackInv'
<1>1. DirsOK' /\ Listed' = Listed
  BY SameDirs DEF PackInv, SnapshotLock
<1>2. TypeOK'
  <2>1. /\ up' \in BOOLEAN /\ launches' \in 0..MaxRuns /\ seed' \in Versions
        /\ now' \in 0..MaxTime /\ made' \in 0..PerSecond /\ asked' \in 0..MaxOps
        /\ work' \in Trees /\ ui' \in UIs /\ releases' \in [Ids -> Releases]
        /\ written' \in SUBSET Edits
    BY DEF PackInv, TypeOK, SnapshotLock, process, clock
  <2>2. op' = Idle /\ Idle \in Ops /\ late' = {}
    BY DEF SnapshotLock, Saves, Ends, Idle, Ops, Kinds, Steps
  <2>3. lock' \in [entry : BOOLEAN, enabled : BOOLEAN, active : Ids \cup {NoId}]
    BY DEF PackInv, TypeOK, OpOK, Enabled, SnapshotLock, Saves
  <2>4. fate' \in [Ids -> Fates]
    BY DEF PackInv, TypeOK, Fates, Activates, SnapshotLock
  <2>. QED BY <2>1, <2>2, <2>3, <2>4 DEF TypeOK, Ops
<1>3. TreesOK'
  BY <1>1 DEF PackInv, TreesOK, SnapshotLock
<1>4. OpOK'
  BY <1>1 DEF PackInv, OpOK, Idle, SnapshotLock, Saves, Ends
<1>5. SnapOK'
  BY <1>1 DEF PackInv, SnapOK, Idle, SnapshotLock, Saves, Ends
<1>6. EditsOK'
  BY <1>1 DEF PackInv, EditsOK, Idle, SnapshotLock, Saves, Ends
<1>7. TargetOK'
  BY <1>1 DEF PackInv, TargetOK, Idle, SnapshotLock, Saves, Ends
<1>8. ListIsSound'
  <2>1. \A i \in Ids : fate'[i] = fate[i] \/ (fate[i] = "pruned" /\ fate'[i] = "activated")
    BY DEF PackInv, TypeOK, Activates, SnapshotLock
  <2>2. ListedAreWhole'
    BY <1>1, <2>1 DEF PackInv, ListIsSound, ListedAreWhole, Listed, SnapshotLock
  <2>3. ActiveIsListed'
    <3>1. CASE lock'.active = lock.active /\ lock.active = NoId
      BY <3>1 DEF ActiveIsListed
    <3>2. CASE lock'.active = lock.active /\ lock.active # NoId
      BY <1>1, <2>1, <3>2 DEF PackInv, TypeOK, ListIsSound, ActiveIsListed
    <3>3. CASE lock'.active = op.id
      BY <1>1, <3>3 DEF PackInv, TypeOK, Fates, OpOK, SnapOK, TargetOK, ActiveIsListed,
         Activates, SnapshotLock, At
    <3>. QED BY <3>1, <3>2, <3>3 DEF SnapshotLock, Saves
  <2>4. TargetKeptBelowLimit' /\ PrunedAreOldest'
    BY DEF TargetKeptBelowLimit, PrunedAreOldest, SnapshotLock, Saves, Ends, Idle
  <2>. QED BY <2>2, <2>3, <2>4 DEF ListIsSound
<1>. QED BY <1>1, <1>2, <1>3, <1>4, <1>5, <1>6, <1>7, <1>8 DEF PackInv

LEMMA SetEnabledKeeps == ASSUME NEW b \in BOOLEAN, PackInv, SetEnabled(b) PROVE PackInv'
<1>1. DirsOK' /\ Listed' = Listed
  BY SameDirs DEF PackInv, SetEnabled, At
<1>2. TypeOK'
  <2>1. /\ up' \in BOOLEAN /\ launches' \in 0..MaxRuns /\ seed' \in Versions
       /\ now' \in 0..MaxTime /\ made' \in 0..PerSecond /\ asked' \in 0..MaxOps
    BY <1>1, BoundsAssumption DEF PackInv, TypeOK, SetEnabled, process, clock, user, Saves, Ends,
       Step, At, Begin
  <2>2. work' \in Trees
    BY <1>1 DEF PackInv, TypeOK, SetEnabled, At
  <2>3. ui' \in UIs /\ releases' \in [Ids -> Releases]
    BY <1>1 DEF PackInv, TypeOK, SetEnabled, At
  <2>4. lock' \in [entry : BOOLEAN, enabled : BOOLEAN, active : Ids \cup {NoId}]
    BY <1>1 DEF PackInv, TypeOK, SetEnabled, At
  <2>5. op' \in Ops
    BY <1>1 DEF Ops, PackInv, TypeOK, SetEnabled, At
  <2>6. written' \in SUBSET Edits /\ late' \in SUBSET Edits /\ fate' \in [Ids -> Fates]
    BY <1>1 DEF PackInv, TypeOK, SetEnabled, At
  <2>. QED BY <2>1, <2>2, <2>3, <2>4, <2>5, <2>6 DEF TypeOK, Ops
<1>3. TreesOK'
  BY <1>1 DEF PackInv, TreesOK, SetEnabled
<1>4. OpOK'
  BY <1>1 DEF PackInv, OpOK, SetEnabled
<1>5. SnapOK'
  BY <1>1 DEF PackInv, SnapOK, Newborn, HasEdits, SetEnabled
<1>6. EditsOK'
  BY <1>1 DEF PackInv, EditsOK, HasEdits, SetEnabled
<1>7. TargetOK'
  BY <1>1 DEF PackInv, TargetOK, SetEnabled
<1>8. ListIsSound'
  BY <1>1 DEF PackInv, ListIsSound, ListedAreWhole, ActiveIsListed, TargetKeptBelowLimit,
     PrunedAreOldest,
     SetEnabled
<1>. QED BY <1>1, <1>2, <1>3, <1>4, <1>5, <1>6, <1>7, <1>8 DEF PackInv

LEMMA RollbackKeeps == ASSUME NEW i \in Ids, PackInv, Rollback(i) PROVE PackInv'
<1>1. DirsOK' /\ Listed' = Listed
  BY SameDirs DEF PackInv, Rollback, At
<1>2. TypeOK'
  <2>1. /\ up' \in BOOLEAN /\ launches' \in 0..MaxRuns /\ seed' \in Versions
       /\ now' \in 0..MaxTime /\ made' \in 0..PerSecond /\ asked' \in 0..MaxOps
    BY <1>1, BoundsAssumption DEF PackInv, TypeOK, Rollback, process, clock, user, Saves, Ends,
       Step, At, Begin
  <2>2. work' \in Trees
    BY <1>1 DEF PackInv, TypeOK, Rollback, At
  <2>3. ui' \in UIs /\ releases' \in [Ids -> Releases]
    BY <1>1 DEF PackInv, TypeOK, Rollback, At
  <2>4. lock' \in [entry : BOOLEAN, enabled : BOOLEAN, active : Ids \cup {NoId}]
    BY <1>1 DEF PackInv, TypeOK, Rollback, At
  <2>5. op' \in Ops
    BY Begun DEF Ops, Rollback, Kinds, Steps, Listed
  <2>6. written' \in SUBSET Edits /\ late' \in SUBSET Edits /\ fate' \in [Ids -> Fates]
    BY <1>1 DEF PackInv, TypeOK, Trees, Unsaved, Rollback, At, Begin
  <2>. QED BY <2>1, <2>2, <2>3, <2>4, <2>5, <2>6 DEF TypeOK, Ops
<1>3. TreesOK'
  BY <1>1 DEF PackInv, TreesOK, Rollback, Listed
<1>4. OpOK'
  BY <1>1 DEF PackInv, OpOK, Rollback, Listed, Begin
<1>5. SnapOK'
  BY <1>1 DEF PackInv, OpOK, SnapOK, Rollback, Begin
<1>6. EditsOK'
  BY <1>1 DEF PackInv, EditsOK, Rollback, Begin, Unsaved
<1>7. TargetOK'
  BY <1>1 DEF PackInv, TargetOK, Idle, Rollback, Begin
<1>8. ListIsSound'
  BY <1>1 DEF PackInv, ListIsSound, ListedAreWhole, ActiveIsListed, TargetKeptBelowLimit,
     PrunedAreOldest,
     Rollback, Begin, Idle
<1>. QED BY <1>1, <1>2, <1>3, <1>4, <1>5, <1>6, <1>7, <1>8 DEF PackInv

LEMMA Parts ==
  ASSUME NEW tree \in Trees, NEW part \in PartsOf(tree)
  PROVE  /\ part \in Trees /\ part.edits \subseteq tree.edits
         /\ part.main => tree.main /\ part.v = tree.v
<1>1. CASE part = NoTree
  BY <1>1, BoundsAssumption DEF Trees, NoTree
<1>2. CASE part \in [main : {FALSE, tree.main}, whole : {FALSE},
                     v : {tree.v}, edits : SUBSET tree.edits]
  BY <1>2 DEF Trees
<1>. QED BY <1>1, <1>2 DEF PartsOf

LEMMA RemoveKeeps == ASSUME PackInv, Remove PROVE PackInv'
<1>1. DirsOK' /\ Listed' = Listed
  BY SameDirs DEF PackInv, Remove
<1>2. TypeOK'
  BY <1>1, Parts DEF PackInv, TypeOK, Steps, Remove, process, clock, user, Step
<1>3. TreesOK'
  BY <1>1, Parts DEF PackInv, TypeOK, TreesOK, Remove
<1>4. OpOK'
  BY <1>1 DEF PackInv, OpOK, Remove, Step, At
<1>5. SnapOK'
  BY <1>1 DEF PackInv, SnapOK, Remove, Step, At
<1>6. EditsOK'
  BY <1>1, Parts DEF PackInv, TypeOK, EditsOK, HasEdits, Remove, user, Step, At
<1>7. TargetOK'
  BY <1>1 DEF PackInv, TargetOK, Remove, Step
<1>8. ListIsSound'
  BY <1>1 DEF PackInv, ListIsSound, ListedAreWhole, ActiveIsListed, TargetKeptBelowLimit,
     PrunedAreOldest,
     Remove, Step, At
<1>. QED BY <1>1, <1>2, <1>3, <1>4, <1>5, <1>6, <1>7, <1>8 DEF PackInv

LEMMA CopySomeKeeps == ASSUME PackInv, CopySome PROVE PackInv'
<1>1. DirsOK' /\ Listed' = Listed
  BY SameDirs DEF PackInv, CopySome
<1>2. TypeOK'
  <2>1. /\ up' \in BOOLEAN /\ launches' \in 0..MaxRuns /\ seed' \in Versions
       /\ now' \in 0..MaxTime /\ made' \in 0..PerSecond /\ asked' \in 0..MaxOps
    BY <1>1 DEF PackInv, TypeOK, CopySome, NoTree, process, clock, user
  <2>2. work' \in Trees
    BY SourceIsTree DEF PackInv, TypeOK, CopySome, Step, At, Trees
  <2>3. ui' \in UIs /\ releases' \in [Ids -> Releases]
    BY <1>1 DEF PackInv, TypeOK, CopySome, NoTree
  <2>4. lock' \in [entry : BOOLEAN, enabled : BOOLEAN, active : Ids \cup {NoId}]
    BY <1>1 DEF PackInv, TypeOK, CopySome, NoTree
  <2>5. op' \in Ops
    BY <1>1 DEF Ops, PackInv, TypeOK, Steps, CopySome, NoTree, Step
  <2>6. written' \in SUBSET Edits /\ late' \in SUBSET Edits /\ fate' \in [Ids -> Fates]
    BY <1>1 DEF PackInv, TypeOK, CopySome, NoTree, user
  <2>. QED BY <2>1, <2>2, <2>3, <2>4, <2>5, <2>6 DEF TypeOK, Ops
<1>3. TreesOK'
  BY <1>1 DEF PackInv, TypeOK, TreesOK, OpOK, Source, SeedTree, Trees, CopySome, Step, At
<1>4. OpOK'
  BY <1>1 DEF PackInv, OpOK, CopySome, Step, At
<1>5. SnapOK'
  BY <1>1 DEF PackInv, SnapOK, CopySome, Step, At
<1>6. EditsOK'
  BY <1>1 DEF PackInv, TypeOK, Trees, EditsOK, HasEdits, CopySome, user, Step, At
<1>7. TargetOK'
  BY <1>1 DEF PackInv, TargetOK, Source, CopySome, NoRelease, NoTree, Step
<1>8. ListIsSound'
  BY <1>1 DEF PackInv, ListIsSound, ListedAreWhole, ActiveIsListed, TargetKeptBelowLimit,
     PrunedAreOldest,
     CopySome, Step, At
<1>. QED BY <1>1, <1>2, <1>3, <1>4, <1>5, <1>6, <1>7, <1>8 DEF PackInv

LEMMA CopyRestKeeps == ASSUME PackInv, CopyRest PROVE PackInv'
<1>1. DirsOK' /\ Listed' = Listed
  BY SameDirs DEF PackInv, CopyRest
<1>2. TypeOK'
  <2>1. /\ up' \in BOOLEAN /\ launches' \in 0..MaxRuns /\ seed' \in Versions
       /\ now' \in 0..MaxTime /\ made' \in 0..PerSecond /\ asked' \in 0..MaxOps
    BY <1>1 DEF PackInv, TypeOK, CopyRest, process, clock, user
  <2>2. work' \in Trees
    BY SourceIsTree DEF CopyRest, Step, At, Trees, PackInv, TypeOK
  <2>3. ui' \in UIs /\ releases' \in [Ids -> Releases]
    BY <1>1 DEF PackInv, TypeOK, CopyRest
  <2>4. lock' \in [entry : BOOLEAN, enabled : BOOLEAN, active : Ids \cup {NoId}]
    BY <1>1 DEF PackInv, TypeOK, CopyRest
  <2>5. op' \in Ops
    BY <1>1 DEF Ops, PackInv, TypeOK, Steps, CopyRest, Step
  <2>6. written' \in SUBSET Edits /\ late' \in SUBSET Edits /\ fate' \in [Ids -> Fates]
    BY <1>1 DEF PackInv, TypeOK, CopyRest, user
  <2>. QED BY <2>1, <2>2, <2>3, <2>4, <2>5, <2>6 DEF TypeOK, Ops
<1>3. TreesOK'
  <2>1. Source.main => Source.v \in Versions
    BY DEF PackInv, TypeOK, TreesOK, OpOK, Source, SeedTree, CopyRest, Step, At
  <2>2. /\ work'.main = (work.main \/ Source.main)
        /\ work'.v = IF Source.main THEN Source.v ELSE work.v
    BY DEF CopyRest
  <2>. QED BY <2>1, <2>2 DEF PackInv, TreesOK, CopyRest
<1>4. OpOK'
  BY <1>1 DEF PackInv, OpOK, CopyRest, Step, At
<1>5. SnapOK'
  BY <1>1 DEF PackInv, SnapOK, CopyRest, Step, At
<1>6. EditsOK'
  BY <1>1 DEF PackInv, EditsOK, CopyRest, Step
<1>7. TargetOK'
  BY <1>1 DEF PackInv, TargetOK, CopyRest, Step, At
<1>8. ListIsSound'
  BY <1>1 DEF PackInv, ListIsSound, ListedAreWhole, ActiveIsListed, TargetKeptBelowLimit,
     PrunedAreOldest,
     CopyRest, Step
<1>. QED BY <1>1, <1>2, <1>3, <1>4, <1>5, <1>6, <1>7, <1>8 DEF PackInv

LEMMA CopyFailsKeeps == ASSUME PackInv, CopyFails PROVE PackInv'
<1>1. DirsOK' /\ Listed' = Listed
  BY SameDirs DEF PackInv, CopyFails, At
<1>2. TypeOK'
  BY <1>1 DEF PackInv, TypeOK, Kinds, Steps, Idle, Ends, CopyFails, process, clock, user, Saves, Ends,
     Step, At, Begin
<1>3. TreesOK'
  BY <1>1 DEF PackInv, TreesOK, CopyFails
<1>4. OpOK'
  BY <1>1 DEF PackInv, OpOK, Idle, Ends, CopyFails
<1>5. SnapOK'
  BY <1>1 DEF PackInv, SnapOK, Idle, Ends, CopyFails
<1>6. EditsOK'
  BY <1>1 DEF PackInv, EditsOK, Idle, Ends, CopyFails
<1>7. TargetOK'
  BY <1>1 DEF PackInv, TargetOK, Idle, Ends, CopyFails
<1>8. ListIsSound'
  BY <1>1 DEF PackInv, ListIsSound, ListedAreWhole, ActiveIsListed, TargetKeptBelowLimit,
     PrunedAreOldest,
     Idle, Ends, CopyFails
<1>. QED BY <1>1, <1>2, <1>3, <1>4, <1>5, <1>6, <1>7, <1>8 DEF PackInv

LEMMA DropUIKeeps == ASSUME PackInv, DropUI PROVE PackInv'
<1>1. DirsOK' /\ Listed' = Listed
  BY SameDirs DEF PackInv, DropUI
<1>2. TypeOK'
  <2>1. /\ up' \in BOOLEAN /\ launches' \in 0..MaxRuns /\ seed' \in Versions
       /\ now' \in 0..MaxTime /\ made' \in 0..PerSecond /\ asked' \in 0..MaxOps
    BY <1>1 DEF PackInv, TypeOK, DropUI, process, clock, user
  <2>2. work' \in Trees
    BY <1>1 DEF PackInv, TypeOK, DropUI
  <2>3. ui' \in UIs /\ releases' \in [Ids -> Releases]
    BY <1>1, BoundsAssumption DEF PackInv, TypeOK, UIs, DropUI
  <2>4. lock' \in [entry : BOOLEAN, enabled : BOOLEAN, active : Ids \cup {NoId}]
    BY <1>1 DEF PackInv, TypeOK, DropUI
  <2>5. op' \in Ops
    BY <1>1 DEF Ops, PackInv, TypeOK, Steps, DropUI, Step
  <2>6. written' \in SUBSET Edits /\ late' \in SUBSET Edits /\ fate' \in [Ids -> Fates]
    BY <1>1 DEF PackInv, TypeOK, DropUI, user
  <2>. QED BY <2>1, <2>2, <2>3, <2>4, <2>5, <2>6 DEF TypeOK, Ops
<1>3. TreesOK'
  BY <1>1 DEF PackInv, TreesOK, DropUI
<1>4. OpOK'
  BY <1>1 DEF PackInv, OpOK, DropUI, Step, At
<1>5. SnapOK'
  BY <1>1 DEF PackInv, SnapOK, DropUI, Step, At
<1>6. EditsOK'
  BY <1>1 DEF PackInv, EditsOK, DropUI, Step
<1>7. TargetOK'
  BY <1>1 DEF PackInv, TargetOK, DropUI, Step, At
<1>8. ListIsSound'
  BY <1>1 DEF PackInv, ListIsSound, ListedAreWhole, ActiveIsListed, TargetKeptBelowLimit,
     PrunedAreOldest,
     DropUI, Step
<1>. QED BY <1>1, <1>2, <1>3, <1>4, <1>5, <1>6, <1>7, <1>8 DEF PackInv

LEMMA RestoreUIKeeps == ASSUME PackInv, RestoreUI PROVE PackInv'
<1>1. DirsOK' /\ Listed' = Listed
  BY SameDirs DEF PackInv, RestoreUI
<1>2. TypeOK'
  BY <1>1 DEF PackInv, TypeOK, OpOK, Releases, Steps, RestoreUI, process, clock, user,
     Saves, Ends, Step, At, Begin
<1>3. TreesOK'
  BY <1>1 DEF PackInv, TreesOK, RestoreUI
<1>4. OpOK'
  BY <1>1 DEF PackInv, OpOK, RestoreUI, Step, At
<1>5. SnapOK'
  BY <1>1 DEF PackInv, SnapOK, RestoreUI, Step, At
<1>6. EditsOK'
  BY <1>1 DEF PackInv, EditsOK, RestoreUI, Step
<1>7. TargetOK'
  BY <1>1 DEF PackInv, TargetOK, RestoreUI, Step, At
<1>8. ListIsSound'
  BY <1>1 DEF PackInv, ListIsSound, ListedAreWhole, ActiveIsListed, TargetKeptBelowLimit,
     PrunedAreOldest,
     RestoreUI, Step
<1>. QED BY <1>1, <1>2, <1>3, <1>4, <1>5, <1>6, <1>7, <1>8 DEF PackInv

LEMMA RollbackLockKeeps == ASSUME PackInv, RollbackLock PROVE PackInv'
<1>1. DirsOK' /\ Listed' = Listed
  BY SameDirs DEF PackInv, RollbackLock
<1>2. TypeOK'
  <2>1. /\ up' \in BOOLEAN /\ launches' \in 0..MaxRuns /\ seed' \in Versions
        /\ now' \in 0..MaxTime /\ made' \in 0..PerSecond /\ asked' \in 0..MaxOps
        /\ work' \in Trees /\ ui' \in UIs /\ releases' \in [Ids -> Releases]
        /\ written' \in SUBSET Edits
    BY DEF PackInv, TypeOK, RollbackLock, process, clock
  <2>2. op' = Idle /\ Idle \in Ops /\ late' = {}
    BY DEF RollbackLock, Saves, Ends, Idle, Ops, Kinds, Steps
  <2>3. lock' \in [entry : BOOLEAN, enabled : BOOLEAN, active : Ids \cup {NoId}]
    BY DEF PackInv, TypeOK, OpOK, Enabled, RollbackLock, Saves
  <2>4. fate' \in [Ids -> Fates]
    BY DEF PackInv, TypeOK, Fates, Activates, RollbackLock
  <2>. QED BY <2>1, <2>2, <2>3, <2>4 DEF TypeOK, Ops
<1>3. TreesOK'
  BY <1>1 DEF PackInv, TreesOK, RollbackLock
<1>4. OpOK'
  BY <1>1 DEF PackInv, OpOK, Idle, RollbackLock, Saves, Ends
<1>5. SnapOK'
  BY <1>1 DEF PackInv, SnapOK, Idle, RollbackLock, Saves, Ends
<1>6. EditsOK'
  BY <1>1 DEF PackInv, EditsOK, Idle, RollbackLock, Saves, Ends
<1>7. TargetOK'
  BY <1>1 DEF PackInv, TargetOK, Idle, RollbackLock, Saves, Ends
<1>8. ListIsSound'
  <2>1. \A i \in Ids : fate'[i] = fate[i] \/ (fate[i] = "pruned" /\ fate'[i] = "activated")
    BY DEF PackInv, TypeOK, Activates, RollbackLock
  <2>2. ListedAreWhole'
    BY <1>1, <2>1 DEF PackInv, ListIsSound, ListedAreWhole, Listed, RollbackLock
  <2>3. ActiveIsListed'
    <3>1. CASE lock'.active = lock.active /\ lock.active = NoId
      BY <3>1 DEF ActiveIsListed
    <3>2. CASE lock'.active = lock.active /\ lock.active # NoId
      BY <1>1, <2>1, <3>2 DEF PackInv, TypeOK, ListIsSound, ActiveIsListed
    <3>3. CASE lock'.active = op.target
      BY <1>1, <3>3 DEF PackInv, TypeOK, Fates, OpOK, SnapOK, TargetOK, ActiveIsListed,
         Activates, RollbackLock, At
    <3>. QED BY <3>1, <3>2, <3>3 DEF RollbackLock, Saves
  <2>4. TargetKeptBelowLimit' /\ PrunedAreOldest'
    BY DEF TargetKeptBelowLimit, PrunedAreOldest, RollbackLock, Saves, Ends, Idle
  <2>. QED BY <2>2, <2>3, <2>4 DEF ListIsSound
<1>. QED BY <1>1, <1>2, <1>3, <1>4, <1>5, <1>6, <1>7, <1>8 DEF PackInv

LEMMA SaveFailsKeeps == ASSUME PackInv, SaveFails PROVE PackInv'
<1>1. DirsOK' /\ Listed' = Listed
  BY SameDirs DEF PackInv, SaveFails
<1>2. TypeOK'
  BY <1>1 DEF PackInv, TypeOK, Kinds, Steps, Idle, Ends, SaveFails, process, clock, user
<1>3. TreesOK'
  BY <1>1 DEF PackInv, TreesOK, SaveFails
<1>4. OpOK'
  BY <1>1 DEF PackInv, OpOK, Idle, Ends, SaveFails
<1>5. SnapOK'
  BY <1>1 DEF PackInv, SnapOK, Idle, Ends, SaveFails
<1>6. EditsOK'
  BY <1>1 DEF PackInv, EditsOK, Idle, Ends, SaveFails
<1>7. TargetOK'
  BY <1>1 DEF PackInv, TargetOK, Idle, Ends, SaveFails
<1>8. ListIsSound'
  BY <1>1 DEF PackInv, ListIsSound, ListedAreWhole, ActiveIsListed, TargetKeptBelowLimit,
     PrunedAreOldest,
     Idle, Ends, SaveFails
<1>. QED BY <1>1, <1>2, <1>3, <1>4, <1>5, <1>6, <1>7, <1>8 DEF PackInv

LEMMA WriteSourceKeeps == ASSUME NEW e \in Edits, PackInv, WriteSource(e) PROVE PackInv'
<1>1. DirsOK' /\ Listed' = Listed
  BY SameDirs DEF PackInv, WriteSource, At
<1>2. TypeOK'
  BY <1>1, BoundsAssumption DEF PackInv, TypeOK, Trees, WriteSource, process, clock, user,
     Saves, Ends, Step, At, Begin
<1>3. TreesOK'
  BY <1>1 DEF PackInv, TreesOK, WriteSource
<1>4. OpOK'
  BY <1>1 DEF PackInv, OpOK, WriteSource
<1>5. SnapOK'
  BY <1>1 DEF PackInv, OpOK, SnapOK, Newborn, HasEdits, WriteSource
<1>6. EditsOK'
  BY <1>1 DEF PackInv, OpOK, EditsOK, HasEdits, WriteSource
<1>7. TargetOK'
  BY <1>1 DEF PackInv, TargetOK, WriteSource
<1>8. ListIsSound'
  BY <1>1 DEF PackInv, ListIsSound, ListedAreWhole, ActiveIsListed, TargetKeptBelowLimit,
     PrunedAreOldest,
     WriteSource
<1>. QED BY <1>1, <1>2, <1>3, <1>4, <1>5, <1>6, <1>7, <1>8 DEF PackInv

-----------------------------------------------------------------------------
(* The steps that change the releases or the clock.                        *)
LEMMA TickKeeps == ASSUME PackInv, Tick PROVE PackInv'
<1>1. TypeOK' /\ TreesOK' /\ OpOK' /\ SnapOK' /\ EditsOK' /\ TargetOK' /\ ListIsSound'
  BY BoundsAssumption DEF PackInv, TypeOK, TreesOK, OpOK, SnapOK, EditsOK, TargetOK,
     ListIsSound, ListedAreWhole, ActiveIsListed, TargetKeptBelowLimit, PrunedAreOldest,
     Newborn, HasEdits, Listed, Tick, process, user
<1>2. DirsOK'
  <2>1. OfSecond(now') = {}
    BY IdShape DEF OfSecond, PackInv, TypeOK, DirsOK, Tick
  <2>2. OfSecond(now)' = OfSecond(now')
    BY DEF OfSecond, Tick
  <2>3. Cardinality(OfSecond(now)') = 0
    BY <2>1, <2>2, FS_EmptySet
  <2>. QED BY <2>3, IdShape DEF PackInv, DirsOK, Tick, TypeOK
<1>. QED BY <1>1, <1>2 DEF PackInv

(* What is left of a release that is removed.                              *)
LEMMA Rests ==
  ASSUME NEW release \in Releases, release.dir, NEW rest \in RestsOf(release)
  PROVE  /\ rest \in Releases
         /\ ~rest.dir => rest = NoRelease
         /\ rest.meta => release.meta
         /\ rest.src.main => release.src.main /\ rest.src.v = release.src.v
<1>1. CASE rest = NoRelease
  BY <1>1, BoundsAssumption DEF NoRelease, NoTree, Releases, Trees, UIs
<1>2. CASE rest \in [dir : {TRUE}, meta : {FALSE, release.meta},
                     src : PartsOf(release.src), ui : {release.ui}]
  <2>1. release.src \in Trees
    BY DEF Releases
  <2>2. /\ rest.src \in Trees
        /\ rest.src.main => release.src.main /\ rest.src.v = release.src.v
    BY <1>2, <2>1, Parts
  <2>. QED BY <1>2, <2>2 DEF Releases
<1>. QED BY <1>1, <1>2 DEF RestsOf

(* Steps that make no directory leave the dates in order.                  *)
LEMMA FewerDirs ==
  ASSUME PackInv, UNCHANGED clock,
         \A i \in Ids : /\ releases'[i].dir => releases[i].dir
                        /\ ~releases'[i].dir => releases'[i] = NoRelease
  PROVE  DirsOK'
<1>1. OfSecond(now)' \in SUBSET OfSecond(now) /\ OfSecond(now) \in SUBSET Ids
  BY DEF OfSecond, clock
<1>2. Cardinality(OfSecond(now)') <= Cardinality(OfSecond(now))
  BY <1>1, FewerIds
<1>3. Cardinality(OfSecond(now)) \in Nat /\ Cardinality(OfSecond(now)') \in Nat
  BY <1>1, SomeIds
<1>. HIDE DEF OfSecond
<1>4. Cardinality(OfSecond(now)') <= made'
  BY <1>2, <1>3 DEF PackInv, DirsOK, TypeOK, clock
<1>. QED BY <1>4 DEF PackInv, DirsOK, clock

(* What is left of a removed release, and the rest as it was.              *)
LEMMA RemovalKeeps ==
  ASSUME PackInv, UNCHANGED <<clock, work>>, NEW id \in Ids, releases[id].dir,
         NEW rest \in RestsOf(releases[id]), releases' = [releases EXCEPT ![id] = rest]
  PROVE  /\ releases' \in [Ids -> Releases] /\ TreesOK' /\ DirsOK'
         /\ Listed' \in {Listed, Listed \ {id}}
         /\ \A i \in Ids \ {id} : releases'[i] = releases[i]
<1>1. \A i \in Ids : releases'[i] = IF i = id THEN rest ELSE releases[i]
  BY DEF PackInv, TypeOK
<1>2. /\ rest \in Releases
      /\ ~rest.dir => rest = NoRelease
      /\ rest.meta => releases[id].meta
      /\ rest.src.main => releases[id].src.main /\ rest.src.v = releases[id].src.v
  BY Rests DEF PackInv, TypeOK
<1>3. releases' \in [Ids -> Releases]
  BY <1>2 DEF PackInv, TypeOK
<1>4. TreesOK'
  BY <1>1, <1>2 DEF PackInv, TreesOK
<1>5. DirsOK'
  BY <1>1, <1>2, FewerDirs DEF PackInv, DirsOK
<1>6. Listed' \in {Listed, Listed \ {id}}
  BY <1>1, <1>2 DEF Listed
<1>. QED BY <1>1, <1>3, <1>4, <1>5, <1>6

LEMMA CrashKeeps == ASSUME PackInv, Crash PROVE PackInv'
<1>1. /\ op' = Idle /\ late' = {} /\ up' = FALSE
      /\ UNCHANGED <<launches, seed, work, ui, lock, asked, written, fate, clock>>
  BY DEF Crash, Ends
<1>2. /\ releases' \in [Ids -> Releases]
      /\ \A i \in Ids : releases'[i].dir = releases[i].dir
      /\ \A i \in Ids : releases'[i].src = releases[i].src
      /\ \A i \in Ids : ~releases[i].dir => releases'[i] = NoRelease
      /\ Listed' \subseteq Listed
      /\ \A i \in Listed \ Listed' : fate[i] = "rewritten"
  <2>1. CASE UNCHANGED releases
    BY <2>1 DEF PackInv, TypeOK, DirsOK, Listed
  <2>2. CASE At("snapMeta") /\ releases' = [releases EXCEPT ![op.id].meta = FALSE]
    <3>1. /\ op.id \in Ids /\ releases[op.id].dir
          /\ releases[op.id].meta => fate[op.id] = "rewritten"
      BY <2>2 DEF At, PackInv, SnapOK, Newborn
    <3> DEFINE new == [releases[op.id] EXCEPT !.meta = FALSE]
    <3>2. /\ new \in Releases /\ ~new.meta /\ new.dir = releases[op.id].dir
          /\ new.src = releases[op.id].src
      BY <3>1 DEF PackInv, TypeOK, Releases
    <3>3. releases' = [releases EXCEPT ![op.id] = new]
      BY <2>2, <3>1 DEF PackInv, TypeOK
    <3>. HIDE DEF new
    <3>4. \A i \in Ids : releases'[i] = IF i = op.id THEN new ELSE releases[i]
      BY <3>1, <3>3 DEF PackInv, TypeOK
    <3>5. releases' \in [Ids -> Releases]
      BY <3>2, <3>3 DEF PackInv, TypeOK
    <3>6. Listed' = Listed \ {op.id}
      BY <3>2, <3>4 DEF Listed
    <3>. QED BY <3>1, <3>2, <3>4, <3>5, <3>6 DEF PackInv, DirsOK, Listed
  <2>. QED BY <2>1, <2>2 DEF Crash
<1>3. TypeOK'
  <2>1. Idle \in Ops
    BY DEF Idle, Ops, Kinds, Steps
  <2>. QED BY <1>1, <1>2, <2>1 DEF PackInv, TypeOK, Ops, clock
<1>4. TreesOK'
  BY <1>1, <1>2 DEF PackInv, TreesOK
<1>5. DirsOK'
  BY <1>1, <1>2, FewerDirs DEF PackInv, DirsOK
<1>6. OpOK' /\ SnapOK' /\ EditsOK' /\ TargetOK'
  BY <1>1 DEF OpOK, SnapOK, EditsOK, TargetOK, Idle
<1>7. ListIsSound'
  <2>1. ListedAreWhole'
    BY <1>1, <1>2 DEF PackInv, ListIsSound, ListedAreWhole, Listed
  <2>2. ActiveIsListed'
    BY <1>1, <1>2 DEF PackInv, ListIsSound, ActiveIsListed
  <2>. QED BY <1>1, <2>1, <2>2 DEF ListIsSound, TargetKeptBelowLimit, PrunedAreOldest, Idle
<1>. QED BY <1>3, <1>4, <1>5, <1>6, <1>7 DEF PackInv

LEMMA NextIdShape ==
  ASSUME PackInv, Valid
  PROVE  /\ NextId \in Ids /\ NextId[1] = work.v /\ NextId[2] = now
         /\ releases[NextId].dir => NextId[3] = 1 /\ made >= 2
<1> DEFINE first == <<work.v, now, 0>>
           second == <<work.v, now, 1>>
<1>1. first \in Ids /\ second \in Ids /\ first # second
  BY IdShape DEF PackInv, TreesOK, Valid, TypeOK
<1>2. /\ first[1] = work.v /\ first[2] = now
      /\ second[1] = work.v /\ second[2] = now /\ second[3] = 1
  OBVIOUS
<1>3. \/ NextId = first /\ ~releases[first].dir
      \/ NextId = second /\ releases[first].dir
  BY DEF NextId
<1>. HIDE DEF first, second
<1>4. ASSUME releases[first].dir, releases[second].dir PROVE made >= 2
  <2>1. first \in OfSecond(now) /\ second \in OfSecond(now) /\ OfSecond(now) \in SUBSET Ids
    BY <1>1, <1>2, <1>4 DEF OfSecond
  <2>2. Cardinality(OfSecond(now)) >= 2
    BY <1>1, <2>1, TwoIds
  <2>. QED BY <2>1, <2>2, SomeIds DEF PackInv, DirsOK, TypeOK
<1>. QED BY <1>1, <1>2, <1>3, <1>4

LEMMA SnapBeginKeeps == ASSUME PackInv, SnapBegin PROVE PackInv'
<1> DEFINE id == NextId
           old == releases[id]
           src == [main |-> TRUE, whole |-> FALSE, v |-> work.v,
                   edits |-> old.src.edits \cup (work.edits \ Skipped)]
           new == [old EXCEPT !.dir = TRUE, !.meta = old.meta, !.src = src]
<1>1. id \in Ids /\ id[2] = now /\ op.pc = "snap" /\ Valid
  BY NextIdShape DEF SnapBegin, OpenRelease, At
<1>2. /\ op' = [op EXCEPT !.pc = "snapCopy", !.id = id]
      /\ made' = made + 1 /\ made < PerSecond
      /\ fate' = IF old.meta THEN [fate EXCEPT ![id] = "rewritten"] ELSE fate
      /\ UNCHANGED <<process, work, ui, lock, now, user>>
  BY DEF SnapBegin, OpenRelease
<1>3. releases' = [releases EXCEPT ![id] = new]
  BY DEF SnapBegin, OpenRelease
<1>4. old \in Releases
  BY <1>1 DEF PackInv, TypeOK
<1>5. /\ new \in Releases /\ new.dir /\ new.meta = old.meta
      /\ new.src.main /\ new.src.v = work.v /\ work.edits \ Skipped \subseteq new.src.edits
  <2>1. src \in Trees /\ src.main /\ src.v = work.v /\ work.edits \ Skipped \subseteq src.edits
    BY <1>4 DEF PackInv, TypeOK, Trees, Releases
  <2>. HIDE DEF old, src
  <2>2. new \in Releases /\ new.dir /\ new.meta = old.meta /\ new.src = src
    BY <1>4, <2>1 DEF Releases
  <2>. QED BY <2>1, <2>2
<1>. HIDE DEF id, old, src, new
<1>6. \A i \in Ids : releases'[i] = IF i = id THEN new ELSE releases[i]
  BY <1>1, <1>3 DEF PackInv, TypeOK
<1>7. \A i \in Ids : fate'[i] = IF i = id /\ old.meta THEN "rewritten" ELSE fate[i]
  BY <1>1, <1>2 DEF PackInv, TypeOK
<1>8. Listed' = Listed
  BY <1>1, <1>5, <1>6 DEF Listed, old
<1>9. TypeOK'
  <2>1. releases' \in [Ids -> Releases]
    BY <1>1, <1>3, <1>5 DEF PackInv, TypeOK
  <2>2. op' \in Ops
    BY <1>1, <1>2 DEF PackInv, TypeOK, Steps, Ops
  <2>3. fate' \in [Ids -> Fates]
    BY <1>1, <1>2 DEF PackInv, TypeOK, Fates
  <2>. QED BY <1>2, <2>1, <2>2, <2>3, BoundsAssumption DEF PackInv, TypeOK, process, user,
             Ops
<1>10. TreesOK'
  BY <1>1, <1>2, <1>5, <1>6 DEF PackInv, TreesOK, Valid
<1>11. DirsOK'
  <2>1. \A i \in Ids : ~releases'[i].dir => releases'[i] = NoRelease
    BY <1>5, <1>6 DEF PackInv, DirsOK
  <2>2. \A i \in Ids : releases'[i].dir => i[2] <= now'
    BY <1>1, <1>2, <1>6 DEF PackInv, TypeOK, DirsOK
  <2>3. OfSecond(now)' \in SUBSET (OfSecond(now) \cup {id})
    BY <1>1, <1>2, <1>6 DEF OfSecond
  <2>4. Cardinality(OfSecond(now)') <= Cardinality(OfSecond(now)) + 1
    BY <1>1, <2>3, OneMoreId DEF OfSecond
  <2>5. OfSecond(now) \in SUBSET Ids /\ OfSecond(now)' \in SUBSET Ids
    BY <1>1, <2>3 DEF OfSecond
  <2>6. Cardinality(OfSecond(now)) \in Nat /\ Cardinality(OfSecond(now)') \in Nat
    BY <2>5, SomeIds
  <2>7. Cardinality(OfSecond(now)') <= made'
    BY <1>2, <2>4, <2>6 DEF PackInv, DirsOK, TypeOK
  <2>. QED BY <2>1, <2>2, <2>7 DEF DirsOK
<1>12. OpOK'
  BY <1>1, <1>2, <1>8 DEF PackInv, TypeOK, OpOK, Idle
<1>13. SnapOK' /\ EditsOK'
  <2>1. op'.id = id /\ op'.pc = "snapCopy"
    BY <1>1, <1>2 DEF PackInv, TypeOK
  <2>2. Newborn'
    BY <1>1, <1>5, <1>6, <1>7, <2>1 DEF Newborn
  <2>3. HasEdits'
    BY <1>1, <1>2, <1>5, <1>6, <2>1 DEF HasEdits
  <2>. QED BY <2>1, <2>2, <2>3 DEF SnapOK, EditsOK
<1>14. TargetOK'
  <2>1. \A i \in Ids : fate[i] # "kept" => fate'[i] # "kept"
    BY <1>7
  <2>2. \A i \in Ids : fate[i] = "rewritten" => fate'[i] = "rewritten"
    BY <1>7
  <2>. QED BY <1>1, <1>2, <1>8, <2>1, <2>2 DEF PackInv, TypeOK, OpOK, TargetOK
<1>15. ListIsSound'
  <2>1. ListedAreWhole'
    BY <1>1, <1>5, <1>6, <1>7, <1>8 DEF PackInv, ListIsSound, ListedAreWhole, Listed, old
  <2>2. ActiveIsListed'
    BY <1>2, <1>7, <1>8 DEF PackInv, TypeOK, ListIsSound, ActiveIsListed
  <2>3. TargetKeptBelowLimit' /\ PrunedAreOldest'
    BY <1>1, <1>2 DEF PackInv, TypeOK, OpOK, TargetKeptBelowLimit, PrunedAreOldest
  <2>. QED BY <2>1, <2>2, <2>3 DEF ListIsSound
<1>. QED BY <1>9, <1>10, <1>11, <1>12, <1>13, <1>14, <1>15 DEF PackInv

LEMMA SnapCopyKeeps == ASSUME PackInv, SnapCopy PROVE PackInv'
<1> DEFINE id == op.id
           old == releases[id]
<1>1. /\ op.pc = "snapCopy" /\ op' = [op EXCEPT !.pc = "snapMeta"]
      /\ UNCHANGED <<process, work, ui, lock, clock, user, fate>>
  BY DEF SnapCopy, Step, At
<1>2. Newborn /\ HasEdits
  BY <1>1 DEF PackInv, SnapOK
<1>3. old \in Releases /\ old.dir = TRUE /\ old.src.main = TRUE
  BY <1>2 DEF Newborn, PackInv, TypeOK, Releases, Trees
<1>4. PICK seen \in SUBSET ((work.edits \cap late) \ Skipped) :
        releases' = [releases EXCEPT ![id].src.whole = TRUE,
                                     ![id].src.edits = @ \cup seen,
                                     ![id].ui = IF ui = 0 THEN @ ELSE ui]
  BY DEF SnapCopy
<1> DEFINE src == [old.src EXCEPT !.whole = TRUE, !.edits = @ \cup seen]
           built == IF ui = 0 THEN old.ui ELSE ui
           new == [old EXCEPT !.src = src, !.ui = built]
<1>5. releases' = [releases EXCEPT ![id] = new]
  BY <1>2, <1>3, <1>4 DEF PackInv
<1>6. src \in Trees /\ built \in UIs
  BY <1>3 DEF PackInv, TypeOK, Releases, Trees
<1>7. /\ new \in Releases /\ new.dir /\ new.meta = old.meta
      /\ new.src.main /\ new.src.whole
      /\ new.src.v = old.src.v /\ old.src.edits \subseteq new.src.edits
  <2>1. /\ src.main /\ src.whole /\ src.v = old.src.v /\ old.src.edits \subseteq src.edits
    BY <1>3 DEF Releases, Trees
  <2>. HIDE DEF src, built
  <2>2. new \in Releases /\ new.src = src /\ new.dir = old.dir /\ new.meta = old.meta
    BY <1>3, <1>6 DEF Releases
  <2>. QED BY <1>3, <2>1, <2>2
<1>8. id \in Ids
  BY <1>2 DEF Newborn
<1>. HIDE DEF id, old, src, built, new
<1>9. \A i \in Ids : releases'[i] = IF i = id THEN new ELSE releases[i]
  BY <1>5, <1>8 DEF PackInv, TypeOK
<1>10. Listed' = Listed
  BY <1>7, <1>9 DEF Listed, old
<1>11. TypeOK'
  <2>1. releases' \in [Ids -> Releases]
    BY <1>5, <1>7, <1>8 DEF PackInv, TypeOK
  <2>2. op' \in Ops
    BY <1>1 DEF PackInv, TypeOK, Steps, Ops
  <2>. QED BY <1>1, <2>1, <2>2 DEF PackInv, TypeOK, process, clock, user, Ops
<1>12. TreesOK'
  BY <1>1, <1>3, <1>7, <1>9 DEF PackInv, TreesOK, old
<1>13. DirsOK'
  BY <1>1, <1>3, <1>7, <1>9, FewerDirs DEF PackInv, DirsOK, old
<1>14. OpOK'
  BY <1>1, <1>10 DEF PackInv, TypeOK, OpOK, Idle
<1>15. SnapOK' /\ EditsOK'
  <2>1. op'.id = id /\ op'.pc = "snapMeta"
    BY <1>1 DEF PackInv, TypeOK, id
  <2>2. Newborn'
    BY <1>1, <1>2, <1>7, <1>8, <1>9, <2>1 DEF Newborn, id, old
  <2>3. HasEdits'
    BY <1>1, <1>2, <1>7, <1>8, <1>9, <2>1 DEF HasEdits, user, id, old
  <2>4. releases'[op'.id].src.whole
    BY <1>7, <1>8, <1>9, <2>1
  <2>. QED BY <2>1, <2>2, <2>3, <2>4 DEF SnapOK, EditsOK
<1>16. TargetOK'
  BY <1>1, <1>10 DEF PackInv, TypeOK, TargetOK
<1>17. ListIsSound'
  BY <1>1, <1>7, <1>9, <1>10 DEF PackInv, TypeOK, OpOK, ListIsSound, ListedAreWhole,
     ActiveIsListed, TargetKeptBelowLimit, PrunedAreOldest, Listed
<1>. QED BY <1>11, <1>12, <1>13, <1>14, <1>15, <1>16, <1>17 DEF PackInv

LEMMA SnapMetaKeeps == ASSUME PackInv, SnapMeta PROVE PackInv'
<1> DEFINE id == op.id
           new == [releases[id] EXCEPT !.meta = TRUE]
<1>1. /\ op.pc = "snapMeta" /\ op' = [op EXCEPT !.pc = "prune"]
      /\ releases' = [releases EXCEPT ![id].meta = TRUE]
      /\ fate' = [fate EXCEPT ![id] = "kept"]
      /\ UNCHANGED <<process, work, ui, lock, clock, user>>
  BY DEF SnapMeta, Step, At
<1>2. Newborn /\ HasEdits /\ releases[id].src.whole
  BY <1>1 DEF PackInv, SnapOK
<1>3. id \in Ids
  BY <1>2 DEF Newborn
<1>4. /\ new \in Releases /\ new.meta /\ new.dir = releases[id].dir
      /\ new.src = releases[id].src
  BY <1>3 DEF PackInv, TypeOK, Releases
<1>5. releases' = [releases EXCEPT ![id] = new]
  BY <1>1, <1>3 DEF PackInv, TypeOK
<1>. HIDE DEF id, new
<1>6. \A i \in Ids : releases'[i] = IF i = id THEN new ELSE releases[i]
  BY <1>5, <1>3 DEF PackInv, TypeOK
<1>7. \A i \in Ids : fate'[i] = IF i = id THEN "kept" ELSE fate[i]
  BY <1>1, <1>3 DEF PackInv, TypeOK
<1>8. Listed' = Listed \cup {id}
  BY <1>3, <1>4, <1>6 DEF Listed
<1>9. TypeOK'
  <2>1. releases' \in [Ids -> Releases]
    BY <1>3, <1>4, <1>5 DEF PackInv, TypeOK
  <2>2. op' \in Ops
    BY <1>1 DEF PackInv, TypeOK, Steps, Ops
  <2>3. fate' \in [Ids -> Fates]
    BY <1>1, <1>3 DEF PackInv, TypeOK, Fates
  <2>. QED BY <1>1, <2>1, <2>2, <2>3 DEF PackInv, TypeOK, process, clock, user, Ops
<1>10. TreesOK'
  BY <1>1, <1>4, <1>6 DEF PackInv, TreesOK
<1>11. DirsOK'
  BY <1>1, <1>2, <1>4, <1>6, FewerDirs DEF PackInv, DirsOK, Newborn, id
<1>12. OpOK'
  BY <1>1, <1>8 DEF PackInv, TypeOK, OpOK, Idle
<1>13. SnapOK' /\ EditsOK'
  <2>1. op'.id = id /\ op'.pc = "prune"
    BY <1>1 DEF PackInv, TypeOK, id
  <2>2. HasEdits'
    BY <1>1, <1>2, <1>3, <1>4, <1>6, <2>1 DEF HasEdits, user, id
  <2>. QED BY <1>8, <2>1, <2>2 DEF SnapOK, EditsOK
<1>14. TargetOK'
  <2>1. Listed \in SUBSET Ids /\ Listed' \in SUBSET (Listed \cup {id})
    BY <1>8 DEF Listed
  <2>2. Cardinality(Listed') <= Cardinality(Listed) + 1
    BY <1>3, <2>1, OneMoreId
  <2>3. Cardinality(Listed) \in Nat /\ Cardinality(Listed') \in Nat
    BY <1>3, <1>8, <2>1, SomeIds
  <2>4. Cardinality(Listed) < Keep => Cardinality(Listed') <= Keep
    BY <2>2, <2>3, BoundsAssumption
  <2>5. /\ op'.kind = op.kind /\ op'.target = op.target /\ op'.room = op.room
        /\ op'.pc = "prune"
    BY <1>1 DEF PackInv, TypeOK
  <2>. QED BY <1>1, <1>7, <1>8, <2>4, <2>5 DEF PackInv, OpOK, TargetOK
<1>15. ListIsSound'
  <2>1. ListedAreWhole'
    BY <1>2, <1>3, <1>4, <1>6, <1>7, <1>8 DEF PackInv, ListIsSound, ListedAreWhole, Newborn,
       Listed, id
  <2>2. ActiveIsListed'
    BY <1>1, <1>7, <1>8 DEF PackInv, TypeOK, ListIsSound, ActiveIsListed
  <2>3. TargetKeptBelowLimit' /\ PrunedAreOldest'
    BY <1>1 DEF PackInv, TypeOK, OpOK, TargetKeptBelowLimit, PrunedAreOldest
  <2>. QED BY <2>1, <2>2, <2>3 DEF ListIsSound
<1>. QED BY <1>9, <1>10, <1>11, <1>12, <1>13, <1>14, <1>15 DEF PackInv

(* What is cut off the list leaves Keep releases as new, and nothing is cut*)
(* off below the limit.                                                    *)
LEMMA CutOff ==
  ASSUME NEW newest \in Newest
  PROVE  /\ newest \subseteq Listed
         /\ Cardinality(Listed) <= Keep => Doomed(newest) = {}
         /\ \A i \in Doomed(newest) :
              Cardinality({j \in Listed \ Doomed(newest) : j[2] >= i[2]}) >= Keep
<1>1. newest \in SUBSET Listed /\ Listed \in SUBSET Ids /\ newest \in SUBSET Ids
  BY DEF Newest, Listed
<1>2. Cardinality(Listed) <= Keep => Doomed(newest) = {}
  <2>1. SUFFICES ASSUME Cardinality(Listed) <= Keep PROVE newest = Listed
    BY DEF Doomed
  <2>2. Cardinality(newest) = Cardinality(Listed)
    BY <2>1 DEF Newest
  <2>. QED BY <1>1, <2>2, FS_Subset, SomeIds
<1>3. ASSUME NEW i \in Doomed(newest)
      PROVE  Cardinality({j \in Listed \ Doomed(newest) : j[2] >= i[2]}) >= Keep
  <2> DEFINE stay == {j \in Listed \ Doomed(newest) : j[2] >= i[2]}
  <2>1. ~(Cardinality(Listed) <= Keep) /\ i \in Listed \ newest
    BY <1>2, <1>3 DEF Doomed
  <2>2. Cardinality(newest) = Keep /\ \A j \in newest : j[2] >= i[2]
    BY <2>1 DEF Newest
  <2>3. newest \in SUBSET stay /\ stay \in SUBSET Ids
    BY <1>1, <2>2 DEF Doomed
  <2>4. Cardinality(newest) <= Cardinality(stay)
    BY <2>3, FewerIds
  <2>. HIDE DEF stay
  <2>5. Cardinality(stay) \in Nat
    BY <2>3, SomeIds
  <2>6. Cardinality(stay) >= Keep
    BY <2>2, <2>4, <2>5, BoundsAssumption
  <2>. QED BY <2>6 DEF stay
<1>. QED BY <1>1, <1>2, <1>3

LEMMA PruneKeeps == ASSUME PackInv, Prune PROVE PackInv'
<1>1. op.pc = "prune" /\ UNCHANGED <<process, work, ui, releases, lock, clock, user, fate>>
  BY DEF Prune, At
<1>2. PICK newest \in Newest :
        op' = [op EXCEPT !.pc = IF Doomed(newest) = {} THEN AfterSnapshot ELSE "pruning",
                         !.doomed = Doomed(newest),
                         !.failed = @ \/ op.id \in Doomed(newest)]
  BY DEF Prune
<1> DEFINE doomed == Doomed(newest)
<1>3. /\ doomed \subseteq Listed /\ lock.active \notin doomed
      /\ Cardinality(Listed) <= Keep => doomed = {}
      /\ \A i \in doomed : Cardinality({j \in Listed \ doomed : j[2] >= i[2]}) >= Keep
  BY CutOff DEF Doomed
<1>4. op.id \in Ids /\ op.id \in Listed /\ HasEdits
  BY <1>1 DEF PackInv, SnapOK, Listed
<1>5. AfterSnapshot \in {"remove", "lock"}
  BY DEF AfterSnapshot
<1>. HIDE DEF doomed
<1>6. /\ op'.kind = op.kind /\ op'.id = op.id /\ op'.target = op.target
      /\ op'.room = op.room /\ op'.doomed = doomed
      /\ op'.failed = (op.failed \/ op.id \in doomed)
      /\ op'.pc = IF doomed = {} THEN AfterSnapshot ELSE "pruning"
  BY <1>2 DEF PackInv, TypeOK, doomed
<1>7. DirsOK' /\ Listed' = Listed
  BY <1>1, SameDirs DEF PackInv
<1>8. TypeOK'
  <2>1. doomed \in SUBSET Ids /\ (op.failed \/ op.id \in doomed) \in BOOLEAN
    BY <1>3 DEF Listed
  <2>2. op' \in Ops
    BY <1>2, <1>5, <2>1 DEF PackInv, TypeOK, Ops, Steps, doomed
  <2>. QED BY <1>1, <2>2 DEF PackInv, TypeOK, Ops, process, clock, user
<1>9. TreesOK'
  BY <1>1 DEF PackInv, TreesOK
<1>10. OpOK'
  BY <1>1, <1>3, <1>5, <1>6, <1>7 DEF PackInv, OpOK, AfterSnapshot
<1>11. SnapOK' /\ EditsOK'
  <2>1. HasEdits'
    BY <1>1, <1>4, <1>6 DEF HasEdits, user
  <2>. QED BY <1>4, <1>5, <1>6, <1>7, <2>1 DEF SnapOK, EditsOK
<1>12. TargetOK'
  BY <1>1, <1>3, <1>5, <1>6, <1>7 DEF PackInv, TargetOK
<1>13. ListIsSound'
  <2>1. ListedAreWhole' /\ ActiveIsListed'
    BY <1>1, <1>7 DEF PackInv, ListIsSound, ListedAreWhole, ActiveIsListed
  <2>2. TargetKeptBelowLimit'
    BY <1>1, <1>6, <1>7 DEF PackInv, TargetOK, TargetKeptBelowLimit
  <2>3. PrunedAreOldest'
    BY <1>3, <1>6, <1>7 DEF PrunedAreOldest
  <2>. QED BY <2>1, <2>2, <2>3 DEF ListIsSound
<1>. QED BY <1>7, <1>8, <1>9, <1>10, <1>11, <1>12, <1>13 DEF PackInv

LEMMA PruneReleaseKeeps ==
  ASSUME NEW i \in Ids, PackInv, PruneRelease(i) PROVE PackInv'
<1>1. /\ op.pc = "pruning" /\ i \in op.doomed
      /\ op' = [op EXCEPT !.doomed = @ \ {i},
                          !.pc = IF op.doomed = {i} THEN AfterSnapshot ELSE @]
      /\ fate' = [fate EXCEPT ![i] = "pruned"]
      /\ UNCHANGED <<process, work, ui, lock, clock, user>>
  BY DEF PruneRelease, At
<1>2. PICK rest \in RestsOf(releases[i]) : releases' = [releases EXCEPT ![i] = rest]
  BY DEF PruneRelease
<1>3. i \in Listed /\ releases[i].dir /\ i # lock.active
  BY <1>1 DEF PackInv, OpOK, DirsOK, Listed, NoRelease
<1>4. /\ releases' \in [Ids -> Releases] /\ TreesOK' /\ DirsOK'
      /\ Listed' \in {Listed, Listed \ {i}}
      /\ \A j \in Ids \ {i} : releases'[j] = releases[j]
  BY <1>1, <1>2, <1>3, RemovalKeeps
<1>5. \A j \in Ids : fate'[j] = IF j = i THEN "pruned" ELSE fate[j]
  BY <1>1 DEF PackInv, TypeOK
<1>6. AfterSnapshot \in {"remove", "lock"}
  BY DEF AfterSnapshot
<1>7. /\ op'.kind = op.kind /\ op'.id = op.id /\ op'.target = op.target
      /\ op'.room = op.room /\ op'.failed = op.failed /\ op'.doomed = op.doomed \ {i}
      /\ op'.pc = IF op.doomed = {i} THEN AfterSnapshot ELSE "pruning"
  BY <1>1 DEF PackInv, TypeOK
<1>8. TypeOK'
  <2>1. op' \in Ops
    BY <1>1, <1>6 DEF PackInv, TypeOK, Ops, Steps
  <2>2. fate' \in [Ids -> Fates]
    BY <1>1 DEF PackInv, TypeOK, Fates
  <2>. QED BY <1>1, <1>4, <2>1, <2>2 DEF PackInv, TypeOK, Ops, process, clock, user
<1>9. OpOK'
  BY <1>1, <1>4, <1>6, <1>7 DEF PackInv, OpOK, AfterSnapshot
<1>10. SnapOK'
  BY <1>1, <1>4, <1>5, <1>6, <1>7 DEF PackInv, TypeOK, SnapOK
<1>11. EditsOK'
  <2>1. ASSUME op.id \in Listed \ op.doomed, HasEdits
        PROVE  op'.id \in Listed' \ op'.doomed /\ HasEdits'
    BY <1>1, <1>4, <1>7, <2>1 DEF HasEdits, user, Listed
  <2>. QED BY <1>1, <1>6, <1>7, <2>1 DEF PackInv, EditsOK
<1>12. TargetOK'
  BY <1>1, <1>4, <1>5, <1>7 DEF PackInv, OpOK, TargetOK
<1>13. ListIsSound'
  <2>1. ListedAreWhole'
    BY <1>4, <1>5 DEF PackInv, ListIsSound, ListedAreWhole, Listed
  <2>2. ActiveIsListed'
    BY <1>1, <1>3, <1>4, <1>5 DEF PackInv, TypeOK, ListIsSound, ActiveIsListed
  <2>3. TargetKeptBelowLimit'
    BY <1>1, <1>7 DEF PackInv, TargetOK, TargetKeptBelowLimit
  <2>4. PrunedAreOldest'
    <3> SUFFICES ASSUME NEW j \in op.doomed \ {i}
                 PROVE  Cardinality({k \in Listed' \ (op.doomed \ {i}) : k[2] >= j[2]})
                          >= Keep
      BY <1>7 DEF PrunedAreOldest
    <3> DEFINE before == {k \in Listed \ op.doomed : k[2] >= j[2]}
               after == {k \in Listed' \ (op.doomed \ {i}) : k[2] >= j[2]}
    <3>1. Cardinality(before) >= Keep
      BY DEF PackInv, ListIsSound, PrunedAreOldest
    <3>2. before \in SUBSET after /\ after \in SUBSET Ids /\ before \in SUBSET Ids
      BY <1>1, <1>4 DEF Listed
    <3>. HIDE DEF before, after
    <3>3. Cardinality(before) <= Cardinality(after)
      BY <3>2, FewerIds
    <3>4. Cardinality(after) >= Keep
      BY <3>1, <3>2, <3>3, SomeIds, BoundsAssumption
    <3>. QED BY <3>4 DEF after
  <2>. QED BY <2>1, <2>2, <2>3, <2>4 DEF ListIsSound
<1>. QED BY <1>4, <1>8, <1>9, <1>10, <1>11, <1>12, <1>13 DEF PackInv

LEMMA SnapFailsKeeps == ASSUME PackInv, SnapFails PROVE PackInv'
<1>1. /\ op.pc \in {"snap", "snapCopy", "snapMeta"}
      /\ IF op.kind = "snapshot" THEN Ends
         ELSE /\ op' = [op EXCEPT !.pc = AfterSnapshot, !.id = NoId, !.failed = TRUE]
              /\ UNCHANGED late
      /\ UNCHANGED <<process, work, ui, lock, clock, asked, written, fate>>
  BY DEF SnapFails
<1>2. /\ releases' \in [Ids -> Releases] /\ TreesOK' /\ DirsOK'
      /\ Listed' \subseteq Listed
      /\ \A i \in Listed \ Listed' : fate[i] = "rewritten"
      /\ \A i \in Listed' : fate[i] = "kept" => releases'[i] = releases[i]
  <2>1. CASE op.id = NoId /\ UNCHANGED releases
    BY <1>1, <2>1, SameDirs DEF PackInv, TypeOK, TreesOK
  <2>2. CASE op.id \in Ids /\ \E rest \in RestsOf(releases[op.id]) :
               releases' = [releases EXCEPT ![op.id] = rest]
    <3>1. Newborn
      BY <1>1, <2>2, IdShape DEF PackInv, SnapOK, OpOK
    <3>2. PICK rest \in RestsOf(releases[op.id]) :
            releases' = [releases EXCEPT ![op.id] = rest]
      BY <2>2
    <3>3. /\ releases' \in [Ids -> Releases] /\ TreesOK' /\ DirsOK'
          /\ Listed' \in {Listed, Listed \ {op.id}}
          /\ \A i \in Ids \ {op.id} : releases'[i] = releases[i]
      BY <1>1, <2>2, <3>1, <3>2, RemovalKeeps DEF Newborn
    <3>. QED BY <3>1, <3>3 DEF Newborn, Listed
  <2>. QED BY <2>1, <2>2 DEF SnapFails
<1>3. AfterSnapshot \in {"remove", "lock"}
  BY DEF AfterSnapshot
<1>4. op.doomed = {}
  BY <1>1 DEF PackInv, OpOK
<1>5. CASE op.kind = "snapshot"
  <2>1. op' = Idle /\ late' = {} /\ Idle \in Ops
    BY <1>1, <1>5 DEF Ends, Idle, Ops, Kinds, Steps
  <2>2. TypeOK'
    BY <1>1, <1>2, <2>1 DEF PackInv, TypeOK, Ops, process, clock
  <2>3. OpOK' /\ SnapOK' /\ EditsOK' /\ TargetOK'
    BY <2>1 DEF OpOK, SnapOK, EditsOK, TargetOK, Idle
  <2>4. ListIsSound'
    <3>1. ListedAreWhole' /\ ActiveIsListed'
      BY <1>1, <1>2 DEF PackInv, ListIsSound, ListedAreWhole, ActiveIsListed
    <3>. QED BY <2>1, <3>1 DEF ListIsSound, TargetKeptBelowLimit, PrunedAreOldest, Idle
  <2>. QED BY <1>2, <2>2, <2>3, <2>4 DEF PackInv
<1>6. CASE op.kind # "snapshot"
  <2>1. op' = [op EXCEPT !.pc = AfterSnapshot, !.id = NoId, !.failed = TRUE]
        /\ UNCHANGED late
    BY <1>1, <1>6
  <2>2. /\ op'.kind = op.kind /\ op'.target = op.target /\ op'.room = op.room
        /\ op'.doomed = {} /\ op'.pc = AfterSnapshot /\ op'.id = NoId /\ op'.failed
    BY <1>4, <2>1 DEF PackInv, TypeOK
  <2>3. TypeOK'
    <3>1. op' \in Ops
      BY <1>3, <2>1 DEF PackInv, TypeOK, Ops, Steps
    <3>. QED BY <1>1, <1>2, <2>1, <3>1 DEF PackInv, TypeOK, Ops, process, clock
  <2>4. OpOK'
    BY <1>1, <2>2 DEF PackInv, OpOK, AfterSnapshot
  <2>5. SnapOK' /\ EditsOK'
    BY <1>3, <2>2 DEF SnapOK, EditsOK
  <2>6. TargetOK'
    BY <1>1, <1>2, <1>3, <2>2 DEF PackInv, OpOK, TargetOK
  <2>7. ListIsSound'
    <3>1. ListedAreWhole' /\ ActiveIsListed'
      BY <1>1, <1>2 DEF PackInv, ListIsSound, ListedAreWhole, ActiveIsListed
    <3>2. TargetKeptBelowLimit' /\ PrunedAreOldest'
      BY <2>2, <2>6 DEF TargetOK, TargetKeptBelowLimit, PrunedAreOldest
    <3>. QED BY <3>1, <3>2 DEF ListIsSound
  <2>. QED BY <1>2, <2>3, <2>4, <2>5, <2>6, <2>7 DEF PackInv
<1>. QED BY <1>5, <1>6

-----------------------------------------------------------------------------
LEMMA InitPackInv == Init => PackInv
<1> SUFFICES ASSUME Init PROVE PackInv
  OBVIOUS
<1>1. \A i \in Ids : releases[i] = NoRelease
  BY DEF Init
<1>2. Listed = {} /\ OfSecond(now) = {}
  BY <1>1 DEF Listed, OfSecond, NoRelease
<1>3. TypeOK
  <2>1. NoRelease \in Releases
    BY BoundsAssumption DEF NoRelease, NoTree, Releases, Trees, UIs
  <2>2. Idle \in Ops
    BY DEF Idle, Ops, Kinds, Steps
  <2>3. work \in Trees
    BY BoundsAssumption DEF Init, NoTree, Trees
  <2>4. /\ seed \in Versions /\ ui \in UIs /\ launches \in 0..MaxRuns /\ now \in 0..MaxTime
        /\ made \in 0..PerSecond /\ asked \in 0..MaxOps
    BY BoundsAssumption DEF Init, Versions, UIs
  <2>5. fate \in [Ids -> Fates]
    BY DEF Init, Fates
  <2>. QED BY <2>1, <2>2, <2>3, <2>4, <2>5 DEF Init, TypeOK, Ops
<1>4. TreesOK
  BY <1>1, BoundsAssumption DEF Init, TreesOK, NoTree, NoRelease, Versions
<1>5. DirsOK
  <2>1. \A i \in Ids : ~releases[i].dir
    BY <1>1 DEF NoRelease
  <2>2. Cardinality(OfSecond(now)) = 0
    BY <1>2, FS_EmptySet
  <2>3. made = 0
    BY DEF Init
  <2>4. Cardinality(OfSecond(now)) <= made
    BY <2>2, <2>3
  <2>. QED BY <1>1, <2>1, <2>4 DEF DirsOK
<1>6. OpOK /\ SnapOK /\ EditsOK /\ TargetOK
  BY DEF Init, OpOK, SnapOK, EditsOK, TargetOK, Idle
<1>7. ListIsSound
  BY <1>2 DEF Init, ListIsSound, ListedAreWhole, ActiveIsListed, TargetKeptBelowLimit,
     PrunedAreOldest, Idle
<1>. QED BY <1>3, <1>4, <1>5, <1>6, <1>7 DEF PackInv

LEMMA NextPackInv == ASSUME PackInv, [Next]_vars PROVE PackInv'
<1>1. CASE SnapshotStep
  BY <1>1, SnapBeginKeeps, SnapCopyKeeps, SnapMetaKeeps, PruneKeeps, PruneReleaseKeeps,
     SnapFailsKeeps DEF SnapshotStep
<1>2. CASE UNCHANGED vars
  BY <1>2 DEF vars, process, clock, user, PackInv, TypeOK, TreesOK, DirsOK, OfSecond, OpOK,
     SnapOK, Newborn, HasEdits, EditsOK, TargetOK, ListIsSound, ListedAreWhole,
     ActiveIsListed, TargetKeptBelowLimit, PrunedAreOldest, Listed
<1>3. CASE \/ \E v \in Versions : Start(v)
           \/ \E b \in BOOLEAN : SetEnabled(b)
           \/ \E i \in Ids : Rollback(i)
           \/ \E e \in Edits : WriteSource(e)
  BY <1>3, StartKeeps, SetEnabledKeeps, RollbackKeeps, WriteSourceKeeps
<1>4. CASE Crash \/ Tick \/ SeedCheck \/ SeedLock \/ BuildUI \/ Compile \/ CompileFails
           \/ BuildLock \/ Snapshot \/ SnapshotLock
  BY <1>4, CrashKeeps, TickKeeps, SeedCheckKeeps, SeedLockKeeps, BuildUIKeeps, CompileKeeps,
     CompileFailsKeeps, BuildLockKeeps, SnapshotKeeps, SnapshotLockKeeps
<1>5. CASE Remove \/ CopySome \/ CopyRest \/ CopyFails \/ DropUI \/ RestoreUI
           \/ RollbackLock \/ SaveFails
  BY <1>5, RemoveKeeps, CopySomeKeeps, CopyRestKeeps, CopyFailsKeeps, DropUIKeeps,
     RestoreUIKeeps, RollbackLockKeeps, SaveFailsKeeps
<1>. QED BY <1>1, <1>2, <1>3, <1>4, <1>5 DEF Next

(* The invariant holds in every reachable state, for every number of       *)
(* versions, edits, launches, operations and snapshots per second.         *)
THEOREM Invariance == Spec => []PackInv
<1>1. PackInv /\ [Next]_vars => PackInv'
  BY NextPackInv
<1>. QED BY <1>1, InitPackInv, PTL DEF Spec

(* Every variable of a pack keeps its type (manager.go, release.go).       *)
THEOREM TypeCorrect == Spec => []TypeOK
<1>1. PackInv => TypeOK
  BY DEF PackInv
<1>. QED BY <1>1, Invariance, PTL

(* What ListReleases shows can be restored: a listed release is a complete *)
(* copy unless its removal was cut off or a third snapshot of its second is*)
(* written over it, the active one is listed with the same exception,      *)
(* pruning leaves the Keep newest, and below the limit a rollback still has*)
(* its target when it has removed the source tree (release.go).            *)
THEOREM ReleasesAreSound == Spec => []ListIsSound
<1>1. PackInv => ListIsSound
  BY DEF PackInv
<1>. QED BY <1>1, Invariance, PTL

-----------------------------------------------------------------------------
(* What a step may do to the releases, the source tree and the entry of    *)
(* lock.json.                                                              *)
LEMMA ReleasesChange ==
  ASSUME [Next]_vars, ~UNCHANGED <<releases, fate>>
  PROVE  \/ SnapBegin \/ SnapCopy \/ SnapMeta \/ (\E j \in Ids : PruneRelease(j))
         \/ SnapFails \/ Crash \/ BuildLock \/ SnapshotLock \/ RollbackLock
BY DEF Next, vars, SnapshotStep, Prune, Start, Tick, SeedCheck, SeedLock, BuildUI, Compile,
   CompileFails, Snapshot, SetEnabled, Rollback, Begin, Remove, CopySome, CopyRest,
   CopyFails, DropUI, RestoreUI, SaveFails, WriteSource

LEMMA EditsLeave ==
  ASSUME PackInv, [Next]_vars, NEW e \in work.edits, e \notin work'.edits
  PROVE  Remove \/ CopyRest
<1>1. work' # work
  OBVIOUS
<1>2. ASSUME NEW f \in Edits, WriteSource(f) PROVE FALSE
  BY <1>2 DEF WriteSource, PackInv, TypeOK, Trees
<1>3. ASSUME CopySome PROVE FALSE
  BY <1>3 DEF CopySome, PackInv, TypeOK, Trees
<1>. QED BY <1>1, <1>2, <1>3 DEF Next, vars, SnapshotStep, SnapBegin, OpenRelease, SnapCopy,
            SnapMeta, Prune, PruneRelease, SnapFails, Start, Crash, Tick, SeedCheck, SeedLock,
            BuildUI, Compile, CompileFails, BuildLock, Snapshot, SnapshotLock, SetEnabled,
            Rollback, CopyFails, DropUI, RestoreUI, RollbackLock, SaveFails

LEMMA LockChanges ==
  ASSUME [Next]_vars, lock' # lock
  PROVE  \/ SeedCheck \/ SeedLock \/ BuildLock \/ SnapshotLock \/ RollbackLock
         \/ \E b \in BOOLEAN : SetEnabled(b)
BY DEF Next, vars, SnapshotStep, SnapBegin, OpenRelease, SnapCopy, SnapMeta, Prune,
   PruneRelease, SnapFails, Start, Crash, Tick, BuildUI, Compile, CompileFails, Snapshot,
   Rollback, Remove, CopySome, CopyRest, CopyFails, DropUI, RestoreUI, SaveFails, WriteSource

\* What ReleaseImmutable says of one release and one step.
Respects(i) ==
  /\ releases'[i] = releases[i] \/ fate'[i] \in {"pruned", "rewritten"}
  /\ (fate[i] # "rewritten" /\ fate'[i] = "rewritten")
       => i[3] = 1 /\ i[2] = now /\ made >= 2

LEMMA ReleaseSteps ==
  ASSUME PackInv, [Next]_vars, NEW i \in Listed
  PROVE  Respects(i)
<1>1. i \in Ids /\ releases[i].meta /\ releases[i].dir
  BY DEF Listed, PackInv, DirsOK, NoRelease
<1>2. CASE UNCHANGED <<releases, fate>>
  BY <1>2 DEF Respects
<1>3. CASE SnapBegin
  <2> DEFINE id == NextId
  <2>1. /\ id \in Ids /\ id[2] = now
        /\ releases[id].dir => id[3] = 1 /\ made >= 2
    BY <1>3, NextIdShape DEF SnapBegin, OpenRelease
  <2>2. /\ \A j \in Ids \ {id} : releases'[j] = releases[j] /\ fate'[j] = fate[j]
        /\ releases[id].meta => fate'[id] = "rewritten"
    BY <1>3, <2>1 DEF SnapBegin, OpenRelease, PackInv, TypeOK
  <2>. HIDE DEF id
  <2>. QED BY <1>1, <2>1, <2>2 DEF Respects
<1>4. CASE SnapCopy
  <2>1. Newborn /\ UNCHANGED fate
    BY <1>4 DEF SnapCopy, Step, At, PackInv, SnapOK
  <2>2. i # op.id => releases'[i] = releases[i]
    BY <1>1, <1>4 DEF SnapCopy, PackInv, TypeOK
  <2>. QED BY <1>1, <2>1, <2>2 DEF Newborn, Respects
<1>5. CASE SnapMeta
  <2>1. op.id \in Ids
    BY <1>5 DEF SnapMeta, Step, At, PackInv, SnapOK, Newborn
  <2>2. \A j \in Ids : fate'[j] = fate[j] \/ fate'[j] = "kept"
    BY <1>5 DEF SnapMeta, PackInv, TypeOK
  <2>3. releases'[i] = releases[i]
    <3>1. i # op.id => releases'[i] = releases[i]
      BY <1>1, <1>5 DEF SnapMeta, PackInv, TypeOK
    <3>2. releases'[op.id] = [releases[op.id] EXCEPT !.meta = TRUE]
      BY <1>5, <2>1 DEF SnapMeta, PackInv, TypeOK
    <3>3. \A r \in Releases : r.meta => [r EXCEPT !.meta = TRUE] = r
      BY DEF Releases
    <3>. QED BY <1>1, <3>1, <3>2, <3>3 DEF PackInv, TypeOK
  <2>. QED BY <1>1, <2>2, <2>3 DEF Respects
<1>6. CASE \E j \in Ids : PruneRelease(j)
  <2>1. PICK j \in Ids : PruneRelease(j)
    BY <1>6
  <2>2. \A k \in Ids : fate'[k] = IF k = j THEN "pruned" ELSE fate[k]
    BY <2>1 DEF PruneRelease, PackInv, TypeOK
  <2>3. i # j => releases'[i] = releases[i]
    BY <1>1, <2>1 DEF PruneRelease, PackInv, TypeOK
  <2>. QED BY <1>1, <2>2, <2>3 DEF Respects
<1>7. CASE SnapFails \/ Crash
  <2>1. UNCHANGED fate
    BY <1>7 DEF SnapFails, Crash
  <2>2. i # op.id => releases'[i] = releases[i]
    BY <1>1, <1>7 DEF SnapFails, Crash, PackInv, TypeOK
  <2>3. i = op.id => Newborn \/ releases'[i] = releases[i]
    BY <1>1, <1>7, IdShape DEF SnapFails, Crash, At, PackInv, SnapOK, OpOK
  <2>. QED BY <1>1, <2>1, <2>2, <2>3 DEF Newborn, Respects
<1>8. CASE BuildLock \/ SnapshotLock \/ RollbackLock
  <2>1. UNCHANGED releases
    BY <1>8 DEF BuildLock, SnapshotLock, RollbackLock
  <2>2. \A j \in Ids : fate'[j] = fate[j] \/ fate'[j] = "activated"
    BY <1>8 DEF BuildLock, SnapshotLock, RollbackLock, Activates, PackInv, TypeOK
  <2>. QED BY <1>1, <2>1, <2>2 DEF Respects
<1>. QED BY <1>2, <1>3, <1>4, <1>5, <1>6, <1>7, <1>8, ReleasesChange

(* A listed release changes only by being removed, and by a third snapshot *)
(* of the second that is not over, in which it is the second (types.go     *)
(* ReleaseInfo, release.go snapshotUnlocked).                              *)
THEOREM ReleasesAreImmutable == Spec => ReleaseImmutable
<1>1. PackInv /\ [Next]_vars
        => [\A i \in Listed :
              /\ releases'[i] = releases[i] \/ fate'[i] \in {"pruned", "rewritten"}
              /\ (fate[i] # "rewritten" /\ fate'[i] = "rewritten")
                   => i[3] = 1 /\ i[2] = now /\ made >= 2]_vars
  BY ReleaseSteps DEF Respects
<1>. QED BY <1>1, Invariance, PTL DEF Spec, ReleaseImmutable

LEMMA EditSteps ==
  ASSUME PackInv, [Next]_vars, NEW e \in (work.edits \ work'.edits) \ Skipped
  PROVE  \/ e \in late \/ op.failed
         \/ \E i \in Listed : e \in releases[i].src.edits
<1>1. op.pc \in {"remove", "copying"}
  BY EditsLeave DEF Remove, CopyRest, Step, At
<1>. QED BY <1>1 DEF PackInv, EditsOK, HasEdits

(* The user's edits leave the source tree only into a listed release,      *)
(* except those in node_modules, .git or dist, those made while the        *)
(* operation ran or found in a tree without a pack.yml, and all when the   *)
(* snapshot failed (Rollback and EnsureSeeded snapshot before they remove).*)
THEOREM EditsAreSaved == Spec => EditsSavedUnlessFailed
<1>1. PackInv /\ [Next]_vars
        => [\A e \in (work.edits \ work'.edits) \ Skipped :
              \/ e \in late \/ op.failed
              \/ \E i \in Listed : e \in releases[i].src.edits]_vars
  BY EditSteps
<1>. QED BY <1>1, Invariance, PTL DEF Spec, EditsSavedUnlessFailed

LEMMA LockSteps ==
  ASSUME PackInv, [Next]_vars, lock.entry
  PROVE  lock'.entry /\ (lock'.enabled = lock.enabled \/ \E b \in BOOLEAN : SetEnabled(b))
<1>1. CASE \E b \in BOOLEAN : SetEnabled(b)
  BY <1>1 DEF SetEnabled, PackInv, TypeOK
<1>2. CASE SeedCheck \/ SeedLock
  BY <1>2 DEF SeedCheck, SeedLock, Saves, Enabled, PackInv, TypeOK
<1>3. CASE BuildLock \/ SnapshotLock \/ RollbackLock
  BY <1>3 DEF BuildLock, SnapshotLock, RollbackLock, Saves, Enabled, PackInv, TypeOK
<1>. QED BY <1>1, <1>2, <1>3, LockChanges

(* Once a pack has an entry in lock.json, only SetEnabled switches it on   *)
(* or off (EnsureSeeded, BuildUI, Snapshot, Rollback).                     *)
THEOREM ChoicesAreKept == Spec => ChoiceIsKept
<1>1. PackInv /\ [Next]_vars
        => [lock.entry => /\ lock'.entry
                          /\ lock'.enabled = lock.enabled
                               \/ \E b \in BOOLEAN : SetEnabled(b)]_vars
  BY LockSteps
<1>. QED BY <1>1, Invariance, PTL DEF Spec, ChoiceIsKept
=============================================================================
