---------------------------- MODULE StagingProofs ----------------------------
(***************************************************************************)
(* Proofs about Staging, for any workers, packages, files, mix of requests *)
(* and number of crashes.                                                  *)
(***************************************************************************)
EXTENDS Staging, TLAPS

(* The package that was the collection directory is gone with it. *)
LEMMA VanishTyped ==
  ASSUME loc \in [Pkg -> Place]
  PROVE  [p \in Pkg |-> IF loc[p] = "spilled" THEN "gone" ELSE loc[p]] \in [Pkg -> Place]
  BY DEF Place

(* Every variable keeps its type under every step. *)
LEMMA TypeStep == ASSUME StagingAssumption, TypeOK, [Next]_vars PROVE TypeOK'
<1> USE StagingAssumption DEF StagingAssumption, TypeOK, Goto, Say, Exit, Reply, Forget,
      request, disk, walkers, Place, Label, LockLabel, InSection, RbSection, RbTail,
      UploadLabel, RemoveLabel, Request, Tally, Answer, Entry, Section
<1>1. CASE UNCHANGED vars
  BY <1>1 DEF vars
<1>2. ASSUME NEW w \in Worker, NEW o \in {"in", "rb", "ar"}, NEW p \in Pkg, Begin(w, o, p)
      PROVE  TypeOK'
  BY <1>2 DEF Begin
<1>3. ASSUME NEW w \in Worker, LockMakedirs(w) PROVE TypeOK'
  BY <1>3 DEF LockMakedirs
<1>4. ASSUME NEW w \in Worker, LockTest(w) PROVE TypeOK'
  BY <1>4 DEF LockTest
<1>5. ASSUME NEW w \in Worker, LockOpen(w) PROVE TypeOK'
  BY <1>5 DEF LockOpen, Enter
<1>6. ASSUME NEW w \in Worker, InCheck(w) PROVE TypeOK'
  BY <1>6 DEF InCheck
<1>7. ASSUME NEW w \in Worker, InMkdir(w) PROVE TypeOK'
  BY <1>7 DEF InMkdir
<1>8. ASSUME NEW w \in Worker, InMove(w) PROVE TypeOK'
  BY <1>8 DEF InMove
<1>9. ASSUME NEW w \in Worker, InUnlock(w) PROVE TypeOK'
  BY <1>9 DEF InUnlock, Unlock, RemoveLock
<1>10. ASSUME NEW w \in Worker, RbCheck(w) PROVE TypeOK'
  BY <1>10 DEF RbCheck
<1>11. ASSUME NEW w \in Worker, RbClean(w) PROVE TypeOK'
  BY <1>11 DEF RbClean
<1>12. ASSUME NEW w \in Worker, RbBatch(w) PROVE TypeOK'
  BY <1>12 DEF RbBatch
<1>13. ASSUME NEW w \in Worker, RbMkBatch(w) PROVE TypeOK'
  BY <1>13 DEF RbMkBatch
<1>14. ASSUME NEW w \in Worker, RbMove(w) PROVE TypeOK'
  BY <1>14 DEF RbMove
<1>15. ASSUME NEW w \in Worker, RbUnlock(w) PROVE TypeOK'
  BY <1>15 DEF RbUnlock, Unlock, RemoveLock
<1>16. ASSUME NEW w \in Worker, RbList(w) PROVE TypeOK'
  BY <1>16 DEF RbList
<1>17. ASSUME NEW w \in Worker, RbRmdir(w) PROVE TypeOK'
  <2>1. loc' \in [Pkg -> Place] /\ dir' \in BOOLEAN
    <3>1. dir' \in BOOLEAN  BY <1>17 DEF RbRmdir
    <3>2. CASE loc' = [p \in Pkg |-> IF loc[p] = "spilled" THEN "gone" ELSE loc[p]]
      BY <3>1, <3>2, VanishTyped
    <3>3. loc' = [p \in Pkg |-> IF loc[p] = "spilled" THEN "gone" ELSE loc[p]]
          \/ loc' = loc
      <4> HIDE DEF TypeOK
      <4> QED BY <1>17, Zenon DEF RbRmdir
    <3> QED BY <3>1, <3>2, <3>3
  <2> QED BY <1>17, <2>1 DEF RbRmdir
<1>18. ASSUME NEW w \in Worker, RbFinal(w) PROVE TypeOK'
  BY <1>18 DEF RbFinal, Unlock, RemoveLock
<1>19. ASSUME NEW w \in Worker, ArIsdir(w) PROVE TypeOK'
  BY <1>19 DEF ArIsdir
<1>20. ASSUME NEW w \in Worker, ArWalk(w) PROVE TypeOK'
  BY <1>20 DEF ArWalk
<1>21. ASSUME NEW w \in Worker, NEW p \in Pkg, ArVisit(w, p) PROVE TypeOK'
  BY <1>21 DEF ArVisit
<1>22. ASSUME NEW w \in Worker, NEW x \in Pkg \X File, ArUpload(w, x) PROVE TypeOK'
  BY <1>22 DEF ArUpload, Inside
<1>23. ASSUME NEW w \in Worker, ArDecide(w) \/ ArRaise(w) PROVE TypeOK'
  BY <1>23 DEF ArDecide, ArRaise
<1>24. ASSUME NEW w \in Worker, ArScan(w) PROVE TypeOK'
  BY <1>24 DEF ArScan, Listing
<1>25. ASSUME NEW w \in Worker, NEW p \in Pkg, ArRmOpen(w, p) PROVE TypeOK'
  BY <1>25 DEF ArRmOpen, ArRmFails, Inside
<1>26. ASSUME NEW w \in Worker, NEW x \in Pkg \X File, ArRmFile(w, x) PROVE TypeOK'
  BY <1>26 DEF ArRmFile, ArRmFails
<1>27. ASSUME NEW w \in Worker, ArRmPkg(w) PROVE TypeOK'
  BY <1>27 DEF ArRmPkg, ArRmFails, Inside
<1>28. ASSUME NEW w \in Worker, ArRmLock(w) PROVE TypeOK'
  <2>1. /\ stolen' \subseteq Worker
        /\ lock' \in Worker \cup {NoOne} /\ stale' \in BOOLEAN
    BY <1>28 DEF ArRmLock, RemoveLock
  <2>2. walk'[w] \subseteq walk[w] /\ walk' \in [Worker -> SUBSET Entry]
    BY <1>28 DEF ArRmLock, ArRmFails
  <2> QED BY <1>28, <2>1, <2>2 DEF ArRmLock, ArRmFails
<1>29. ASSUME NEW w \in Worker, ArRmDir(w) PROVE TypeOK'
  <2>1. loc' \in [Pkg -> Place] /\ dir' \in BOOLEAN
    <3>1. dir' \in BOOLEAN  BY <1>29 DEF ArRmDir
    <3>2. CASE loc' = [p \in Pkg |-> IF loc[p] = "spilled" THEN "gone" ELSE loc[p]]
      BY <3>1, <3>2, VanishTyped
    <3>3. loc' = [p \in Pkg |-> IF loc[p] = "spilled" THEN "gone" ELSE loc[p]]
          \/ loc' = loc
      <4> HIDE DEF TypeOK
      <4> QED BY <1>29, Zenon DEF ArRmDir
    <3> QED BY <3>1, <3>2, <3>3
  <2>2. UNCHANGED <<cont, batch, wasabi, lock, walkers, crashes, stolen, stale>>
    BY <1>29 DEF ArRmDir
  <2>3. \E a \in {"moved", "failed"} : Reply(w, a)  BY <1>29 DEF ArRmDir
  <2> QED BY <2>1, <2>2, <2>3
<1>30. ASSUME NEW w \in Worker, Crash(w) PROVE TypeOK'
  <2>1. crashes' \in 0..MaxCrashes  BY <1>30 DEF Crash
  <2>2. stolen' \subseteq Worker /\ stale' \in BOOLEAN  BY <1>30 DEF Crash
  <2> QED BY <1>30, <2>1, <2>2 DEF Crash
<1> HIDE DEF TypeOK, Goto, Say, Exit, Reply, Forget, request, disk, walkers, Place, Label,
      LockLabel, InSection, RbSection, RbTail, UploadLabel, RemoveLabel, Request, Tally,
      Answer, Entry, Section
<1> QED BY <1>1, <1>2, <1>3, <1>4, <1>5, <1>6, <1>7, <1>8, <1>9, <1>10,
      <1>11, <1>12, <1>13, <1>14, <1>15, <1>16, <1>17, <1>18, <1>19, <1>20,
      <1>21, <1>22, <1>23, <1>24, <1>25, <1>26, <1>27, <1>28, <1>29, <1>30
  DEF Next, Step, LockUuid, MoveToIngest, MoveFromIngestToReady, UploadDirectory, Rmtree

(* TypeOK holds in every reachable state of Staging. *)
THEOREM TypeCorrect == ASSUME StagingAssumption PROVE Spec => []TypeOK
<1>1. Init => TypeOK
  <2> SUFFICES ASSUME Init PROVE TypeOK
    OBVIOUS
  <2>1. crashes \in 0..MaxCrashes /\ lock \in Worker \cup {NoOne}
    BY StagingAssumption DEF StagingAssumption, Init
  <2>2. loc \in [Pkg -> Place] /\ wasabi \subseteq Pkg \X File /\ stale \in BOOLEAN
    BY DEF Init, Place
  <2> QED BY <2>1, <2>2 DEF Init, TypeOK, Label, Request, Tally, Answer, Entry
<1>2. TypeOK /\ [Next]_vars => TypeOK'
  BY StagingAssumption, TypeStep
<1> QED BY <1>1, <1>2, PTL DEF Spec

-----------------------------------------------------------------------------
(* Releasing: the owner of the .lock file that is removed is remembered as *)
(* robbed, unless it is the releasing worker itself; a removal that fails  *)
(* robs nobody.                                                            *)
LEMMA UnlockKeepsOwners ==
  ASSUME StagingAssumption, TypeOK, LockIsOwned, NEW w \in Worker, Unlock(w),
         w \notin Section', Section' \subseteq Section
  PROVE  LockIsOwned'
<1>1. CASE RemoveLock(w)
  BY <1>1 DEF StagingAssumption, TypeOK, LockIsOwned, RemoveLock
<1>2. CASE lock' = lock /\ stolen' = stolen \ {w}
  BY <1>2 DEF LockIsOwned
<1> QED BY <1>1, <1>2 DEF Unlock

(* A step that touches neither .lock nor the history of removals, and that *)
(* takes no worker into its section, keeps every owner an owner.           *)
LEMMA OthersKeepOwners ==
  ASSUME LockIsOwned, UNCHANGED <<lock, stolen>>, Section' \subseteq Section
  PROVE  LockIsOwned'
  BY DEF LockIsOwned

(* Every step keeps the .lock file with the workers in their sections.     *)
LEMMA OwnedStep == ASSUME StagingAssumption, TypeOK, LockIsOwned, [Next]_vars PROVE LockIsOwned'
<1> USE StagingAssumption DEF Goto, Exit, Reply, Forget, InSection, RbSection
<1>1. CASE UNCHANGED vars
  BY <1>1 DEF vars, LockIsOwned, Section
<1>2. ASSUME NEW w \in Worker, NEW o \in {"in", "rb", "ar"}, NEW p \in Pkg, Begin(w, o, p)
      PROVE  LockIsOwned'
  BY <1>2, OthersKeepOwners DEF Begin, Section, TypeOK
<1>3. ASSUME NEW w \in Worker, LockUuid(w) PROVE LockIsOwned'
  <2>1. CASE LockMakedirs(w)
    BY <2>1, OthersKeepOwners DEF LockMakedirs, Section, TypeOK
  <2>2. CASE LockTest(w)
    BY <2>2, OthersKeepOwners DEF LockTest, Section, TypeOK
  <2>3. CASE LockOpen(w)
    <3>1. CASE lock = NoOne /\ lock' = w /\ stolen' = stolen \ {w}
      BY <2>3, <3>1 DEF LockOpen, Enter, LockIsOwned, Section, TypeOK, StagingAssumption
    <3>2. CASE Section' \subseteq Section /\ UNCHANGED <<lock, stolen>>
      BY <3>2, OthersKeepOwners
    <3>3. CASE Section' \subseteq Section /\ lock = NoOne /\ UNCHANGED stolen
      BY <3>3 DEF LockIsOwned, Section, TypeOK, StagingAssumption
    <3> QED BY <2>3, <3>1, <3>2, <3>3 DEF LockOpen, Enter, Section, TypeOK
  <2> QED BY <1>3, <2>1, <2>2, <2>3 DEF LockUuid
<1>4. ASSUME NEW w \in Worker, MoveToIngest(w) PROVE LockIsOwned'
  <2>1. CASE InUnlock(w)
    BY <2>1, UnlockKeepsOwners DEF InUnlock, Section, TypeOK
  <2>2. CASE InCheck(w) \/ InMkdir(w) \/ InMove(w)
    BY <2>2, OthersKeepOwners DEF InCheck, InMkdir, InMove, Section, TypeOK
  <2> QED BY <1>4, <2>1, <2>2 DEF MoveToIngest
<1>5. ASSUME NEW w \in Worker, MoveFromIngestToReady(w) PROVE LockIsOwned'
  <2>1. CASE RbUnlock(w)
    BY <2>1, UnlockKeepsOwners DEF RbUnlock, Section, TypeOK
  <2>2. CASE RbFinal(w)
    BY <2>2, UnlockKeepsOwners DEF RbFinal, Section, TypeOK
  <2>3. CASE RbCheck(w) \/ RbClean(w) \/ RbBatch(w) \/ RbMkBatch(w) \/ RbMove(w)
    BY <2>3, OthersKeepOwners
    DEF RbCheck, RbClean, RbBatch, RbMkBatch, RbMove, Section, TypeOK
  <2>4. CASE RbList(w) \/ RbRmdir(w)
    BY <2>4, OthersKeepOwners DEF RbList, RbRmdir, Section, TypeOK
  <2> QED BY <1>5, <2>1, <2>2, <2>3, <2>4 DEF MoveFromIngestToReady
<1>6. ASSUME NEW w \in Worker, ArIsdir(w) PROVE LockIsOwned'
  BY <1>6, OthersKeepOwners DEF ArIsdir, Section, TypeOK
<1>7. ASSUME NEW w \in Worker, UploadDirectory(w) PROVE LockIsOwned'
  BY <1>7, OthersKeepOwners
  DEF UploadDirectory, ArWalk, ArVisit, ArUpload, ArDecide, ArRaise, Section, TypeOK
<1>8. ASSUME NEW w \in Worker, Rmtree(w) PROVE LockIsOwned'
  <2>1. CASE ArRmLock(w)
    <3>1. w \notin Section' /\ Section' \subseteq Section
      BY <2>1 DEF ArRmLock, ArRmFails, Section, TypeOK
    <3> QED BY <2>1, <3>1, UnlockKeepsOwners, OthersKeepOwners DEF ArRmLock, Unlock
  <2>2. CASE ArScan(w) \/ (\E p \in Pkg : ArRmOpen(w, p)) \/ ArRmPkg(w)
    BY <2>2, OthersKeepOwners DEF ArScan, ArRmOpen, ArRmPkg, ArRmFails, Section, TypeOK
  <2>3. CASE (\E x \in Pkg \X File : ArRmFile(w, x)) \/ ArRmDir(w)
    BY <2>3, OthersKeepOwners DEF ArRmFile, ArRmFails, ArRmDir, Section, TypeOK
  <2> QED BY <1>8, <2>1, <2>2, <2>3 DEF Rmtree
<1>9. ASSUME NEW w \in Worker, Crash(w) PROVE LockIsOwned'
  BY <1>9 DEF Crash, LockIsOwned, Section, TypeOK
<1> QED BY <1>1, <1>2, <1>3, <1>4, <1>5, <1>6, <1>7, <1>8, <1>9 DEF Next, Step

(* The .lock file belongs to every worker in its section that nobody       *)
(* robbed: O_CREAT|O_EXCL makes acquisition atomic across processes.       *)
THEOREM LockOwned == ASSUME StagingAssumption PROVE Spec => []LockIsOwned
<1>1. Init => LockIsOwned
  BY DEF Init, LockIsOwned, Section, InSection, RbSection
<1>2. TypeOK /\ LockIsOwned /\ [Next]_vars => LockIsOwned'
  BY StagingAssumption, OwnedStep
<1> QED BY <1>1, <1>2, TypeCorrect, StagingAssumption, PTL DEF Spec

(* So exclusion can be lost only by a release of another worker's lock.    *)
THEOREM ExclusiveUnlessStolen ==
  ASSUME StagingAssumption PROVE Spec => []ExclusionUnlessStolen
<1>1. LockIsOwned => ExclusionUnlessStolen
  BY DEF LockIsOwned, ExclusionUnlessStolen, Section
<1> QED BY <1>1, LockOwned, StagingAssumption, PTL

-----------------------------------------------------------------------------
(* A directory is removed only when empty, and entries arrive only in a    *)
(* directory that is there.                                                *)
LEMMA EntriesStep == ASSUME StagingAssumption, TypeOK, DirHoldsEntries, [Next]_vars
                     PROVE  DirHoldsEntries'
<1> DEFINE Held == /\ \A p \in Pkg : loc[p] = "ingest" => dir
                   /\ \A p \in Pkg : loc[p] = "spilled" /\ cont[p] # {} => dir
                   /\ lock # NoOne => dir
<1>a. Held
  BY DEF DirHoldsEntries, Listing
<1>b. SUFFICES Held'
  <2>1. Held' => DirHoldsEntries'
    BY DEF DirHoldsEntries, Listing
  <2> QED BY <2>1
<1> USE DEF Goto, Exit, Reply, Forget, disk, Unlock, RemoveLock, TypeOK, Place, ArRmFails
<1>1. CASE UNCHANGED vars
  BY <1>1, <1>a DEF vars
<1>2. ASSUME NEW w \in Worker, NEW o \in {"in", "rb", "ar"}, NEW p \in Pkg, Begin(w, o, p)
      PROVE  Held'
  BY <1>2, <1>a DEF Begin
<1>3. ASSUME NEW w \in Worker, LockUuid(w) PROVE Held'
  BY <1>3, <1>a DEF LockUuid, LockMakedirs, LockTest, LockOpen, Enter
<1>4. ASSUME NEW w \in Worker, MoveToIngest(w) PROVE Held'
  <2>1. CASE InMove(w)
    BY <2>1, <1>a DEF InMove
  <2>2. CASE InCheck(w) \/ InMkdir(w) \/ InUnlock(w)
    BY <2>2, <1>a DEF InCheck, InMkdir, InUnlock
  <2> QED BY <1>4, <2>1, <2>2 DEF MoveToIngest
<1>5. ASSUME NEW w \in Worker, MoveFromIngestToReady(w) PROVE Held'
  <2>1. CASE RbMove(w)
    BY <2>1, <1>a DEF RbMove
  <2>2. CASE RbRmdir(w)
    <3>1. CASE UNCHANGED <<dir, loc>>
      BY <2>2, <3>1, <1>a DEF RbRmdir
    <3>2. CASE Listing = {} /\ ~UNCHANGED <<dir, loc>>
      <4>1. lock = NoOne /\ \A p \in Pkg : loc[p] # "ingest"
        BY <3>2 DEF Listing
      <4>2. \A p \in Pkg : loc'[p] # "ingest" /\ loc'[p] # "spilled"
        BY <2>2, <3>2, <4>1 DEF RbRmdir
      <4> QED BY <2>2, <4>1, <4>2 DEF RbRmdir
    <3> QED BY <2>2, <3>1, <3>2 DEF RbRmdir
  <2>3. CASE RbCheck(w) \/ RbClean(w) \/ RbBatch(w) \/ RbMkBatch(w)
    BY <2>3, <1>a DEF RbCheck, RbClean, RbBatch, RbMkBatch
  <2>4. CASE RbUnlock(w) \/ RbList(w) \/ RbFinal(w)
    BY <2>4, <1>a DEF RbUnlock, RbList, RbFinal
  <2> QED BY <1>5, <2>1, <2>2, <2>3, <2>4 DEF MoveFromIngestToReady
<1>6. ASSUME NEW w \in Worker, ArIsdir(w) PROVE Held'
  BY <1>6, <1>a DEF ArIsdir
<1>7. ASSUME NEW w \in Worker, UploadDirectory(w) PROVE Held'
  BY <1>7, <1>a DEF UploadDirectory, ArWalk, ArVisit, ArUpload, ArDecide, ArRaise
<1>8. ASSUME NEW w \in Worker, Rmtree(w) PROVE Held'
  <2>1. CASE ArRmDir(w)
    <3>1. CASE UNCHANGED <<dir, loc>>
      BY <2>1, <3>1, <1>a DEF ArRmDir
    <3>2. CASE Listing = {} /\ ~UNCHANGED <<dir, loc>>
      <4>1. lock = NoOne /\ \A p \in Pkg : loc[p] # "ingest"
        BY <3>2 DEF Listing
      <4>2. \A p \in Pkg : loc'[p] # "ingest" /\ loc'[p] # "spilled"
        BY <2>1, <3>2, <4>1 DEF ArRmDir
      <4> QED BY <2>1, <3>2, <4>1, <4>2 DEF ArRmDir
    <3> QED BY <2>1, <3>1, <3>2 DEF ArRmDir
  <2>2. CASE ArScan(w) \/ (\E p \in Pkg : ArRmOpen(w, p)) \/ ArRmLock(w)
    BY <2>2, <1>a DEF ArScan, ArRmOpen, ArRmLock
  <2>3. CASE \E x \in Pkg \X File : ArRmFile(w, x)
    BY <2>3, <1>a DEF ArRmFile
  <2>4. CASE ArRmPkg(w)
    BY <2>4, <1>a DEF ArRmPkg
  <2> QED BY <1>8, <2>1, <2>2, <2>3, <2>4 DEF Rmtree
<1>9. ASSUME NEW w \in Worker, Crash(w) PROVE Held'
  BY <1>9, <1>a DEF Crash
<1> HIDE DEF Held, Goto, Exit, Reply, Forget, disk, Unlock, RemoveLock, TypeOK, Place,
       ArRmFails
<1> QED BY <1>1, <1>2, <1>3, <1>4, <1>5, <1>6, <1>7, <1>8, <1>9 DEF Next, Step

(* No prune and no rmtree ever leaves an entry behind in a directory that  *)
(* is gone.                                                                *)
THEOREM EntriesHeld == ASSUME StagingAssumption PROVE Spec => []DirHoldsEntries
<1>1. Init => DirHoldsEntries
  BY DEF Init, DirHoldsEntries, Listing
<1>2. TypeOK /\ DirHoldsEntries /\ [Next]_vars => DirHoldsEntries'
  BY StagingAssumption, EntriesStep
<1> QED BY <1>1, <1>2, TypeCorrect, StagingAssumption, PTL DEF Spec

-----------------------------------------------------------------------------
(* A step that leaves .lock and the history of what stayed alone, and      *)
(* takes no worker out of its section.                                     *)
LEMMA SectionStays ==
  ASSUME ReleasedUnlessStale, UNCHANGED <<lock, stale>>, Section \subseteq Section'
  PROVE  ReleasedUnlessStale'
  BY DEF ReleasedUnlessStale

(* A release removes the .lock file, leaves its own behind, or leaves that *)
(* of a worker that is still in its section.                               *)
LEMMA UnlockReleases ==
  ASSUME ReleasedUnlessStale, NEW w \in Worker, Unlock(w), Section \ {w} \subseteq Section'
  PROVE  ReleasedUnlessStale'
  BY DEF Unlock, RemoveLock, ReleasedUnlessStale

(* Every way out of a locked section, the early returns included, goes     *)
(* through a release.                                                      *)
LEMMA ReleasedStep ==
  ASSUME StagingAssumption, TypeOK, ReleasedUnlessStale, [Next]_vars
  PROVE  ReleasedUnlessStale'
<1> USE DEF Goto, Exit, Reply, Forget, InSection, RbSection
<1>1. CASE UNCHANGED vars
  BY <1>1, SectionStays DEF vars, Section
<1>2. ASSUME NEW w \in Worker, NEW o \in {"in", "rb", "ar"}, NEW p \in Pkg, Begin(w, o, p)
      PROVE  ReleasedUnlessStale'
  BY <1>2, SectionStays DEF Begin, Section, TypeOK
<1>3. ASSUME NEW w \in Worker, LockUuid(w) PROVE ReleasedUnlessStale'
  <2>1. CASE LockMakedirs(w) \/ LockTest(w)
    BY <2>1, SectionStays DEF LockMakedirs, LockTest, Section, TypeOK
  <2>2. CASE LockOpen(w)
    <3>1. CASE stale' \/ (pc'[w] \in InSection \cup RbSection /\ lock' = w)
      BY <3>1 DEF ReleasedUnlessStale, Section
    <3>2. CASE Section \subseteq Section' /\ UNCHANGED <<lock, stale>>
      BY <3>2, SectionStays
    <3> QED BY <2>2, <3>1, <3>2 DEF LockOpen, Enter, Section, TypeOK
  <2> QED BY <1>3, <2>1, <2>2 DEF LockUuid
<1>4. ASSUME NEW w \in Worker, MoveToIngest(w) PROVE ReleasedUnlessStale'
  <2>1. CASE InUnlock(w)
    BY <2>1, UnlockReleases DEF InUnlock, Section, TypeOK
  <2>2. CASE InCheck(w) \/ InMkdir(w) \/ InMove(w)
    BY <2>2, SectionStays DEF InCheck, InMkdir, InMove, Section, TypeOK
  <2> QED BY <1>4, <2>1, <2>2 DEF MoveToIngest
<1>5. ASSUME NEW w \in Worker, MoveFromIngestToReady(w) PROVE ReleasedUnlessStale'
  <2>1. CASE RbUnlock(w) \/ RbFinal(w)
    BY <2>1, UnlockReleases DEF RbUnlock, RbFinal, Section, TypeOK
  <2>2. CASE RbCheck(w) \/ RbClean(w) \/ RbBatch(w) \/ RbMkBatch(w) \/ RbMove(w)
    BY <2>2, SectionStays
    DEF RbCheck, RbClean, RbBatch, RbMkBatch, RbMove, Section, TypeOK
  <2>3. CASE RbList(w) \/ RbRmdir(w)
    BY <2>3, SectionStays DEF RbList, RbRmdir, Section, TypeOK
  <2> QED BY <1>5, <2>1, <2>2, <2>3 DEF MoveFromIngestToReady
<1>6. ASSUME NEW w \in Worker, ArIsdir(w) PROVE ReleasedUnlessStale'
  BY <1>6, SectionStays DEF ArIsdir, Section, TypeOK
<1>7. ASSUME NEW w \in Worker, UploadDirectory(w) PROVE ReleasedUnlessStale'
  BY <1>7, SectionStays
  DEF UploadDirectory, ArWalk, ArVisit, ArUpload, ArDecide, ArRaise, Section, TypeOK
<1>8. ASSUME NEW w \in Worker, Rmtree(w) PROVE ReleasedUnlessStale'
  <2>1. CASE ArRmLock(w)
    BY <2>1, SectionStays
    DEF ArRmLock, ArRmFails, RemoveLock, ReleasedUnlessStale, Section, TypeOK
  <2>2. CASE ArScan(w) \/ (\E p \in Pkg : ArRmOpen(w, p)) \/ ArRmPkg(w)
    BY <2>2, SectionStays DEF ArScan, ArRmOpen, ArRmPkg, ArRmFails, Section, TypeOK
  <2>3. CASE (\E x \in Pkg \X File : ArRmFile(w, x)) \/ ArRmDir(w)
    BY <2>3, SectionStays DEF ArRmFile, ArRmFails, ArRmDir, Section, TypeOK
  <2> QED BY <1>8, <2>1, <2>2, <2>3 DEF Rmtree
<1>9. ASSUME NEW w \in Worker, Crash(w) PROVE ReleasedUnlessStale'
  <2>1. lock' = lock /\ stale' = (stale \/ lock = w) /\ Section \ {w} \subseteq Section'
    BY <1>9 DEF Crash, Section, TypeOK
  <2> QED BY <2>1 DEF ReleasedUnlessStale
<1> QED BY <1>1, <1>2, <1>3, <1>4, <1>5, <1>6, <1>7, <1>8, <1>9 DEF Next, Step

(* A .lock file that no worker in its section is going to remove comes     *)
(* from a killed worker, a failed removal or a failed write: no return out *)
(* of the moves, early or not, leaves one.                                 *)
THEOREM LockReleased == ASSUME StagingAssumption PROVE Spec => []ReleasedUnlessStale
<1>1. Init => ReleasedUnlessStale
  BY DEF Init, ReleasedUnlessStale
<1>2. TypeOK /\ ReleasedUnlessStale /\ [Next]_vars => ReleasedUnlessStale'
  BY StagingAssumption, ReleasedStep
<1> QED BY <1>1, <1>2, TypeCorrect, StagingAssumption, PTL DEF Spec
=============================================================================
