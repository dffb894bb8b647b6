---------------------------- MODULE CustodyProofs ----------------------------
(***************************************************************************)
(* The custody of the packages: when clients keep the archive of a         *)
(* collection and the arrival of packages in it apart, no file leaves the  *)
(* local disk before its copy in Wasabi was verified, whatever crashes,    *)
(* rollbacks and other archives do meanwhile.                              *)
(***************************************************************************)
EXTENDS StagingProofs

(* The request agrees with the program point, and requests that must be    *)
(* kept apart are.                                                         *)
LEMMA InFlightStep ==
  ASSUME StagingAssumption, ~Overlap, TypeOK, InFlight, [Next]_vars PROVE InFlight'
<1> USE DEF Goto, Exit, Reply, Forget, request, LockLabel, InSection, RbSection, RbTail,
      UploadLabel, RemoveLabel, ArRmFails
<1>1. CASE UNCHANGED vars
  BY <1>1 DEF vars, InFlight
<1>2. ASSUME NEW w \in Worker, NEW o \in {"in", "rb", "ar"}, NEW p \in Pkg, Begin(w, o, p)
      PROVE  InFlight'
  <2>1. \A v \in Worker : op'[v] = IF v = w THEN o ELSE op[v]
    BY <1>2 DEF Begin, TypeOK
  <2>2. \A v \in Worker : {o, op[v]} # {"in", "ar"}
    BY <1>2 DEF Begin
  <2>3. \A u, v \in Worker : {op'[u], op'[v]} # {"in", "ar"}
    <3> TAKE u, v \in Worker
    <3>1. CASE u = w /\ v = w
      BY <2>1, <3>1
    <3>2. CASE u = w /\ v # w
      BY <2>1, <2>2, <3>2
    <3>3. CASE u # w /\ v = w
      <4>1. {op'[u], op'[v]} = {o, op[u]}
        BY <2>1, <3>3
      <4> QED BY <4>1, <2>2
    <3>4. CASE u # w /\ v # w
      BY <2>1, <3>4 DEF InFlight
    <3> QED BY <3>1, <3>2, <3>3, <3>4
  <2> QED BY <1>2, <2>1, <2>3 DEF Begin, TypeOK, InFlight
(* A step keeps the request or ends it, and it stays within its program.   *)
<1>3. ASSUME NEW w \in Worker, Step(w) \/ Crash(w)
      PROVE  /\ \A v \in Worker \ {w} : pc'[v] = pc[v] /\ op'[v] = op[v]
             /\ \/ op'[w] = op[w] /\ pc'[w] # "idle"
                   /\ \/ pc'[w] \in LockLabel /\ pc[w] \in LockLabel
                      \/ pc'[w] \in InSection /\ (pc[w] \in InSection \/ op[w] = "in")
                      \/ /\ pc'[w] \in RbSection \cup RbTail
                         /\ \/ pc[w] \in RbSection \cup RbTail
                            \/ pc[w] = "lockopen" /\ op[w] # "in"
                      \/ /\ pc'[w] \in UploadLabel \cup RemoveLabel
                         /\ pc[w] \in UploadLabel \cup RemoveLabel
                \/ op'[w] = "none" /\ pc'[w] = "idle"
  <2>1. CASE LockUuid(w)
    BY <2>1 DEF LockUuid, LockMakedirs, LockTest, LockOpen, Enter, TypeOK
  <2>2. CASE MoveToIngest(w)
    BY <2>2 DEF MoveToIngest, InCheck, InMkdir, InMove, InUnlock, TypeOK
  <2>3. CASE MoveFromIngestToReady(w)
    <3>1. CASE RbFinal(w)
      BY <3>1 DEF RbFinal, TypeOK
    <3>2. ASSUME ~RbFinal(w)
          PROVE  /\ \A v \in Worker \ {w} : pc'[v] = pc[v]
                 /\ UNCHANGED op
                 /\ pc'[w] # "idle"
                 /\ pc[w] \in RbSection \cup RbTail
                 /\ pc'[w] \in RbSection \cup RbTail
      <4>1. CASE RbCheck(w) \/ RbClean(w) \/ RbBatch(w) \/ RbMkBatch(w)
        BY <4>1 DEF RbCheck, RbClean, RbBatch, RbMkBatch, TypeOK
      <4>2. CASE RbMove(w) \/ RbUnlock(w) \/ RbList(w)
        BY <4>2 DEF RbMove, RbUnlock, RbList, TypeOK
      <4>3. CASE RbRmdir(w)
        BY <4>3 DEF RbRmdir, TypeOK
      <4> QED BY <2>3, <3>2, <4>1, <4>2, <4>3 DEF MoveFromIngestToReady
    <3>3. CASE ~RbFinal(w)
      <4> HIDE DEF RbSection, RbTail, LockLabel, InSection, UploadLabel, RemoveLabel
      <4> QED BY <3>2, <3>3
    <3> QED BY <3>1, <3>3
  <2>4. CASE ArIsdir(w) \/ UploadDirectory(w)
    BY <2>4 DEF ArIsdir, UploadDirectory, ArWalk, ArVisit, ArUpload, ArDecide, ArRaise, TypeOK
  <2>5. CASE Rmtree(w)
    BY <2>5 DEF Rmtree, ArScan, ArRmOpen, ArRmFile, ArRmPkg, ArRmLock, ArRmDir, TypeOK
  <2>6. CASE Crash(w)
    BY <2>6 DEF Crash, TypeOK
  <2> QED BY <1>3, <2>1, <2>2, <2>3, <2>4, <2>5, <2>6 DEF Step
<1>4. ASSUME NEW w \in Worker, Step(w) \/ Crash(w) PROVE InFlight'
  <2>1. op'[w] \in {op[w], "none"} /\ \A v \in Worker \ {w} : op'[v] = op[v]
    BY <1>3, <1>4
  <2>2. \A u, v \in Worker : {op'[u], op'[v]} # {"in", "ar"}
    BY <2>1 DEF InFlight
  <2>3. \A v \in Worker \ {w} : pc'[v] = pc[v] /\ op'[v] = op[v]
    BY <1>3, <1>4
  <2>4. /\ pc'[w] \in LockLabel => op'[w] \in {"in", "rb"}
        /\ pc'[w] \in InSection => op'[w] = "in"
        /\ pc'[w] \in RbSection \cup RbTail => op'[w] = "rb"
        /\ pc'[w] \in UploadLabel \cup RemoveLabel => op'[w] = "ar"
    BY <1>3, <1>4 DEF InFlight
  <2> QED BY <2>2, <2>3, <2>4 DEF InFlight
<1> QED BY <1>1, <1>2, <1>4 DEF Next

-----------------------------------------------------------------------------
(* What a step may do to the disk while an archive is in flight: packages  *)
(* only leave the collection directory, files only disappear after having  *)
(* been verified, and verified files stay verified.                        *)
Shrinks ==
    /\ \A p \in Pkg : loc'[p] \in {"ingest", "spilled"} => loc'[p] = loc[p]
    /\ \A p \in Pkg : cont'[p] \subseteq cont[p]
    /\ wasabi \subseteq wasabi'

(* An archive in flight leaves no room for a move_to_ingest.               *)
LEMMA NoArrival ==
  ASSUME InFlight, NEW v \in Worker, pc[v] \in UploadLabel \cup RemoveLabel,
         NEW w \in Worker
  PROVE  op[w] # "in" /\ pc[w] \notin InSection
  BY DEF InFlight

(* Steps other than move_to_ingest's only shrink.                          *)
LEMMA ShrinkStep ==
  ASSUME StagingAssumption, TypeOK, [Next]_vars,
         \A w \in Worker : pc[w] \notin InSection
  PROVE  Shrinks
<1> USE DEF disk, Shrinks, TypeOK
<1>1. CASE UNCHANGED vars
  BY <1>1 DEF vars
<1>2. ASSUME NEW w \in Worker, NEW o \in {"in", "rb", "ar"}, NEW p \in Pkg, Begin(w, o, p)
      PROVE  Shrinks
  BY <1>2 DEF Begin
<1>3. ASSUME NEW w \in Worker, LockUuid(w) PROVE Shrinks
  BY <1>3 DEF LockUuid, LockMakedirs, LockTest, LockOpen, Enter
<1>4. ASSUME NEW w \in Worker, MoveToIngest(w) PROVE Shrinks
  BY <1>4 DEF MoveToIngest, InCheck, InMkdir, InMove, InUnlock, InSection
<1>5. ASSUME NEW w \in Worker, MoveFromIngestToReady(w) PROVE Shrinks
  <2>1. CASE RbRmdir(w)
    BY <2>1 DEF RbRmdir
  <2>2. CASE RbMove(w)
    BY <2>2 DEF RbMove
  <2>3. CASE RbCheck(w) \/ RbClean(w) \/ RbBatch(w) \/ RbMkBatch(w) \/ RbUnlock(w)
    BY <2>3 DEF RbCheck, RbClean, RbBatch, RbMkBatch, RbUnlock
  <2>4. CASE RbList(w) \/ RbFinal(w)
    BY <2>4 DEF RbList, RbFinal
  <2> QED BY <1>5, <2>1, <2>2, <2>3, <2>4 DEF MoveFromIngestToReady
<1>6. ASSUME NEW w \in Worker, ArIsdir(w) \/ UploadDirectory(w) PROVE Shrinks
  BY <1>6 DEF ArIsdir, UploadDirectory, ArWalk, ArVisit, ArUpload, ArDecide, ArRaise
<1>7. ASSUME NEW w \in Worker, Rmtree(w) PROVE Shrinks
  <2>1. CASE ArRmDir(w)
    BY <2>1 DEF ArRmDir
  <2>2. CASE ArRmPkg(w)
    BY <2>2 DEF ArRmPkg
  <2>3. CASE \E x \in Pkg \X File : ArRmFile(w, x)
    BY <2>3 DEF ArRmFile
  <2>4. CASE ArScan(w) \/ (\E p \in Pkg : ArRmOpen(w, p)) \/ ArRmLock(w)
    BY <2>4 DEF ArScan, ArRmOpen, ArRmLock
  <2> QED BY <1>7, <2>1, <2>2, <2>3, <2>4 DEF Rmtree
<1>8. ASSUME NEW w \in Worker, Crash(w) PROVE Shrinks
  BY <1>8 DEF Crash
<1> HIDE DEF Shrinks, TypeOK, disk
<1> QED BY <1>1, <1>2, <1>3, <1>4, <1>5, <1>6, <1>7, <1>8 DEF Next, Step

-----------------------------------------------------------------------------
(* A worker that is uploading, under a step of its own. *)
LEMMA OwnUpload ==
  ASSUME StagingAssumption, TypeOK, UploadTracked, NEW w \in Worker,
         ArWalk(w) \/ (\E p \in Pkg : ArVisit(w, p))
           \/ (\E x \in Pkg \X File : ArUpload(w, x)),
         tally'[w] # "bad", NEW q \in Inside', NEW f \in cont'[q]
  PROVE  \/ q \in walk'[w] /\ loc'[q] = "ingest"
         \/ <<q, f>> \in todo'[w]
         \/ <<q, f>> \in wasabi'
<1>1. q \in Inside /\ f \in cont[q] /\ loc'[q] = loc[q] /\ q \in Pkg /\ f \in File
  BY DEF ArWalk, ArVisit, ArUpload, disk, Inside, TypeOK
<1>2. CASE ArWalk(w)
  BY <1>1, <1>2 DEF ArWalk, Inside, TypeOK
<1>3. ASSUME NEW p \in Pkg, ArVisit(w, p)
      PROVE  \/ q \in walk'[w] /\ loc'[q] = "ingest"
             \/ <<q, f>> \in todo'[w]
             \/ <<q, f>> \in wasabi'
  <2>1. (q \in walk[w] /\ loc[q] = "ingest") \/ <<q, f>> \in wasabi
    BY <1>1, <1>3 DEF ArVisit, UploadTracked
  <2>2. CASE q = p /\ loc[q] = "ingest"
    BY <1>1, <1>3, <2>2 DEF ArVisit, TypeOK
  <2>3. CASE ~(q = p /\ loc[q] = "ingest")
    BY <1>1, <1>3, <2>1, <2>3 DEF ArVisit, disk, TypeOK
  <2> QED BY <2>2, <2>3
<1>4. ASSUME NEW x \in Pkg \X File, ArUpload(w, x)
      PROVE  \/ q \in walk'[w] /\ loc'[q] = "ingest"
             \/ <<q, f>> \in todo'[w]
             \/ <<q, f>> \in wasabi'
  <2>1. x \in wasabi' /\ wasabi' = wasabi \cup {x} /\ tally[w] # "bad"
    BY <1>4 DEF ArUpload, TypeOK
  <2>2. \/ q \in walk[w] /\ loc[q] = "ingest"
        \/ <<q, f>> \in todo[w]
        \/ <<q, f>> \in wasabi
    BY <1>1, <1>4, <2>1 DEF ArUpload, UploadTracked
  <2> QED BY <1>1, <1>4, <2>1, <2>2 DEF ArUpload, TypeOK
<1> QED BY <1>2, <1>3, <1>4

(* Under a step of another worker its lists stay, and the disk shrinks.    *)
LEMMA UploadStep ==
  ASSUME StagingAssumption, TypeOK, InFlight, UploadTracked, [Next]_vars
  PROVE  UploadTracked'
<1> SUFFICES ASSUME NEW w \in Worker, pc'[w] = "ar_upload", tally'[w] # "bad",
                    NEW q \in Inside', NEW f \in File, f \in cont'[q]
             PROVE  \/ q \in walk'[w] /\ loc'[q] = "ingest"
                    \/ <<q, f>> \in todo'[w]
                    \/ <<q, f>> \in wasabi'
  BY DEF UploadTracked
<1>1. CASE /\ pc[w] = "ar_upload"
           /\ tally'[w] = tally[w] /\ walk'[w] = walk[w] /\ todo'[w] = todo[w]
  <2>1. Shrinks
    BY <1>1, NoArrival, ShrinkStep DEF UploadLabel
  <2>2. q \in Inside /\ loc'[q] = loc[q] /\ f \in cont[q]
    BY <2>1 DEF Shrinks, Inside
  <2> QED BY <1>1, <2>1, <2>2 DEF UploadTracked, Shrinks
<1>2. CASE ArWalk(w) \/ (\E p \in Pkg : ArVisit(w, p))
             \/ (\E x \in Pkg \X File : ArUpload(w, x))
  BY <1>2, OwnUpload
<1>3. CASE UNCHANGED vars
  BY <1>1, <1>3 DEF vars
<1>4. ASSUME NEW v \in Worker, NEW o \in {"in", "rb", "ar"}, NEW p \in Pkg, Begin(v, o, p)
      PROVE  /\ pc[w] = "ar_upload"
             /\ tally'[w] = tally[w] /\ walk'[w] = walk[w] /\ todo'[w] = todo[w]
  BY <1>4 DEF Begin, walkers, TypeOK
<1>5. ASSUME NEW v \in Worker, Step(v) \/ Crash(v),
             ~(ArWalk(w) \/ (\E p \in Pkg : ArVisit(w, p))
                 \/ (\E x \in Pkg \X File : ArUpload(w, x)))
      PROVE  /\ pc[w] = "ar_upload"
             /\ tally'[w] = tally[w] /\ walk'[w] = walk[w] /\ todo'[w] = todo[w]
  <2> USE DEF Goto, Exit, Reply, Forget, walkers, ArRmFails, TypeOK
  <2>1. CASE LockUuid(v)
    BY <2>1 DEF LockUuid, LockMakedirs, LockTest, LockOpen, Enter
  <2>2. CASE MoveToIngest(v)
    BY <2>2 DEF MoveToIngest, InCheck, InMkdir, InMove, InUnlock
  <2>3. CASE MoveFromIngestToReady(v)
    <3>1. CASE RbCheck(v) \/ RbClean(v) \/ RbBatch(v) \/ RbMkBatch(v) \/ RbMove(v)
      BY <3>1 DEF RbCheck, RbClean, RbBatch, RbMkBatch, RbMove
    <3>2. CASE RbUnlock(v) \/ RbList(v) \/ RbRmdir(v) \/ RbFinal(v)
      BY <3>2 DEF RbUnlock, RbList, RbRmdir, RbFinal
    <3> QED BY <2>3, <3>1, <3>2 DEF MoveFromIngestToReady
  <2>4. CASE ArIsdir(v)
    BY <2>4 DEF ArIsdir
  <2>5. CASE UploadDirectory(v)
    BY <1>5, <2>5 DEF UploadDirectory, ArWalk, ArVisit, ArUpload, ArDecide, ArRaise
  <2>6. CASE Rmtree(v)
    <3>1. CASE ArScan(v) \/ (\E p \in Pkg : ArRmOpen(v, p)) \/ ArRmLock(v)
      BY <3>1 DEF ArScan, ArRmOpen, ArRmLock
    <3>2. CASE (\E x \in Pkg \X File : ArRmFile(v, x)) \/ ArRmPkg(v)
      BY <3>2 DEF ArRmFile, ArRmPkg
    <3>3. CASE ArRmDir(v)
      BY <3>3 DEF ArRmDir
    <3> QED BY <2>6, <3>1, <3>2, <3>3 DEF Rmtree
  <2>7. CASE Crash(v)
    BY <2>7 DEF Crash
  <2> HIDE DEF Goto, Exit, Reply, Forget, walkers, ArRmFails, TypeOK
  <2> QED BY <1>5, <2>1, <2>2, <2>3, <2>4, <2>5, <2>6, <2>7 DEF Step
<1> QED BY <1>1, <1>2, <1>3, <1>4, <1>5 DEF Next

-----------------------------------------------------------------------------
(* An upload that ends well has verified everything that is there; after   *)
(* that the removal lists only verified files.                             *)
LEMMA RemovalStep ==
  ASSUME StagingAssumption, TypeOK, InFlight, UploadTracked, RemovalVerified, [Next]_vars
  PROVE  RemovalVerified'
<1> SUFFICES ASSUME NEW w \in Worker, pc'[w] \in RemoveLabel
             PROVE  /\ \A q \in Inside', f \in File : f \in cont'[q] => <<q, f>> \in wasabi'
                    /\ pc'[w] = "ar_rmpkg" => todo'[w] \subseteq wasabi'
  BY DEF RemovalVerified
<1>1. ASSUME pc[w] \in UploadLabel \cup RemoveLabel,
             \A q \in Inside, f \in File : f \in cont[q] => <<q, f>> \in wasabi
      PROVE  /\ \A q \in Inside', f \in File : f \in cont'[q] => <<q, f>> \in wasabi'
             /\ wasabi \subseteq wasabi'
  <2>1. Shrinks
    BY <1>1, NoArrival, ShrinkStep
  <2> QED BY <2>1, <1>1 DEF Shrinks, Inside
<1>2. CASE pc[w] \in RemoveLabel /\ pc'[w] = pc[w] /\ todo'[w] = todo[w]
  BY <1>1, <1>2 DEF RemovalVerified
<1>3. CASE ArDecide(w)
  <2>1. \A q \in Inside, f \in File : f \in cont[q] => <<q, f>> \in wasabi
    BY <1>3 DEF ArDecide, UploadTracked, RemoveLabel, Reply, Exit, TypeOK
  <2>2. pc[w] = "ar_upload" /\ pc'[w] # "ar_rmpkg"
    BY <1>3 DEF ArDecide, Goto, Reply, Exit, TypeOK
  <2> QED BY <1>1, <2>1, <2>2 DEF UploadLabel
<1>4. CASE ArScan(w) \/ ArRmLock(w) \/ ArRmPkg(w)
  <2>1. /\ pc[w] \in RemoveLabel
        /\ pc'[w] # "ar_rmpkg"
    BY <1>4 DEF ArScan, ArRmLock, ArRmPkg, ArRmFails, Goto, Reply, Exit, RemoveLabel, TypeOK
  <2> QED BY <1>1, <2>1 DEF RemovalVerified
<1>5. CASE \E p \in Pkg : ArRmOpen(w, p)
  <2>1. pc[w] \in RemoveLabel
    BY <1>5 DEF ArRmOpen, RemoveLabel
  <2>2. \A q \in Inside, f \in File : f \in cont[q] => <<q, f>> \in wasabi
    BY <2>1 DEF RemovalVerified
  <2>3. PICK p \in Pkg : p \in Inside /\ todo'[w] = {p} \X cont[p]
    BY <1>5 DEF ArRmOpen, ArRmFails, Reply, Exit, RemoveLabel, TypeOK
  <2>4. cont[p] \subseteq File
    BY DEF TypeOK
  <2>5. todo'[w] \subseteq wasabi
    BY <2>2, <2>3, <2>4
  <2> QED BY <1>1, <2>1, <2>2, <2>5
<1>6. CASE \E x \in Pkg \X File : ArRmFile(w, x)
  <2>1. pc[w] = "ar_rmpkg" /\ todo'[w] \subseteq todo[w]
    BY <1>6 DEF ArRmFile, ArRmFails, Forget, TypeOK
  <2> QED BY <1>1, <2>1 DEF RemovalVerified, RemoveLabel
<1>7. CASE UNCHANGED vars
  BY <1>2, <1>7 DEF vars
<1>8. ASSUME NEW v \in Worker, NEW o \in {"in", "rb", "ar"}, NEW p \in Pkg, Begin(v, o, p)
      PROVE  pc[w] \in RemoveLabel /\ pc'[w] = pc[w] /\ todo'[w] = todo[w]
  BY <1>8 DEF Begin, walkers, TypeOK, RemoveLabel
<1>9. ASSUME NEW v \in Worker, Step(v) \/ Crash(v),
             ~ArDecide(w), ~(ArScan(w) \/ ArRmLock(w) \/ ArRmPkg(w)),
             ~(\E p \in Pkg : ArRmOpen(w, p)), ~(\E x \in Pkg \X File : ArRmFile(w, x))
      PROVE  pc[w] \in RemoveLabel /\ pc'[w] = pc[w] /\ todo'[w] = todo[w]
  <2> USE DEF Goto, Exit, Reply, Forget, walkers, ArRmFails, TypeOK, RemoveLabel
  <2>1. CASE LockUuid(v)
    BY <2>1 DEF LockUuid, LockMakedirs, LockTest, LockOpen, Enter
  <2>2. CASE MoveToIngest(v)
    BY <2>2 DEF MoveToIngest, InCheck, InMkdir, InMove, InUnlock
  <2>3. CASE MoveFromIngestToReady(v)
    <3>1. CASE RbCheck(v) \/ RbClean(v) \/ RbBatch(v) \/ RbMkBatch(v) \/ RbMove(v)
      BY <3>1 DEF RbCheck, RbClean, RbBatch, RbMkBatch, RbMove
    <3>2. CASE RbUnlock(v) \/ RbList(v) \/ RbRmdir(v) \/ RbFinal(v)
      BY <3>2 DEF RbUnlock, RbList, RbRmdir, RbFinal
    <3> QED BY <2>3, <3>1, <3>2 DEF MoveFromIngestToReady
  <2>4. CASE ArIsdir(v)
    BY <2>4 DEF ArIsdir
  <2>5. CASE UploadDirectory(v)
    BY <1>9, <2>5 DEF UploadDirectory, ArWalk, ArVisit, ArUpload, ArDecide, ArRaise
  <2>6. CASE Rmtree(v)
    <3>1. CASE ArScan(v) \/ (\E p \in Pkg : ArRmOpen(v, p)) \/ ArRmLock(v)
      BY <1>9, <3>1 DEF ArScan, ArRmOpen, ArRmLock
    <3>2. CASE (\E x \in Pkg \X File : ArRmFile(v, x)) \/ ArRmPkg(v)
      BY <1>9, <3>2 DEF ArRmFile, ArRmPkg
    <3>3. CASE ArRmDir(v)
      BY <3>3 DEF ArRmDir
    <3> QED BY <2>6, <3>1, <3>2, <3>3 DEF Rmtree
  <2>7. CASE Crash(v)
    BY <2>7 DEF Crash
  <2> HIDE DEF Goto, Exit, Reply, Forget, walkers, ArRmFails, TypeOK, RemoveLabel
  <2> QED BY <1>9, <2>1, <2>2, <2>3, <2>4, <2>5, <2>6, <2>7 DEF Step
<1> QED BY <1>2, <1>3, <1>4, <1>5, <1>6, <1>7, <1>8, <1>9 DEF Next

-----------------------------------------------------------------------------
(* A file disappears only at ArRmFile, and a package only when its files   *)
(* are verified or gone.                                                   *)
LEMMA VerifiedStep ==
  ASSUME StagingAssumption, TypeOK, DirHoldsEntries, RemovalVerified,
         RemovedOnlyVerified, [Next]_vars
  PROVE  RemovedOnlyVerified'
<1> USE DEF disk, TypeOK, RemovedOnlyVerified
<1>1. CASE UNCHANGED vars
  BY <1>1 DEF vars
<1>2. ASSUME NEW w \in Worker, NEW o \in {"in", "rb", "ar"}, NEW p \in Pkg, Begin(w, o, p)
      PROVE  RemovedOnlyVerified'
  BY <1>2 DEF Begin
<1>3. ASSUME NEW w \in Worker, LockUuid(w) PROVE RemovedOnlyVerified'
  BY <1>3 DEF LockUuid, LockMakedirs, LockTest, LockOpen, Enter
<1>4. ASSUME NEW w \in Worker, MoveToIngest(w) PROVE RemovedOnlyVerified'
  BY <1>4 DEF MoveToIngest, InCheck, InMkdir, InMove, InUnlock
<1>5. ASSUME NEW w \in Worker, MoveFromIngestToReady(w) PROVE RemovedOnlyVerified'
  <2>1. CASE RbRmdir(w)
    <3>1. ASSUME NEW p \in Pkg, NEW f \in File, loc[p] = "spilled", ~dir'
          PROVE  f \notin cont[p]
      BY <2>1, <3>1 DEF RbRmdir, Listing, DirHoldsEntries
    <3> QED BY <2>1, <3>1 DEF RbRmdir
  <2>2. CASE RbMove(w)
    BY <2>2 DEF RbMove
  <2>3. CASE RbCheck(w) \/ RbClean(w) \/ RbBatch(w) \/ RbMkBatch(w) \/ RbUnlock(w)
    BY <2>3 DEF RbCheck, RbClean, RbBatch, RbMkBatch, RbUnlock
  <2>4. CASE RbList(w) \/ RbFinal(w)
    BY <2>4 DEF RbList, RbFinal
  <2> QED BY <1>5, <2>1, <2>2, <2>3, <2>4 DEF MoveFromIngestToReady
<1>6. ASSUME NEW w \in Worker, ArIsdir(w) \/ UploadDirectory(w) PROVE RemovedOnlyVerified'
  BY <1>6 DEF ArIsdir, UploadDirectory, ArWalk, ArVisit, ArUpload, ArDecide, ArRaise
<1>7. ASSUME NEW w \in Worker, Rmtree(w) PROVE RemovedOnlyVerified'
  <2>1. CASE ArRmDir(w)
    <3>1. ASSUME NEW p \in Pkg, NEW f \in File, loc[p] = "spilled", dir /\ Listing = {}
          PROVE  f \notin cont[p]
      BY <3>1 DEF Listing
    <3> QED BY <2>1, <3>1 DEF ArRmDir
  <2>2. CASE ArRmPkg(w)
    BY <2>2 DEF ArRmPkg, RemovalVerified, RemoveLabel, Inside
  <2>3. CASE \E x \in Pkg \X File : ArRmFile(w, x)
    BY <2>3 DEF ArRmFile, RemovalVerified, RemoveLabel
  <2>4. CASE ArScan(w) \/ (\E p \in Pkg : ArRmOpen(w, p)) \/ ArRmLock(w)
    BY <2>4 DEF ArScan, ArRmOpen, ArRmLock
  <2> QED BY <1>7, <2>1, <2>2, <2>3, <2>4 DEF Rmtree
<1>8. ASSUME NEW w \in Worker, Crash(w) PROVE RemovedOnlyVerified'
  BY <1>8 DEF Crash
<1> HIDE DEF disk, TypeOK, RemovedOnlyVerified
<1> QED BY <1>1, <1>2, <1>3, <1>4, <1>5, <1>6, <1>7, <1>8 DEF Next, Step

(* When clients keep archives and arrivals of a collection apart, no file  *)
(* leaves the local disk before it was verified in Wasabi.                 *)
THEOREM NothingLost ==
  ASSUME StagingAssumption, ~Overlap PROVE Spec => []RemovedOnlyVerified
<1>1. Init => CustodyInv
  BY StagingAssumption
  DEF Init, CustodyInv, InFlight, UploadTracked, RemovalVerified, RemovedOnlyVerified,
      LockLabel, InSection, RbSection, RbTail, UploadLabel, RemoveLabel
<1>2. TypeOK /\ DirHoldsEntries /\ CustodyInv /\ [Next]_vars => CustodyInv'
  BY StagingAssumption, InFlightStep, UploadStep, RemovalStep, VerifiedStep DEF CustodyInv
<1>3. CustodyInv => RemovedOnlyVerified
  BY DEF CustodyInv
<1> QED BY <1>1, <1>2, <1>3, TypeCorrect, EntriesHeld, StagingAssumption, PTL DEF Spec

-----------------------------------------------------------------------------
(* At most one package is the collection directory: a package spills only *)
(* when the directory is not there.                                        *)
LEMMA OneSpillStep ==
  ASSUME StagingAssumption, TypeOK, OneSpill, [Next]_vars PROVE OneSpill'
<1> USE DEF disk, TypeOK, OneSpill
<1>1. CASE UNCHANGED vars
  BY <1>1 DEF vars
<1>2. ASSUME NEW w \in Worker, NEW o \in {"in", "rb", "ar"}, NEW p \in Pkg, Begin(w, o, p)
      PROVE  OneSpill'
  BY <1>2 DEF Begin
<1>3. ASSUME NEW w \in Worker, LockUuid(w) PROVE OneSpill'
  BY <1>3 DEF LockUuid, LockMakedirs, LockTest, LockOpen, Enter
<1>4. ASSUME NEW w \in Worker, MoveToIngest(w) PROVE OneSpill'
  BY <1>4 DEF MoveToIngest, InCheck, InMkdir, InMove, InUnlock
<1>5. ASSUME NEW w \in Worker, MoveFromIngestToReady(w) PROVE OneSpill'
  <2>1. CASE RbRmdir(w)
    BY <2>1 DEF RbRmdir
  <2>2. CASE RbMove(w)
    BY <2>2 DEF RbMove
  <2>3. CASE RbCheck(w) \/ RbClean(w) \/ RbBatch(w) \/ RbMkBatch(w) \/ RbUnlock(w)
    BY <2>3 DEF RbCheck, RbClean, RbBatch, RbMkBatch, RbUnlock
  <2>4. CASE RbList(w) \/ RbFinal(w)
    BY <2>4 DEF RbList, RbFinal
  <2> QED BY <1>5, <2>1, <2>2, <2>3, <2>4 DEF MoveFromIngestToReady
<1>6. ASSUME NEW w \in Worker, ArIsdir(w) \/ UploadDirectory(w) PROVE OneSpill'
  BY <1>6 DEF ArIsdir, UploadDirectory, ArWalk, ArVisit, ArUpload, ArDecide, ArRaise
<1>7. ASSUME NEW w \in Worker, Rmtree(w) PROVE OneSpill'
  <2>1. CASE ArRmDir(w)
    BY <2>1 DEF ArRmDir
  <2>2. CASE ArRmPkg(w)
    BY <2>2 DEF ArRmPkg
  <2>3. CASE \E x \in Pkg \X File : ArRmFile(w, x)
    BY <2>3 DEF ArRmFile
  <2>4. CASE ArScan(w) \/ (\E p \in Pkg : ArRmOpen(w, p)) \/ ArRmLock(w)
    BY <2>4 DEF ArScan, ArRmOpen, ArRmLock
  <2> QED BY <1>7, <2>1, <2>2, <2>3, <2>4 DEF Rmtree
<1>8. ASSUME NEW w \in Worker, Crash(w) PROVE OneSpill'
  BY <1>8 DEF Crash
<1> HIDE DEF disk, TypeOK, OneSpill
<1> QED BY <1>1, <1>2, <1>3, <1>4, <1>5, <1>6, <1>7, <1>8 DEF Next, Step

(* Files are never added to a package directory. *)
LEMMA FilesShrink ==
  ASSUME StagingAssumption, TypeOK, [Next]_vars, NEW p \in Pkg PROVE cont'[p] \subseteq cont[p]
<1> USE DEF disk, TypeOK
<1>1. CASE UNCHANGED vars
  BY <1>1 DEF vars
<1>2. ASSUME NEW w \in Worker, NEW o \in {"in", "rb", "ar"}, NEW q \in Pkg, Begin(w, o, q)
      PROVE  cont'[p] \subseteq cont[p]
  BY <1>2 DEF Begin
<1>3. ASSUME NEW w \in Worker, LockUuid(w) \/ MoveToIngest(w) PROVE cont' = cont
  BY <1>3 DEF LockUuid, LockMakedirs, LockTest, LockOpen, Enter, MoveToIngest, InCheck, InMkdir,
              InMove, InUnlock
<1>4. ASSUME NEW w \in Worker, MoveFromIngestToReady(w) PROVE cont' = cont
  BY <1>4 DEF MoveFromIngestToReady, RbCheck, RbClean, RbBatch, RbMkBatch, RbMove, RbUnlock,
              RbList, RbRmdir, RbFinal
<1>5. ASSUME NEW w \in Worker, ArIsdir(w) \/ UploadDirectory(w) PROVE cont' = cont
  BY <1>5 DEF ArIsdir, UploadDirectory, ArWalk, ArVisit, ArUpload, ArDecide, ArRaise
<1>6. ASSUME NEW w \in Worker, Rmtree(w) PROVE cont'[p] \subseteq cont[p]
  BY <1>6 DEF Rmtree, ArScan, ArRmOpen, ArRmFile, ArRmPkg, ArRmLock, ArRmDir
<1>7. ASSUME NEW w \in Worker, Crash(w) PROVE cont' = cont
  BY <1>7 DEF Crash
<1> QED BY <1>1, <1>2, <1>3, <1>4, <1>5, <1>6, <1>7 DEF Next, Step

(* An rmtree inside a package is moved on only by its own worker. *)
LEMMA RemovalFrame ==
  ASSUME StagingAssumption, TypeOK, [Next]_vars, NEW w \in Worker, pc'[w] = "ar_rmpkg",
         ~(\E p \in Pkg : ArRmOpen(w, p)), ~(\E x \in Pkg \X File : ArRmFile(w, x))
  PROVE  pc[w] = "ar_rmpkg" /\ pkg'[w] = pkg[w] /\ todo'[w] = todo[w]
<1> USE DEF Goto, Exit, Reply, Forget, request, walkers, ArRmFails, TypeOK
<1>1. CASE UNCHANGED vars
  BY <1>1 DEF vars
<1>2. ASSUME NEW v \in Worker, NEW o \in {"in", "rb", "ar"}, NEW p \in Pkg, Begin(v, o, p)
      PROVE  pc[w] = "ar_rmpkg" /\ pkg'[w] = pkg[w] /\ todo'[w] = todo[w]
  BY <1>2 DEF Begin
<1>3. ASSUME NEW v \in Worker, LockUuid(v)
      PROVE  pc[w] = "ar_rmpkg" /\ pkg'[w] = pkg[w] /\ todo'[w] = todo[w]
  BY <1>3 DEF LockUuid, LockMakedirs, LockTest, LockOpen, Enter
<1>4. ASSUME NEW v \in Worker, MoveToIngest(v)
      PROVE  pc[w] = "ar_rmpkg" /\ pkg'[w] = pkg[w] /\ todo'[w] = todo[w]
  BY <1>4 DEF MoveToIngest, InCheck, InMkdir, InMove, InUnlock
<1>5. ASSUME NEW v \in Worker, MoveFromIngestToReady(v)
      PROVE  pc[w] = "ar_rmpkg" /\ pkg'[w] = pkg[w] /\ todo'[w] = todo[w]
  <2>1. CASE RbCheck(v) \/ RbClean(v) \/ RbBatch(v) \/ RbMkBatch(v) \/ RbMove(v)
    BY <2>1 DEF RbCheck, RbClean, RbBatch, RbMkBatch, RbMove
  <2>2. CASE RbUnlock(v) \/ RbList(v) \/ RbRmdir(v) \/ RbFinal(v)
    BY <2>2 DEF RbUnlock, RbList, RbRmdir, RbFinal
  <2> QED BY <1>5, <2>1, <2>2 DEF MoveFromIngestToReady
<1>6. ASSUME NEW v \in Worker, ArIsdir(v) \/ UploadDirectory(v)
      PROVE  pc[w] = "ar_rmpkg" /\ pkg'[w] = pkg[w] /\ todo'[w] = todo[w]
  BY <1>6 DEF ArIsdir, UploadDirectory, ArWalk, ArVisit, ArUpload, ArDecide, ArRaise
<1>7. ASSUME NEW v \in Worker, Rmtree(v)
      PROVE  pc[w] = "ar_rmpkg" /\ pkg'[w] = pkg[w] /\ todo'[w] = todo[w]
  <2>1. CASE ArScan(v) \/ (\E p \in Pkg : ArRmOpen(v, p)) \/ ArRmLock(v)
    BY <2>1 DEF ArScan, ArRmOpen, ArRmLock
  <2>2. CASE (\E x \in Pkg \X File : ArRmFile(v, x)) \/ ArRmPkg(v)
    BY <2>2 DEF ArRmFile, ArRmPkg
  <2>3. CASE ArRmDir(v)
    BY <2>3 DEF ArRmDir
  <2> QED BY <1>7, <2>1, <2>2, <2>3 DEF Rmtree
<1>8. ASSUME NEW v \in Worker, Crash(v)
      PROVE  pc[w] = "ar_rmpkg" /\ pkg'[w] = pkg[w] /\ todo'[w] = todo[w]
  BY <1>8 DEF Crash
<1> HIDE DEF Goto, Exit, Reply, Forget, request, walkers, ArRmFails, TypeOK
<1> QED BY <1>1, <1>2, <1>3, <1>4, <1>5, <1>6, <1>7, <1>8 DEF Next, Step

(* An rmtree at work in a package has every file of it before it.          *)
LEMMA RemovalTrackedStep ==
  ASSUME StagingAssumption, TypeOK, RemovalTracked, [Next]_vars PROVE RemovalTracked'
<1> SUFFICES ASSUME NEW w \in Worker, pc'[w] = "ar_rmpkg"
             PROVE  /\ pkg'[w] \in Pkg
                    /\ \A f \in cont'[pkg'[w]] : <<pkg'[w], f>> \in todo'[w]
  BY DEF RemovalTracked
<1>1. \A p \in Pkg : cont'[p] \subseteq cont[p]
  BY FilesShrink
<1>2. CASE \E p \in Pkg : ArRmOpen(w, p)
  BY <1>2 DEF ArRmOpen, ArRmFails, Reply, Exit, disk, TypeOK
<1>3. CASE \E x \in Pkg \X File : ArRmFile(w, x)
  <2>1. PICK x \in Pkg \X File :
          /\ pc[w] = "ar_rmpkg" /\ x \in todo[w] /\ pkg'[w] = pkg[w]
          /\ cont' = [cont EXCEPT ![x[1]] = @ \ {x[2]}]
          /\ todo' = [todo EXCEPT ![w] = @ \ {x}]
    BY <1>3 DEF ArRmFile, ArRmFails, Reply, Exit, request, TypeOK
  <2> QED BY <2>1 DEF RemovalTracked, TypeOK
<1>4. CASE pc[w] = "ar_rmpkg" /\ pkg'[w] = pkg[w] /\ todo'[w] = todo[w]
  BY <1>1, <1>4 DEF RemovalTracked
<1> QED BY <1>2, <1>3, <1>4, RemovalFrame

-----------------------------------------------------------------------------
(* Every step of the staging area is a step of PackageCustody or leaves it *)
(* alone.                                                                  *)
LEMMA CustodyStep ==
  ASSUME StagingAssumption, TypeOK, DirHoldsEntries, OneSpill, RemovalTracked,
         RemovalVerified, [Next]_vars
  PROVE  [Custody!Next]_(Custody!custody)
<1> DEFINE Same == UNCHANGED <<loc, cont, wasabi>>
<1> DEFINE Goal == Custody!Next \/ UNCHANGED <<CustodyPlace, cont, wasabi>>
<1>a. SUFFICES Goal
  BY DEF Custody!custody
<1>b. Same => Goal
  BY DEF CustodyPlace
<1> USE DEF disk, TypeOK
<1>1. CASE UNCHANGED vars
  BY <1>1, <1>b DEF vars
<1>2. ASSUME NEW w \in Worker, NEW o \in {"in", "rb", "ar"}, NEW p \in Pkg, Begin(w, o, p)
      PROVE  Goal
  BY <1>2, <1>b DEF Begin
<1>3. ASSUME NEW w \in Worker, LockUuid(w) PROVE Goal
  BY <1>3, <1>b DEF LockUuid, LockMakedirs, LockTest, LockOpen, Enter
<1>c. ASSUME NEW p \in Pkg, loc[p] = "ready", NEW l \in {"ingest", "spilled"},
             loc' = [loc EXCEPT ![p] = l], UNCHANGED <<cont, wasabi>>
      PROVE  Goal
  <2>1. CustodyPlace[p] = "ready" /\ CustodyPlace' = [CustodyPlace EXCEPT ![p] = "ingest"]
    BY <1>c DEF CustodyPlace, Place
  <2>2. Custody!Ingest(p)
    BY <1>c, <2>1 DEF Custody!Ingest
  <2> QED BY <2>2 DEF Custody!Next
<1>4. ASSUME NEW w \in Worker, MoveToIngest(w) PROVE Goal
  <2>1. CASE InMove(w)
    <3>1. Same \/ /\ pkg[w] \in Pkg /\ loc[pkg[w]] = "ready"
                  /\ \E l \in {"ingest", "spilled"} : loc' = [loc EXCEPT ![pkg[w]] = l]
      BY <2>1 DEF InMove, Place, StagingAssumption
    <3> QED BY <2>1, <3>1, <1>b, <1>c DEF InMove
  <2>2. CASE InCheck(w) \/ InMkdir(w) \/ InUnlock(w)
    BY <2>2, <1>b DEF InCheck, InMkdir, InUnlock
  <2> QED BY <1>4, <2>1, <2>2 DEF MoveToIngest
(* The collection directory that was a package is gone.                    *)
<1>d. ASSUME loc' = [p \in Pkg |-> IF loc[p] = "spilled" THEN "gone" ELSE loc[p]],
             \A p \in Pkg : loc[p] = "spilled" => cont[p] = {},
             UNCHANGED <<cont, wasabi>>
      PROVE  Goal
  <2>1. CASE \A p \in Pkg : loc[p] # "spilled"
    BY <1>d, <2>1 DEF CustodyPlace
  <2>2. CASE \E p \in Pkg : loc[p] = "spilled"
    <3>1. PICK p \in Pkg : loc[p] = "spilled"
      BY <2>2
    <3>2. \A q \in Pkg \ {p} : loc[q] # "spilled"
      BY <3>1 DEF OneSpill
    <3>3. CustodyPlace[p] = "ingest" /\ CustodyPlace' = [CustodyPlace EXCEPT ![p] = "archived"]
      BY <1>d, <3>1, <3>2 DEF CustodyPlace
    <3>4. Custody!Retire(p)
      BY <1>d, <3>1, <3>3 DEF Custody!Retire
    <3> QED BY <3>4 DEF Custody!Next
  <2> QED BY <2>1, <2>2
<1>5. ASSUME NEW w \in Worker, MoveFromIngestToReady(w) PROVE Goal
  <2>1. CASE RbRmdir(w)
    <3>1. CASE Same
      BY <3>1, <1>b
    <3>2. CASE ~Same
      <4>1. \A p \in Pkg : loc[p] = "spilled" => cont[p] = {}
        BY <2>1, <3>2 DEF RbRmdir, Listing, DirHoldsEntries
      <4> QED BY <2>1, <3>2, <4>1, <1>d DEF RbRmdir
    <3> QED BY <3>1, <3>2
  <2>2. CASE RbMove(w)
    <3>1. CASE loc[pkg[w]] = "ingest" /\ loc' = [loc EXCEPT ![pkg[w]] = "ready"]
      <4>1. CASE pkg[w] \in Pkg
        <5>1. CustodyPlace[pkg[w]] = "ingest"
              /\ CustodyPlace' = [CustodyPlace EXCEPT ![pkg[w]] = "ready"]
          BY <3>1, <4>1 DEF CustodyPlace, Place
        <5>2. Custody!Return(pkg[w])
          BY <2>2, <4>1, <5>1 DEF Custody!Return, RbMove
        <5> QED BY <4>1, <5>2 DEF Custody!Next
      <4>2. CASE pkg[w] \notin Pkg
        BY <2>2, <3>1, <4>2, <1>b DEF RbMove
      <4> QED BY <4>1, <4>2
    <3>2. CASE Same
      BY <3>2, <1>b
    <3> QED BY <2>2, <3>1, <3>2 DEF RbMove
  <2>3. CASE RbCheck(w) \/ RbClean(w) \/ RbBatch(w) \/ RbMkBatch(w) \/ RbUnlock(w)
    BY <2>3, <1>b DEF RbCheck, RbClean, RbBatch, RbMkBatch, RbUnlock
  <2>4. CASE RbList(w) \/ RbFinal(w)
    BY <2>4, <1>b DEF RbList, RbFinal
  <2> QED BY <1>5, <2>1, <2>2, <2>3, <2>4 DEF MoveFromIngestToReady
<1>6. ASSUME NEW w \in Worker, ArIsdir(w) \/ UploadDirectory(w) PROVE Goal
  <2>1. CASE \E x \in Pkg \X File : ArUpload(w, x)
    <3>1. PICK x \in Pkg \X File : ArUpload(w, x)
      BY <2>1
    <3>2. CASE wasabi' = wasabi
      BY <3>1, <3>2, <1>b DEF ArUpload
    <3>3. CASE wasabi' # wasabi
      <4>1. x = <<x[1], x[2]>> /\ x[1] \in Pkg /\ x[2] \in File
        OBVIOUS
      <4>2. CustodyPlace[x[1]] = "ingest" /\ CustodyPlace' = CustodyPlace
        BY <3>1, <3>3, <4>1 DEF ArUpload, Inside, CustodyPlace
      <4>3. Custody!Verify(x[1], x[2])
        BY <3>1, <3>3, <4>1, <4>2 DEF ArUpload, Custody!Verify
      <4> QED BY <4>1, <4>3 DEF Custody!Next
    <3> QED BY <3>2, <3>3
  <2>2. CASE ArIsdir(w) \/ ArWalk(w) \/ (\E p \in Pkg : ArVisit(w, p)) \/ ArDecide(w) \/ ArRaise(w)
    BY <2>2, <1>b DEF ArIsdir, ArWalk, ArVisit, ArDecide, ArRaise
  <2> QED BY <1>6, <2>1, <2>2 DEF UploadDirectory
<1>7. ASSUME NEW w \in Worker, Rmtree(w) PROVE Goal
  <2>1. CASE ArRmDir(w)
    <3>1. CASE Same
      BY <3>1, <1>b
    <3>2. CASE ~Same
      <4>1. \A p \in Pkg : loc[p] = "spilled" => cont[p] = {}
        BY <2>1, <3>2 DEF ArRmDir, Listing
      <4> QED BY <2>1, <3>2, <4>1, <1>d DEF ArRmDir
    <3> QED BY <3>1, <3>2
  <2>2. CASE ArRmPkg(w)
    <3>1. CASE Same
      BY <3>1, <1>b
    <3>2. CASE ~Same
      <4>1. pkg[w] \in Pkg /\ cont[pkg[w]] = {}
        BY <2>2 DEF ArRmPkg, RemovalTracked
      <4>2. loc[pkg[w]] = "ingest" /\ loc' = [loc EXCEPT ![pkg[w]] = "gone"]
            /\ UNCHANGED <<cont, wasabi>>
        BY <2>2, <3>2, <4>1 DEF ArRmPkg, Inside
      <4>3. CustodyPlace[pkg[w]] = "ingest"
            /\ CustodyPlace' = [CustodyPlace EXCEPT ![pkg[w]] = "archived"]
        BY <4>1, <4>2 DEF CustodyPlace, Place
      <4>4. Custody!Retire(pkg[w])
        BY <4>1, <4>2, <4>3 DEF Custody!Retire
      <4> QED BY <4>1, <4>4 DEF Custody!Next
    <3> QED BY <3>1, <3>2
  <2>3. CASE \E x \in Pkg \X File : ArRmFile(w, x)
    <3>1. PICK x \in Pkg \X File : ArRmFile(w, x)
      BY <2>3
    <3>2. CASE cont' = cont
      BY <3>1, <3>2, <1>b DEF ArRmFile
    <3>3. CASE cont' # cont
      <4>1. x = <<x[1], x[2]>> /\ x[1] \in Pkg /\ x[2] \in File
        OBVIOUS
      <4>2. x \in wasabi
        BY <3>1 DEF ArRmFile, RemovalVerified, RemoveLabel
      <4>3. Custody!Prune(x[1], x[2])
        BY <3>1, <3>3, <4>1, <4>2 DEF ArRmFile, Custody!Prune, CustodyPlace
      <4> QED BY <4>1, <4>3 DEF Custody!Next
    <3> QED BY <3>2, <3>3
  <2>4. CASE ArScan(w) \/ (\E p \in Pkg : ArRmOpen(w, p)) \/ ArRmLock(w)
    BY <2>4, <1>b DEF ArScan, ArRmOpen, ArRmLock
  <2> QED BY <1>7, <2>1, <2>2, <2>3, <2>4 DEF Rmtree
<1>8. ASSUME NEW w \in Worker, Crash(w) PROVE Goal
  BY <1>8, <1>b DEF Crash
<1> HIDE DEF disk, TypeOK, Goal, Same
<1> QED BY <1>1, <1>2, <1>3, <1>4, <1>5, <1>6, <1>7, <1>8 DEF Next, Step

(* The staging area keeps the custody that PackageCustody promises, for as *)
(* long as clients keep archives and arrivals of a collection apart.       *)
THEOREM CustodyKept ==
  ASSUME StagingAssumption, ~Overlap PROVE Spec => CustodySpec
<1>1. Init => Custody!Init
  <2> SUFFICES ASSUME Init PROVE Custody!Init
    OBVIOUS
  <2>1. CustodyPlace \in [Pkg -> {"ready", "ingest"}]
    BY DEF Init, CustodyPlace
  <2> QED BY <2>1 DEF Init, Custody!Init
<1>2. Init => OneSpill /\ RemovalTracked /\ CustodyInv
  BY StagingAssumption
  DEF Init, OneSpill, RemovalTracked, CustodyInv, InFlight, UploadTracked, RemovalVerified,
      RemovedOnlyVerified, LockLabel, InSection, RbSection, RbTail, UploadLabel, RemoveLabel
<1>3. TypeOK /\ DirHoldsEntries /\ OneSpill /\ RemovalTracked /\ CustodyInv /\ [Next]_vars
        => OneSpill' /\ RemovalTracked' /\ CustodyInv'
  BY StagingAssumption, OneSpillStep, RemovalTrackedStep, InFlightStep, UploadStep,
     RemovalStep, VerifiedStep DEF CustodyInv
<1>4. TypeOK /\ DirHoldsEntries /\ OneSpill /\ RemovalTracked /\ CustodyInv /\ [Next]_vars
        => [Custody!Next]_(Custody!custody)
  BY StagingAssumption, CustodyStep DEF CustodyInv
<1> QED BY <1>1, <1>2, <1>3, <1>4, TypeCorrect, EntriesHeld, StagingAssumption, PTL
        DEF Spec, CustodySpec, Custody!Spec
=============================================================================
