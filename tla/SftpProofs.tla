----------------------------- MODULE SftpProofs -----------------------------
(***************************************************************************)
(* Proofs about SftpUpload, for any workers, packages, files and bounds on *)
(* faults and kills, with and without cancellations and cleanups.          *)
(***************************************************************************)
EXTENDS SftpUpload, TLAPS

(* A table of tables keeps its type when one entry is replaced. *)
LEMMA EntryTyped ==
  ASSUME NEW S, NEW T, NEW V, NEW t \in [S -> [T -> V]], NEW a \in S, NEW b \in T, NEW v \in V
  PROVE  [t EXCEPT ![a][b] = v] \in [S -> [T -> V]]
<1> DEFINE row == [t[a] EXCEPT ![b] = v]
<1>1. row \in [T -> V]
  OBVIOUS
<1>2. [t EXCEPT ![a][b] = v] = [t EXCEPT ![a] = row]
  OBVIOUS
<1> HIDE DEF row
<1> QED BY <1>1, <1>2

(* The point of one thread is set ... *)
LEMMA GotoTyped ==
  ASSUME TypeOK, NEW w \in Worker, NEW p \in Pkg, NEW l \in Label, Goto(w, p, l)
  PROVE  pc' \in [Worker -> [Pkg -> Label]]
  BY EntryTyped DEF Goto, TypeOK

(* ... and those of all others stay. *)
LEMMA GotoAt ==
  ASSUME TypeOK, NEW w \in Worker, NEW p \in Pkg, NEW l, Goto(w, p, l)
  PROVE  \A v \in Worker, q \in Pkg :
             pc'[v][q] = IF v = w /\ q = p THEN l ELSE pc[v][q]
<1> DEFINE row == [pc[w] EXCEPT ![p] = l]
<1>1. pc' = [pc EXCEPT ![w] = row]
  BY DEF Goto
<1>2. \A q \in Pkg : row[q] = IF q = p THEN l ELSE pc[w][q]
  BY DEF TypeOK
<1> HIDE DEF row
<1> QED BY <1>1, <1>2 DEF TypeOK

(* Every variable keeps its type under every step of a put. *)
LEMMA PutTypeStep ==
  ASSUME SftpAssumption, TypeOK, NEW w \in Worker, NEW p \in Pkg, PutStep(w, p)
  PROVE  TypeOK'
<1> DEFINE PcType == pc' \in [Worker -> [Pkg -> Label]]
<1>g. \A l \in Label : Goto(w, p, l) => PcType
  BY GotoTyped
<1>a. {"none"} \cup Early \cup Sending \cup Ending \subseteq Label
  BY DEF Label
<1>l. /\ "none" \in Label /\ "clear" \in Label /\ "check" \in Label /\ "connect" \in Label
      /\ "stat" \in Label /\ "mktop" \in Label /\ "mkpkg" \in Label /\ "walk" \in Label
      /\ "send" \in Label /\ "sending" \in Label /\ "confirm" \in Label
      /\ "failed" \in Label /\ "cancelled" \in Label /\ "discard" \in Label
  BY <1>a DEF Early, Sending, Ending
<1> HIDE DEF PcType
<1>r. ASSUME PcType, UNCHANGED <<locks, markers, place, area, cleaner, told, history>>,
             left' \in [Worker -> [Pkg -> SUBSET File]],
             cur' \in [Worker -> [Pkg -> File \cup {NoFile}]],
             bounds' = bounds \/ Fault
      PROVE  TypeOK'
  <2>1. faults' \in 0..MaxFaults /\ kills' \in 0..MaxKills
    BY <1>r DEF bounds, Fault, TypeOK, SftpAssumption
  <2> QED BY <1>r, <2>1 DEF PcType, TypeOK, locks, markers, place, area, cleaner, history
<1>t. /\ left \in [Worker -> [Pkg -> SUBSET File]]
      /\ cur \in [Worker -> [Pkg -> File \cup {NoFile}]]
      /\ remote \in [Pkg -> [File -> {"none", "part", "full"}]]
  BY DEF TypeOK
<1>b. (bounds' = bounds \/ Fault) => faults' \in 0..MaxFaults /\ kills' \in 0..MaxKills
  BY DEF bounds, Fault, TypeOK, SftpAssumption
<1>x. {"running", "sent", "failed", "cancelled", "mute"} \subseteq Ended
  BY DEF Ended, Silent
<1>h. (\E e \in Ended : End(p, e)) \/ UNCHANGED history =>
          ended' \in [Pkg -> Ended] /\ asked' \subseteq Pkg
  <2>1. ASSUME NEW e \in Ended, End(p, e) PROVE ended' \in [Pkg -> Ended] /\ asked' \subseteq Pkg
    BY <2>1 DEF End, TypeOK
  <2>2. CASE UNCHANGED history
    BY <2>2 DEF history, TypeOK
  <2> QED BY <2>1, <2>2
<1>1. CASE PutLock(w, p)
  <2>1. PcType  BY <1>1, <1>g, <1>l DEF PutLock
  <2>2. flock' \in [Pkg -> Worker \cup {NoOne}]  BY <1>1 DEF PutLock, TypeOK
  <2>3. (\E e \in Ended : End(p, e)) \/ UNCHANGED history  BY <1>1, <1>x DEF PutLock, TypeOK
  <2>4. faults' \in 0..MaxFaults /\ kills' \in 0..MaxKills  BY <1>1, <1>b DEF PutLock
  <2> QED BY <1>1, <2>1, <2>2, <2>3, <2>4, <1>h
    DEF PcType, PutLock, TypeOK, markers, place, area, cleaner
<1>2. CASE PutClear(w, p)
  <2>1. PcType  BY <1>2, <1>g, <1>l DEF PutClear
  <2>2. faults' \in 0..MaxFaults /\ kills' \in 0..MaxKills  BY <1>2, <1>b DEF PutClear
  <2>3. error' \subseteq Pkg /\ cancel' \subseteq Pkg  BY <1>2 DEF PutClear, TypeOK
  <2> QED BY <1>2, <2>1, <2>2, <2>3 DEF PcType, PutClear, TypeOK, locks, place, area, cleaner, history
<1>3. CASE PutCheck(w, p)
  <2>1. PcType  BY <1>3, <1>g, <1>l DEF PutCheck
  <2> QED BY <1>3, <2>1, <1>r, <1>t DEF PutCheck
<1>4. CASE PutConnect(w, p)
  <2>1. PcType  BY <1>4, <1>g, <1>l DEF PutConnect
  <2> QED BY <1>4, <2>1, <1>r, <1>t DEF PutConnect
<1>5. CASE PutStat(w, p)
  <2>1. PcType  BY <1>5, <1>g, <1>l DEF PutStat, Made
  <2> QED BY <1>5, <2>1, <1>r, <1>t DEF PutStat
<1>6. CASE PutMkTop(w, p)
  <2>1. PcType  BY <1>6, <1>g, <1>l DEF PutMkTop
  <2> QED BY <1>6, <2>1 DEF PcType, PutMkTop, TypeOK, locks, markers, place, cleaner, bounds, history
<1>7. CASE PutMkPkg(w, p)
  <2>1. PcType  BY <1>7, <1>g, <1>l DEF PutMkPkg, Made
  <2> QED BY <1>7, <2>1 DEF PcType, PutMkPkg, TypeOK, locks, markers, place, cleaner, bounds, history
<1>8. CASE PutWalk(w, p)
  <2>1. PcType  BY <1>8, <1>g, <1>l DEF PutWalk
  <2>2. left' \in [Worker -> [Pkg -> SUBSET File]]  BY <1>8, <1>t DEF PutWalk
  <2> QED BY <1>8, <2>1, <2>2, <1>r, <1>t DEF PutWalk
<1>9. ASSUME NEW f \in File, PutSend(w, p, f) PROVE TypeOK'
  <2>1. PcType  BY <1>9, <1>g, <1>l DEF PutSend
  <2>2. left' \in [Worker -> [Pkg -> SUBSET File]]
    <3>1. left[w][p] \ {f} \in SUBSET File  BY <1>t
    <3>2. [left EXCEPT ![w][p] = left[w][p] \ {f}] \in [Worker -> [Pkg -> SUBSET File]]
      BY <3>1, <1>t, EntryTyped
    <3> QED BY <1>9, <1>t, <3>2 DEF PutSend
  <2>3. cur' \in [Worker -> [Pkg -> File \cup {NoFile}]]
    <3>1. [cur EXCEPT ![w][p] = f] \in [Worker -> [Pkg -> File \cup {NoFile}]]
      BY <1>t, EntryTyped
    <3> QED BY <1>9, <1>t, <3>1 DEF PutSend
  <2>4. remote' \in [Pkg -> [File -> {"none", "part", "full"}]]
    <3>1. [remote EXCEPT ![p][f] = "part"] \in [Pkg -> [File -> {"none", "part", "full"}]]
      BY <1>t, EntryTyped
    <3> QED BY <1>9, <1>t, <3>1 DEF PutSend, Upload
  <2> QED BY <1>9, <2>1, <2>2, <2>3, <2>4
    DEF PcType, PutSend, TypeOK, locks, markers, place, cleaner, bounds, history
<1>10. CASE PutSending(w, p)
  <2>1. PcType  BY <1>10, <1>g, <1>l DEF PutSending
  <2>2. remote' \in [Pkg -> [File -> {"none", "part", "full"}]]
    <3>1. CASE UNCHANGED remote  BY <3>1, <1>t
    <3>2. CASE Upload(p, cur[w][p], "full")
      <4> DEFINE row == [remote[p] EXCEPT ![cur[w][p]] = "full"]
      <4>1. row \in [File -> {"none", "part", "full"}]  BY <1>t
      <4>2. remote' = [remote EXCEPT ![p] = row]  BY <3>2 DEF Upload
      <4> HIDE DEF row
      <4> QED BY <4>1, <4>2, <1>t
    <3> QED BY <1>10, <3>1, <3>2 DEF PutSending
  <2>3. faults' \in 0..MaxFaults /\ kills' \in 0..MaxKills  BY <1>10, <1>b DEF PutSending
  <2> QED BY <1>10, <2>1, <2>2, <2>3
    DEF PcType, PutSending, TypeOK, locks, markers, place, cleaner, history
<1>11. CASE PutConfirm(w, p)
  <2>1. PcType  BY <1>11, <1>g, <1>l DEF PutConfirm
  <2>2. cur' \in [Worker -> [Pkg -> File \cup {NoFile}]]  BY <1>11, <1>t DEF PutConfirm
  <2> QED BY <1>11, <2>1, <2>2, <1>r, <1>t DEF PutConfirm
<1>12. CASE PutVerify(w, p)
  <2>1. PcType  BY <1>12, <1>g, <1>l DEF PutVerify
  <2>2. (\E e \in Ended : End(p, e)) \/ UNCHANGED history  BY <1>12, <1>x DEF PutVerify
  <2> QED BY <1>12, <2>1, <2>2, <1>h
    DEF PcType, PutVerify, TypeOK, locks, markers, place, area, cleaner, bounds
<1>13. CASE PutFailed(w, p)
  <2>1. PcType  BY <1>13, <1>g, <1>l DEF PutFailed
  <2>2. \E e \in Ended : End(p, e)  BY <1>13, <1>x DEF PutFailed
  <2>3. faults' \in 0..MaxFaults /\ kills' \in 0..MaxKills  BY <1>13, <1>b DEF PutFailed
  <2>4. error' \subseteq Pkg  BY <1>13 DEF PutFailed, TypeOK
  <2> QED BY <1>13, <2>1, <2>2, <2>3, <2>4, <1>h
    DEF PcType, PutFailed, TypeOK, locks, place, area, cleaner
<1>14. CASE PutCancelled(w, p)
  <2>1. PcType  BY <1>14, <1>g, <1>l DEF PutCancelled
  <2>2. \E e \in Ended : End(p, e)  BY <1>14, <1>x DEF PutCancelled
  <2>3. faults' \in 0..MaxFaults /\ kills' \in 0..MaxKills  BY <1>14, <1>b DEF PutCancelled
  <2>4. cancel' \subseteq Pkg  BY <1>14 DEF PutCancelled, TypeOK
  <2> QED BY <1>14, <2>1, <2>2, <2>3, <2>4, <1>h
    DEF PcType, PutCancelled, TypeOK, locks, place, area, cleaner
<1>15. CASE PutDiscard(w, p)
  <2>1. PcType  BY <1>15, <1>g, <1>l DEF PutDiscard
  <2>2. left' \in [Worker -> [Pkg -> SUBSET File]]  BY <1>15, <1>t DEF PutDiscard
  <2>3. cur' \in [Worker -> [Pkg -> File \cup {NoFile}]]  BY <1>15, <1>t DEF PutDiscard
  <2> QED BY <1>15, <2>1, <2>2, <2>3
    DEF PcType, PutDiscard, TypeOK, markers, place, area, cleaner, bounds
<1>16. CASE PutBreaks(w, p)
  <2>1. PcType  BY <1>16, <1>g, <1>l DEF PutBreaks
  <2> QED BY <1>16, <2>1, <1>r, <1>t DEF PutBreaks
<1> QED BY <1>1, <1>2, <1>3, <1>4, <1>5, <1>6, <1>7, <1>8, <1>9, <1>10, <1>11, <1>12,
           <1>13, <1>14, <1>15, <1>16 DEF PutStep

(* ... and under every step of a cleanup. *)
LEMMA CleanTypeStep ==
  ASSUME SftpAssumption, TypeOK, NEW p \in Pkg, CleanStep(p)
  PROVE  TypeOK'
<1> USE SftpAssumption DEF SftpAssumption, TypeOK, Upload, Fault, CleanGoto, AfterClean,
      thread, locks, markers, place, area, cleaner, bounds, history, CleanLabel
<1>1. CASE CleanList(p)
  <2>1. faults' \in 0..MaxFaults  BY <1>1 DEF CleanList
  <2>2. doomed' \in [Pkg -> SUBSET File]
    <3>1. Arrived(p) \in SUBSET File  BY DEF Arrived
    <3> QED BY <1>1, <3>1 DEF CleanList
  <2> QED BY <1>1, <2>1, <2>2 DEF CleanList
<1>2. ASSUME NEW f \in File, CleanRemove(p, f) PROVE TypeOK'
  <2>1. faults' \in 0..MaxFaults  BY <1>2 DEF CleanRemove
  <2>2. remote' \in [Pkg -> [File -> {"none", "part", "full"}]]
    <3>1. [remote EXCEPT ![p][f] = "none"] \in [Pkg -> [File -> {"none", "part", "full"}]]
      BY EntryTyped
    <3> QED BY <1>2, <3>1 DEF CleanRemove
  <2>3. doomed' \in [Pkg -> SUBSET File]  BY <1>2 DEF CleanRemove
  <2> HIDE DEF Upload
  <2> QED BY <1>2, <2>1, <2>2, <2>3 DEF CleanRemove
<1>3. CASE CleanRmPkg(p)
  BY <1>3 DEF CleanRmPkg
<1>4. CASE CleanRmTop(p)
  BY <1>4 DEF CleanRmTop
<1>5. CASE RollbackMove(p)
  BY <1>5 DEF RollbackMove
<1> HIDE DEF TypeOK
<1> QED BY <1>1, <1>2, <1>3, <1>4, <1>5 DEF CleanStep

(* Every variable keeps its type under every step. *)
LEMMA SftpTypeStep == ASSUME SftpAssumption, TypeOK, [Next]_vars PROVE TypeOK'
<1> USE SftpAssumption DEF SftpAssumption, TypeOK, Goto, thread, locks, markers, place, area,
      cleaner, bounds, history, Label, Early, Sending, Ending, CleanLabel, Told, Asking, Ended, Silent
<1>1. CASE UNCHANGED vars
  BY <1>1 DEF vars
<1>2. ASSUME NEW w \in Worker, NEW p \in Pkg, MoveToSftp(w, p) PROVE TypeOK'
  BY <1>2 DEF MoveToSftp
<1>3. ASSUME NEW p \in Pkg, RequestUploadCancel(p) PROVE TypeOK'
  BY <1>3 DEF RequestUploadCancel
<1>4. ASSUME NEW p \in Pkg, CheckMarker(p) \/ CheckWalk(p) PROVE TypeOK'
  <2>1. told' \in [Pkg -> Told]
    BY <1>4 DEF CheckMarker, CheckWalk
  <2> QED BY <1>4, <2>1 DEF CheckMarker, CheckWalk
<1>5. ASSUME NEW p \in Pkg, PutClose(p) PROVE TypeOK'
  BY <1>5 DEF PutClose
<1>6. ASSUME NEW p \in Pkg, NEW o \in {"cleanup", "rollback"}, CleanBegin(p, o) PROVE TypeOK'
  BY <1>6 DEF CleanBegin
<1>7. ASSUME NEW p \in Pkg, MoveToIngest(p) PROVE TypeOK'
  BY <1>7 DEF MoveToIngest
<1>8. ASSUME NEW w \in Worker, Kill(w) PROVE TypeOK'
  <2>1. kills' \in 0..MaxKills  BY <1>8 DEF Kill
  <2>2. ended' \in [Pkg -> Ended]  BY <1>8 DEF Kill
  <2> QED BY <1>8, <2>1, <2>2 DEF Kill
<1> HIDE DEF TypeOK
<1> QED BY <1>1, <1>2, <1>3, <1>4, <1>5, <1>6, <1>7, <1>8, PutTypeStep, CleanTypeStep DEF Next

(* TypeOK holds in every reachable state of SftpUpload. *)
THEOREM SftpTypeCorrect == ASSUME SftpAssumption PROVE Spec => []TypeOK
<1>1. Init => TypeOK
  <2> SUFFICES ASSUME Init PROVE TypeOK
    OBVIOUS
  <2>1. /\ pc \in [Worker -> [Pkg -> Label]]
        /\ left \in [Worker -> [Pkg -> SUBSET File]]
        /\ cur \in [Worker -> [Pkg -> File \cup {NoFile}]]
        /\ remote \in [Pkg -> [File -> {"none", "part", "full"}]]
    BY DEF Init, Label
  <2>2. faults \in 0..MaxFaults /\ kills \in 0..MaxKills
    BY SftpAssumption DEF SftpAssumption, Init
  <2> QED BY <2>1, <2>2 DEF Init, TypeOK, CleanLabel, Told, Asking, Ended, Silent
<1>2. TypeOK /\ [Next]_vars => TypeOK'
  BY SftpAssumption, SftpTypeStep
<1> QED BY <1>1, <1>2, PTL DEF Spec

-----------------------------------------------------------------------------
(* What makes OneWriter inductive: a put past the lock holds it, and a     *)
(* lock that is only waiting to be closed is held, by no put.              *)
Holds(w, p) == pc[w][p] \in Locked

FlockHeld ==
    \A p \in Pkg :
        /\ \A w \in Worker : Holds(w, p) => flock[p] = w /\ p \notin closing
        /\ p \in closing => flock[p] # NoOne

(* A step that takes no put past the lock and leaves the locks alone.      *)
LEMMA FlockFrame ==
  ASSUME FlockHeld, UNCHANGED <<flock, closing>>,
         \A w \in Worker, p \in Pkg : Holds(w, p)' => Holds(w, p)
  PROVE  FlockHeld'
  BY DEF FlockHeld

(* A put takes the lock only when nobody holds it, and the lock it leaves  *)
(* to be closed is its own.                                                *)
LEMMA FlockStep == ASSUME SftpAssumption, TypeOK, FlockHeld, [Next]_vars PROVE FlockHeld'
<1> USE SftpAssumption DEF Goto, thread, locks, Label, Early, Sending, Ending, Locked
<1>1. CASE UNCHANGED vars
  BY <1>1, FlockFrame DEF vars, Holds
<1>2. ASSUME NEW w \in Worker, NEW p \in Pkg, MoveToSftp(w, p) PROVE FlockHeld'
  BY <1>2, FlockFrame DEF MoveToSftp, Holds, TypeOK
<1>3. ASSUME NEW p \in Pkg, RequestUploadCancel(p) \/ CheckMarker(p) \/ CheckWalk(p) \/ MoveToIngest(p) PROVE FlockHeld'
  BY <1>3, FlockFrame DEF RequestUploadCancel, CheckMarker, CheckWalk, MoveToIngest, Holds
<1>4. ASSUME NEW p \in Pkg, CleanStep(p) PROVE FlockHeld'
  BY <1>4, FlockFrame DEF CleanStep, CleanList, CleanRemove, CleanRmPkg, CleanRmTop,
                          RollbackMove, Holds
<1>5. ASSUME NEW p \in Pkg, NEW o \in {"cleanup", "rollback"}, CleanBegin(p, o) PROVE FlockHeld'
  BY <1>5, FlockFrame DEF CleanBegin, Holds
<1>6. ASSUME NEW p \in Pkg, PutClose(p) PROVE FlockHeld'
  BY <1>6 DEF PutClose, FlockHeld, Holds, TypeOK
<1>7. ASSUME NEW w \in Worker, NEW p \in Pkg, PutLock(w, p) PROVE FlockHeld'
  <2>1. CASE flock[p] = NoOne /\ flock' = [flock EXCEPT ![p] = w] /\ Goto(w, p, "clear")
    <3>1. \A v \in Worker, q \in Pkg :
             pc'[v][q] = IF v = w /\ q = p THEN "clear" ELSE pc[v][q]
      <4> HIDE DEF Goto
      <4> QED BY <2>1, GotoAt
    <3>2. closing' = closing
      BY <1>7 DEF PutLock
    <3> QED BY <2>1, <3>1, <3>2 DEF FlockHeld, Holds, TypeOK, SftpAssumption
  <2>2. CASE UNCHANGED flock /\ Goto(w, p, "none")
    <3>1. \A v \in Worker, q \in Pkg :
             pc'[v][q] = IF v = w /\ q = p THEN "none" ELSE pc[v][q]
      <4> HIDE DEF Goto
      <4> QED BY <2>2, GotoAt
    <3>2. UNCHANGED <<flock, closing>>
      BY <1>7, <2>2 DEF PutLock
    <3> QED BY <3>1, <3>2, FlockFrame DEF Holds
  <2> QED BY <1>7, <2>1, <2>2 DEF PutLock
<1>8. ASSUME NEW w \in Worker, NEW p \in Pkg, PutDiscard(w, p) PROVE FlockHeld'
  BY <1>8 DEF PutDiscard, FlockHeld, Holds, TypeOK, SftpAssumption
<1>9. ASSUME NEW w \in Worker, NEW p \in Pkg, PutStep(w, p), ~PutLock(w, p), ~PutDiscard(w, p)
      PROVE  FlockHeld'
  <2>1. pc[w][p] \in Locked /\ UNCHANGED <<flock, closing>>
    BY <1>9 DEF PutStep, PutClear, PutCheck, PutConnect, PutStat, PutMkTop, PutMkPkg, PutWalk,
                PutSend, PutSending, PutConfirm, PutVerify, PutBreaks, PutFailed, PutCancelled
  <2>2. \E l : Goto(w, p, l)
    BY <1>9 DEF PutStep, PutClear, PutCheck, PutConnect, PutStat, PutMkTop, PutMkPkg, PutWalk,
                PutSend, PutSending, PutConfirm, PutVerify, PutBreaks, PutFailed, PutCancelled
  <2> QED BY <2>1, <2>2, FlockFrame DEF Holds, TypeOK
<1>10. ASSUME NEW w \in Worker, Kill(w) PROVE FlockHeld'
  BY <1>10 DEF Kill, FlockHeld, Holds, TypeOK, SftpAssumption
<1> QED BY <1>1, <1>2, <1>3, <1>4, <1>5, <1>6, <1>7, <1>8, <1>9, <1>10 DEF Next

(* Never two workers write the remote copy of one package, in any number   *)
(* of workers and whatever is killed, restarted, cancelled or cleaned up.  *)
THEOREM SingleWriter == ASSUME SftpAssumption PROVE Spec => []OneWriter
<1>1. Init => FlockHeld
  BY DEF Init, FlockHeld, Holds, Locked, Label, Early, Sending, Ending
<1>2. TypeOK /\ FlockHeld /\ [Next]_vars => FlockHeld'
  BY SftpAssumption, FlockStep
<1>3. FlockHeld => OneWriter
  BY DEF FlockHeld, OneWriter, Holds
<1> QED BY <1>1, <1>2, <1>3, SftpTypeCorrect, SftpAssumption, PTL DEF Spec

-----------------------------------------------------------------------------
(* Files appear only in a directory that is there, directories only under  *)
(* the collection's, and neither is removed before it is empty.            *)
LEMMA TreeStep == ASSUME SftpAssumption, TypeOK, AreaIsTree, [Next]_vars PROVE AreaIsTree'
<1> USE DEF AreaIsTree, Arrived
<1>1. CASE UNCHANGED area
  BY <1>1 DEF area
<1>2. ASSUME NEW w \in Worker, NEW p \in Pkg, PutMkTop(w, p) \/ PutMkPkg(w, p) PROVE AreaIsTree'
  BY <1>2 DEF PutMkTop, PutMkPkg
<1>3. ASSUME NEW w \in Worker, NEW p \in Pkg, NEW f \in File, PutSend(w, p, f) PROVE AreaIsTree'
  <2>1. CASE remote' = remote  BY <1>3, <2>1 DEF PutSend
  <2>2. CASE p \in rdir /\ Upload(p, f, "part")
    <3>1. \A q \in Pkg : q # p => remote'[q] = remote[q]
      BY <2>2 DEF Upload, TypeOK
    <3> QED BY <1>3, <2>2, <3>1 DEF PutSend
  <2> QED BY <1>3, <2>1, <2>2 DEF PutSend
<1>4. ASSUME NEW w \in Worker, NEW p \in Pkg, PutSending(w, p) PROVE AreaIsTree'
  <2>1. CASE remote' = remote  BY <1>4, <2>1 DEF PutSending
  <2>2. CASE Upload(p, cur[w][p], "full") /\ remote[p][cur[w][p]] # "none"
    <3>1. \A q \in Pkg : q # p => remote'[q] = remote[q]
      BY <2>2 DEF Upload, TypeOK
    <3>2. \A f \in File : remote'[p][f] # "none" => remote[p][f] # "none"
      BY <2>2 DEF Upload, TypeOK
    <3> QED BY <1>4, <3>1, <3>2 DEF PutSending
  <2> QED BY <1>4, <2>1, <2>2 DEF PutSending
<1>5. ASSUME NEW p \in Pkg, NEW f \in File, CleanRemove(p, f) PROVE AreaIsTree'
  <2>1. CASE remote' = remote  BY <1>5, <2>1 DEF CleanRemove
  <2>2. CASE Upload(p, f, "none")
    <3>1. \A q \in Pkg, g \in File : remote'[q][g] # "none" => remote[q][g] # "none"
      BY <2>2 DEF Upload, TypeOK
    <3> QED BY <1>5, <3>1 DEF CleanRemove
  <2> QED BY <1>5, <2>1, <2>2 DEF CleanRemove
<1>6. ASSUME NEW p \in Pkg, CleanRmPkg(p) \/ CleanRmTop(p) PROVE AreaIsTree'
  BY <1>6 DEF CleanRmPkg, CleanRmTop
<1>7. ASSUME NEW w \in Worker, NEW p \in Pkg,
             MoveToSftp(w, p) \/ PutStep(w, p), ~PutMkTop(w, p), ~PutMkPkg(w, p),
             ~(\E f \in File : PutSend(w, p, f)), ~PutSending(w, p)
      PROVE  UNCHANGED area
  BY <1>7 DEF MoveToSftp, PutStep, PutLock, PutClear, PutCheck, PutConnect, PutStat, PutWalk,
              PutConfirm, PutVerify, PutBreaks, PutFailed, PutCancelled, PutDiscard
<1>8. ASSUME NEW p \in Pkg,
             \/ RequestUploadCancel(p) \/ CheckMarker(p) \/ CheckWalk(p) \/ PutClose(p) \/ MoveToIngest(p)
             \/ (\E o \in {"cleanup", "rollback"} : CleanBegin(p, o))
             \/ CleanList(p) \/ RollbackMove(p)
      PROVE  UNCHANGED area
  BY <1>8 DEF RequestUploadCancel, CheckMarker, CheckWalk, PutClose, MoveToIngest, CleanBegin, CleanList,
              RollbackMove
<1>9. ASSUME NEW w \in Worker, Kill(w) PROVE UNCHANGED area
  BY <1>9 DEF Kill
<1>10. CASE UNCHANGED vars
  BY <1>1, <1>10 DEF vars
<1> HIDE DEF AreaIsTree
<1> QED BY <1>1, <1>2, <1>3, <1>4, <1>5, <1>6, <1>7, <1>8, <1>9, <1>10
  DEF Next, PutStep, CleanStep

(* However puts and cleanups of the packages of a collection interleave,   *)
(* the remote area stays a tree.                                           *)
THEOREM AreaStaysTree == ASSUME SftpAssumption PROVE Spec => []AreaIsTree
<1>1. Init => AreaIsTree
  BY DEF Init, AreaIsTree, Arrived
<1>2. TypeOK /\ AreaIsTree /\ [Next]_vars => AreaIsTree'
  BY SftpAssumption, TreeStep
<1> QED BY <1>1, <1>2, SftpTypeCorrect, SftpAssumption, PTL DEF Spec

-----------------------------------------------------------------------------
(* Replacing one entry of a table of tables leaves the others.             *)
LEMMA EntryAt ==
  ASSUME NEW S, NEW T, NEW V, NEW t \in [S -> [T -> V]], NEW a \in S, NEW b \in T, NEW v
  PROVE  \A c \in S, d \in T :
             [t EXCEPT ![a][b] = v][c][d] = IF c = a /\ d = b THEN v ELSE t[c][d]
<1> DEFINE row == [t[a] EXCEPT ![b] = v]
<1>1. [t EXCEPT ![a][b] = v] = [t EXCEPT ![a] = row]
  OBVIOUS
<1>2. \A d \in T : row[d] = IF d = b THEN v ELSE t[a][d]
  OBVIOUS
<1> HIDE DEF row
<1> QED BY <1>1, <1>2

OwnRows(w, p) ==
    \A v \in Worker, q \in Pkg : v # w \/ q # p =>
        pc'[v][q] = pc[v][q] /\ left'[v][q] = left[v][q] /\ cur'[v][q] = cur[v][q]

OwnPackage(p) ==
    \A q \in Pkg : q # p =>
        /\ (q \in cancel' <=> q \in cancel) /\ (q \in error' <=> q \in error)
        /\ (q \in asked' <=> q \in asked)
        /\ ended'[q] = ended[q] /\ remote'[q] = remote[q]

Waits(w, p) ==
    /\ pc[w][p] = "lock"
    /\ ended'[p] = ended[p] \/ (ended[p] = "none" /\ ended'[p] = "mute")
    /\ UNCHANGED <<left, cur, markers, remote, asked>>

Takes(w, p) ==
    /\ pc[w][p] = "lock" /\ flock[p] = NoOne /\ pc'[w][p] = "clear"
    /\ UNCHANGED <<left, cur, markers, remote, asked>>

(* A step of a put touches only the rows of its own worker and package, and*)
(* of its package's markers, remote files and history; a put that waits    *)
(* for the lock, bows out or cannot make its lock file touches nothing     *)
(* but its program point, or a history that has no put yet; the lock is    *)
(* taken when nobody holds it.                                             *)
LEMMA PutTouches ==
  ASSUME TypeOK, NEW w \in Worker, NEW p \in Pkg, PutStep(w, p)
  PROVE  /\ OwnRows(w, p) /\ OwnPackage(p)
         /\ Holds(w, p) \/ Waits(w, p) \/ Takes(w, p)
         /\ p \in asked' => p \in asked
         /\ UNCHANGED <<place, cl, kills>>
<1> DEFINE Goal == /\ OwnRows(w, p) /\ OwnPackage(p)
                   /\ Holds(w, p) \/ Waits(w, p) \/ Takes(w, p)
                   /\ p \in asked' => p \in asked
                   /\ UNCHANGED <<place, cl, kills>>
<1>t. /\ pc \in [Worker -> [Pkg -> Label]]
      /\ left \in [Worker -> [Pkg -> SUBSET File]]
      /\ cur \in [Worker -> [Pkg -> File \cup {NoFile}]]
      /\ remote \in [Pkg -> [File -> {"none", "part", "full"}]]
      /\ ended \in [Pkg -> Ended]
  BY DEF TypeOK
<1>l. /\ {"clear", "check", "connect", "stat", "mktop", "mkpkg", "walk", "send", "sending",
           "confirm", "failed", "cancelled", "discard"} \subseteq Locked
  BY DEF Locked, Label, Early, Sending, Ending
<1>p. ASSUME NEW l, Goto(w, p, l)
      PROVE  \A v \in Worker, q \in Pkg : v # w \/ q # p => pc'[v][q] = pc[v][q]
  BY <1>p, GotoAt
<1>q. ASSUME NEW l, Goto(w, p, l) PROVE pc'[w][p] = l
  BY <1>q, GotoAt
<1>f. ASSUME NEW x, left' = [left EXCEPT ![w][p] = x]
      PROVE  \A v \in Worker, q \in Pkg : v # w \/ q # p => left'[v][q] = left[v][q]
  BY <1>f, <1>t, EntryAt
<1>c. ASSUME NEW x, cur' = [cur EXCEPT ![w][p] = x]
      PROVE  \A v \in Worker, q \in Pkg : v # w \/ q # p => cur'[v][q] = cur[v][q]
  BY <1>c, <1>t, EntryAt
<1>u. ASSUME NEW f, NEW s, Upload(p, f, s)
      PROVE  \A q \in Pkg : q # p => remote'[q] = remote[q]
  BY <1>u, <1>t DEF Upload
<1>e. ASSUME NEW x, ended' = [ended EXCEPT ![p] = x]
      PROVE  \A q \in Pkg : q # p => ended'[q] = ended[q]
  BY <1>e, <1>t
<1> USE DEF OwnRows, OwnPackage, Holds
<1>1. CASE PutLock(w, p)
  <2>1. \E l : Goto(w, p, l)  BY <1>1 DEF PutLock
  <2>2. OwnRows(w, p)  BY <1>1, <2>1, <1>p DEF PutLock
  <2>3. \/ ended'[p] = ended[p]
        \/ ended[p] = "none" /\ ended'[p] = "mute"
        \/ flock[p] = NoOne /\ Goto(w, p, "clear")
    BY <1>1, <1>t DEF PutLock, End, history
  <2>4. Waits(w, p) \/ Takes(w, p)
    BY <1>1, <2>3, <1>q DEF PutLock, End, Waits, Takes, markers, area, history
  <2>5. \A q \in Pkg : q # p => ended'[q] = ended[q]
    BY <1>1, <1>e DEF PutLock, End, history
  <2> QED BY <1>1, <2>2, <2>4, <2>5 DEF PutLock, Fault, End, markers, place, area, cleaner, bounds, history
<1>2. CASE PutClear(w, p)
  <2>1. OwnRows(w, p)  BY <1>2, <1>p DEF PutClear
  <2> QED BY <1>2, <2>1, <1>l DEF PutClear, Fault, place, area, cleaner, bounds, history
<1>3. CASE PutCheck(w, p) \/ PutConnect(w, p) \/ PutStat(w, p)
  <2>1. \E l : Goto(w, p, l)
    BY <1>3 DEF PutCheck, PutConnect, PutStat
  <2>2. OwnRows(w, p)
    BY <1>3, <2>1, <1>p DEF PutCheck, PutConnect, PutStat
  <2> QED BY <1>3, <2>2, <1>l
          DEF PutCheck, PutConnect, PutStat, Fault, markers, place, area, cleaner, bounds, history
<1>4. CASE PutMkTop(w, p) \/ PutMkPkg(w, p)
  <2>1. \E l : Goto(w, p, l)
    BY <1>4 DEF PutMkTop, PutMkPkg
  <2>2. OwnRows(w, p)
    BY <1>4, <2>1, <1>p DEF PutMkTop, PutMkPkg
  <2> QED BY <1>4, <2>2, <1>l
          DEF PutMkTop, PutMkPkg, markers, place, cleaner, bounds, history
<1>5. CASE PutWalk(w, p)
  BY <1>5, <1>p, <1>f, <1>l DEF PutWalk, markers, place, area, cleaner, bounds, history
<1>6. ASSUME NEW f \in File, PutSend(w, p, f) PROVE Goal
  <2>1. OwnRows(w, p)
    <3>1. CASE Goto(w, p, "sending") /\ left' = [left EXCEPT ![w][p] = @ \ {f}]
               /\ cur' = [cur EXCEPT ![w][p] = f]
      BY <3>1, <1>p, <1>f, <1>c
    <3>2. CASE (Goto(w, p, "cancelled") \/ Goto(w, p, "failed")) /\ UNCHANGED <<left, cur>>
      BY <3>2, <1>p
    <3> QED BY <1>6, <3>1, <3>2 DEF PutSend
  <2>2. \A q \in Pkg : q # p => remote'[q] = remote[q]
    BY <1>6, <1>u DEF PutSend
  <2> QED BY <1>6, <2>1, <2>2, <1>l DEF PutSend, markers, place, cleaner, bounds, history
<1>7. CASE PutSending(w, p)
  <2>1. \E l : Goto(w, p, l)
    BY <1>7 DEF PutSending
  <2>2. OwnRows(w, p)
    BY <1>7, <2>1, <1>p DEF PutSending
  <2>3. \A q \in Pkg : q # p => remote'[q] = remote[q]
    BY <1>7, <1>u DEF PutSending
  <2> QED BY <1>7, <2>2, <2>3, <1>l
          DEF PutSending, Fault, markers, place, cleaner, bounds, history
<1>8. CASE PutConfirm(w, p)
  BY <1>8, <1>p, <1>c, <1>l DEF PutConfirm, markers, place, area, cleaner, bounds, history
<1>9. CASE PutVerify(w, p)
  <2>1. \E l : Goto(w, p, l)
    BY <1>9 DEF PutVerify
  <2>2. OwnRows(w, p)
    BY <1>9, <2>1, <1>p DEF PutVerify
  <2>3. \A q \in Pkg : q # p => ended'[q] = ended[q]
    BY <1>9, <1>e DEF PutVerify, End, history
  <2> QED BY <1>9, <2>2, <2>3, <1>l DEF PutVerify, End, markers, place, area, cleaner, bounds, history
<1>10. CASE PutFailed(w, p) \/ PutCancelled(w, p)
  <2>1. Goto(w, p, "discard")
    BY <1>10 DEF PutFailed, PutCancelled
  <2>2. OwnRows(w, p)
    BY <1>10, <2>1, <1>p DEF PutFailed, PutCancelled
  <2>3. \A q \in Pkg : q # p => ended'[q] = ended[q]
    BY <1>10, <1>e DEF PutFailed, PutCancelled, End
  <2> QED BY <1>10, <2>2, <2>3, <1>l
          DEF PutFailed, PutCancelled, End, Fault, place, area, cleaner, bounds
<1>11. CASE PutDiscard(w, p)
  <2>1. OwnRows(w, p)
    BY <1>11, <1>p, <1>f, <1>c DEF PutDiscard
  <2> QED BY <1>11, <2>1, <1>l DEF PutDiscard, markers, place, area, cleaner, bounds
<1>12. CASE PutBreaks(w, p)
  <2>1. OwnRows(w, p)  BY <1>12, <1>p DEF PutBreaks
  <2>2. pc[w][p] \in Locked  BY <1>12, <1>l DEF PutBreaks, Sending
  <2> QED BY <1>12, <2>1, <2>2
          DEF PutBreaks, Fault, markers, place, area, cleaner, history
<1> HIDE DEF OwnRows, OwnPackage, Holds
<1> QED BY <1>1, <1>2, <1>3, <1>4, <1>5, <1>6, <1>7, <1>8, <1>9, <1>10, <1>11, <1>12 DEF PutStep

-----------------------------------------------------------------------------
(* A running thread is in its worker's registry, so that a start finds     *)
(* none to overwrite (the converse is what the registry does not keep).    *)
Registered == \A w \in Worker, p \in Pkg : pc[w][p] # "none" => p \in inflight[w]

(* Every step keeps that. *)
LEMMA RegisteredStep == ASSUME TypeOK, Registered, [Next]_vars PROVE Registered'
<1> USE DEF thread, locks
<1>1. ASSUME NEW w \in Worker, NEW p \in Pkg, MoveToSftp(w, p) PROVE Registered'
  <2>1. OwnRows(w, p) /\ inflight' = [inflight EXCEPT ![w] = @ \cup {p}]
    BY <1>1, GotoAt DEF MoveToSftp, OwnRows, Label, Early
  <2> QED BY <2>1 DEF Registered, OwnRows, TypeOK
<1>2. ASSUME NEW w \in Worker, NEW p \in Pkg, PutDiscard(w, p) PROVE Registered'
  <2>1. \A v \in Worker, q \in Pkg : pc'[v][q] = IF v = w /\ q = p THEN "none" ELSE pc[v][q]
    BY <1>2, GotoAt DEF PutDiscard, Label
  <2> QED BY <1>2, <2>1 DEF PutDiscard, Registered, TypeOK
<1>3. ASSUME NEW w \in Worker, NEW p \in Pkg, PutStep(w, p), ~PutDiscard(w, p)
      PROVE  Registered'
  <2>1. inflight' = inflight
    BY <1>3 DEF PutStep, PutLock, PutClear, PutCheck, PutConnect, PutStat, PutMkTop, PutMkPkg,
                PutWalk, PutSend, PutSending, PutConfirm, PutVerify, PutBreaks, PutFailed, PutCancelled
  <2>2. OwnRows(w, p) /\ pc[w][p] # "none"
    BY <1>3, PutTouches DEF Holds, Waits, Takes, Locked
  <2> QED BY <2>1, <2>2 DEF Registered, OwnRows
<1>4. ASSUME NEW p \in Pkg,
             \/ RequestUploadCancel(p) \/ CheckMarker(p) \/ CheckWalk(p) \/ PutClose(p) \/ MoveToIngest(p)
             \/ CleanStep(p) \/ \E o \in {"cleanup", "rollback"} : CleanBegin(p, o)
      PROVE  Registered'
  BY <1>4 DEF RequestUploadCancel, CheckMarker, CheckWalk, PutClose, MoveToIngest, CleanBegin, CleanStep,
              CleanList, CleanRemove, CleanRmPkg, CleanRmTop, RollbackMove, Registered
<1>5. ASSUME NEW w \in Worker, Kill(w) PROVE Registered'
  BY <1>5 DEF Kill, Registered, TypeOK
<1>6. CASE UNCHANGED vars
  BY <1>6 DEF vars, Registered
<1> QED BY <1>1, <1>2, <1>3, <1>4, <1>5, <1>6 DEF Next

-----------------------------------------------------------------------------
(* Cancellation.  Files are left only to a put that goes on to send them,  *)
(* or that has given up.  One that is asked to stop either still has the   *)
(* flag before it and files to check it at, or has given up.               *)
Filing == {"stat", "mktop", "mkpkg", "send", "sending", "confirm"}

GaveUp(w, p) ==
    \/ pc[w][p] \in {"failed", "cancelled"}
    \/ pc[w][p] = "discard" /\ ended[p] \in {"failed", "cancelled", "mute"}

Stopping(w, p) ==
    \/ pc[w][p] \in Filing /\ left[w][p] # {} /\ p \in cancel
    \/ GaveUp(w, p)

LeftFiles ==
    \A w \in Worker, p \in Pkg :
        left[w][p] # {} => pc[w][p] \in Filing \/ GaveUp(w, p)

AskedStops == \A p \in asked : \E w \in Worker : Stopping(w, p)

LEMMA StoppingHolds ==
  ASSUME NEW w \in Worker, NEW p \in Pkg, pc[w][p] \in Filing \/ GaveUp(w, p)
  PROVE  Holds(w, p)
  BY DEF GaveUp, Holds, Filing, Locked, Label, Sending, Ending

(* The put itself: each of its steps keeps what is said of it ...          *)
LEMMA OwnStopping ==
  ASSUME TypeOK, LeftFiles, NEW w \in Worker, NEW p \in Pkg, PutStep(w, p)
  PROVE  /\ left'[w][p] # {} => pc'[w][p] \in Filing \/ GaveUp(w, p)'
         /\ Stopping(w, p) /\ p \in asked' => Stopping(w, p)'
<1> DEFINE Goal == /\ left'[w][p] # {} => pc'[w][p] \in Filing \/ GaveUp(w, p)'
                   /\ Stopping(w, p) /\ p \in asked' => Stopping(w, p)'
<1>t. /\ pc \in [Worker -> [Pkg -> Label]]
      /\ left \in [Worker -> [Pkg -> SUBSET File]]
      /\ ended \in [Pkg -> Ended]
      /\ left[w][p] # {} => pc[w][p] \in Filing \/ GaveUp(w, p)
  BY DEF TypeOK, LeftFiles
<1>p. ASSUME NEW l, Goto(w, p, l) PROVE pc'[w][p] = l
  BY <1>p, GotoAt
<1>s. ASSUME NEW l \in Filing \cup {"failed"}, Goto(w, p, l), pc[w][p] \in Filing,
             UNCHANGED <<left, cancel>>
      PROVE  Goal
  BY <1>s, <1>p DEF Stopping, GaveUp, Filing
<1> USE DEF Stopping, GaveUp, Filing, markers, history, End
<1>1. CASE PutLock(w, p) \/ PutClear(w, p) \/ PutCheck(w, p) \/ PutConnect(w, p)
  BY <1>1, <1>t, <1>p DEF PutLock, PutClear, PutCheck, PutConnect
<1>2. CASE PutStat(w, p)
  <2>1. CASE left[w][p] = {}
    BY <1>2, <2>1, <1>p DEF PutStat
  <2>2. CASE left[w][p] # {}
    BY <1>2, <2>2, <1>p DEF PutStat, Made
  <2> QED BY <2>1, <2>2
<1>3. CASE PutMkTop(w, p)
  BY <1>3, <1>p DEF PutMkTop
<1>4. CASE PutMkPkg(w, p)
  <2>1. CASE left[w][p] = {}
    BY <1>4, <2>1, <1>p DEF PutMkPkg
  <2>2. CASE left[w][p] # {}
    BY <1>4, <2>2, <1>p DEF PutMkPkg, Made
  <2> QED BY <2>1, <2>2
<1>5. CASE PutWalk(w, p)
  BY <1>5, <1>t, <1>p DEF PutWalk
<1>6. ASSUME NEW f \in File, PutSend(w, p, f) PROVE Goal
  <2>1. CASE p \in cancel
    BY <1>6, <2>1, <1>p DEF PutSend
  <2>2. CASE p \notin cancel
    BY <1>6, <2>2, <1>p DEF PutSend
  <2> QED BY <2>1, <2>2
<1>7. CASE PutSending(w, p)
  BY <1>7, <1>p DEF PutSending
<1>8. CASE PutConfirm(w, p)
  BY <1>8, <1>p DEF PutConfirm
<1>9. CASE PutVerify(w, p)
  BY <1>9, <1>p DEF PutVerify
<1>10. CASE PutFailed(w, p) \/ PutCancelled(w, p)
  BY <1>10, <1>t, <1>p DEF PutFailed, PutCancelled
<1>11. CASE PutDiscard(w, p)
  <2>1. left'[w][p] = {} /\ p \notin asked'
    BY <1>11, <1>t, EntryAt DEF PutDiscard
  <2> QED BY <2>1
<1>12. CASE PutBreaks(w, p)
  BY <1>12, <1>p DEF PutBreaks
<1> HIDE DEF Stopping, GaveUp, Filing, markers, history, End
<1> QED BY <1>1, <1>2, <1>3, <1>4, <1>5, <1>6, <1>7, <1>8, <1>9, <1>10, <1>11, <1>12 DEF PutStep

(* ... and no other put reaches it: those that wait change nothing, and no *)
(* other is past the lock.                                                 *)
LEMMA PutStoppingStep ==
  ASSUME SftpAssumption, TypeOK, FlockHeld, LeftFiles, AskedStops,
         NEW w \in Worker, NEW p \in Pkg, PutStep(w, p)
  PROVE  LeftFiles' /\ AskedStops'
<1>1. /\ OwnRows(w, p) /\ OwnPackage(p)
      /\ Holds(w, p) \/ Waits(w, p) \/ Takes(w, p)
      /\ p \in asked' => p \in asked
  BY PutTouches
<1>2. asked' \subseteq asked
  <2>1. \A q \in asked' : q \in Pkg
    BY SftpAssumption, PutTypeStep DEF TypeOK
  <2> QED BY <1>1, <2>1 DEF OwnPackage
<1>3. /\ left'[w][p] # {} => pc'[w][p] \in Filing \/ GaveUp(w, p)'
      /\ Stopping(w, p) /\ p \in asked' => Stopping(w, p)'
  BY OwnStopping
<1>4. ASSUME NEW v \in Worker, v # w, Holds(v, p) PROVE Waits(w, p)
  BY <1>1, <1>4, SftpAssumption DEF FlockHeld, Takes, SftpAssumption
<1>5. ASSUME NEW v \in Worker, NEW q \in Pkg, v # w \/ q # p, Stopping(v, q) \/ left[v][q] # {}
      PROVE  /\ Stopping(v, q) => Stopping(v, q)'
             /\ left'[v][q] # {} => pc'[v][q] \in Filing \/ GaveUp(v, q)'
  <2>1. pc'[v][q] = pc[v][q] /\ left'[v][q] = left[v][q]
    BY <1>1, <1>5 DEF OwnRows
  <2>2. /\ ended'[q] = ended[q] \/ (ended[q] = "none" /\ ended'[q] = "mute")
        /\ (q \in cancel' <=> q \in cancel)
    <3>1. CASE q # p  BY <1>1, <3>1 DEF OwnPackage
    <3>2. CASE q = p
      <4>1. Holds(v, q)
        BY <1>5, StoppingHolds DEF Stopping, LeftFiles
      <4> QED BY <1>4, <1>5, <3>2, <4>1 DEF Waits, markers
    <3> QED BY <3>1, <3>2
  <2> QED BY <1>5, <2>1, <2>2 DEF Stopping, LeftFiles, GaveUp
<1>6. LeftFiles'
  <2> SUFFICES ASSUME NEW v \in Worker, NEW q \in Pkg, left'[v][q] # {}
               PROVE  pc'[v][q] \in Filing \/ GaveUp(v, q)'
    BY DEF LeftFiles
  <2> QED BY <1>1, <1>3, <1>5 DEF OwnRows
<1>7. AskedStops'
  <2> SUFFICES ASSUME NEW q \in asked' PROVE \E v \in Worker : Stopping(v, q)'
    BY DEF AskedStops
  <2>1. q \in asked /\ q \in Pkg
    BY <1>2 DEF TypeOK
  <2>2. PICK v \in Worker : Stopping(v, q)
    BY <2>1 DEF AskedStops
  <2> QED BY <2>1, <2>2, <1>3, <1>5
<1> QED BY <1>6, <1>7

(* A request to stop finds the put with files left, and a killed worker    *)
(* takes only its own puts with it.                                        *)
LEMMA StoppingStep ==
  ASSUME SftpAssumption, TypeOK, FlockHeld, Registered, LeftFiles, AskedStops, [Next]_vars
  PROVE  LeftFiles' /\ AskedStops'
<1>a. asked \subseteq Pkg
  BY DEF TypeOK
<1> USE DEF thread, locks, markers, history
<1>1. ASSUME NEW w \in Worker, NEW p \in Pkg, MoveToSftp(w, p)
      PROVE  LeftFiles' /\ AskedStops'
  <2>1. \A v \in Worker, q \in Pkg : pc'[v][q] = IF v = w /\ q = p THEN "lock" ELSE pc[v][q]
    BY <1>1, GotoAt DEF MoveToSftp, Label, Early
  <2>2. pc[w][p] = "none" /\ UNCHANGED <<left, cancel, ended, asked>>
    BY <1>1 DEF MoveToSftp, Registered
  <2> QED BY <1>a, <2>1, <2>2 DEF LeftFiles, AskedStops, Stopping, GaveUp, Filing
<1>2. ASSUME NEW p \in Pkg, RequestUploadCancel(p)
      PROVE  LeftFiles' /\ AskedStops'
  <2>1. /\ UNCHANGED <<pc, left, ended>> /\ cancel' = cancel \cup {p}
        /\ \A q \in asked' : q \in asked \/ (q = p /\ \E w \in Worker : left[w][p] # {})
    BY <1>2 DEF RequestUploadCancel
  <2>2. LeftFiles'
    BY <2>1 DEF LeftFiles, GaveUp
  <2>3. AskedStops'
    BY <1>a, <2>1 DEF LeftFiles, AskedStops, Stopping, GaveUp
  <2> QED BY <2>2, <2>3
<1>3. ASSUME NEW w \in Worker, NEW p \in Pkg, PutStep(w, p)
      PROVE  LeftFiles' /\ AskedStops'
  BY <1>3, PutStoppingStep
<1>4. ASSUME NEW p \in Pkg,
             \/ CheckMarker(p) \/ CheckWalk(p) \/ PutClose(p) \/ MoveToIngest(p) \/ CleanStep(p)
             \/ \E o \in {"cleanup", "rollback"} : CleanBegin(p, o)
      PROVE  UNCHANGED <<pc, left, cancel, ended, asked>>
  BY <1>4 DEF CheckMarker, CheckWalk, PutClose, MoveToIngest, CleanBegin, CleanStep, CleanList, CleanRemove,
              CleanRmPkg, CleanRmTop, RollbackMove
<1>5. ASSUME UNCHANGED <<pc, left, cancel, ended, asked>>
      PROVE  LeftFiles' /\ AskedStops'
  BY <1>5 DEF LeftFiles, AskedStops, Stopping, GaveUp
<1>6. ASSUME NEW w \in Worker, Kill(w)
      PROVE  LeftFiles' /\ AskedStops'
  <2>1. \A q \in Pkg : /\ pc'[w][q] = "none" /\ left'[w][q] = {}
                       /\ \A v \in Worker : v # w => pc'[v][q] = pc[v][q] /\ left'[v][q] = left[v][q]
                       /\ ~Holds(w, q) => ended'[q] = ended[q]
                       /\ q \in asked' => q \in asked /\ ~Holds(w, q)
    BY <1>6 DEF Kill, Holds, TypeOK
  <2>2. cancel' = cancel /\ asked' \subseteq Pkg
    BY <1>6, <1>a DEF Kill
  <2>3. ASSUME NEW v \in Worker, NEW q \in Pkg, v # w, Holds(v, q) PROVE ended'[q] = ended[q]
    BY <2>1, <2>3 DEF FlockHeld
  <2>4. LeftFiles'
    <3> SUFFICES ASSUME NEW v \in Worker, NEW q \in Pkg, left'[v][q] # {}
                 PROVE  pc'[v][q] \in Filing \/ GaveUp(v, q)'
      BY DEF LeftFiles
    <3>1. v # w /\ left[v][q] # {} /\ pc'[v][q] = pc[v][q]
      BY <2>1
    <3>2. pc[v][q] \in Filing \/ GaveUp(v, q)
      BY <3>1 DEF LeftFiles
    <3> QED BY <3>1, <3>2, <2>3, StoppingHolds DEF GaveUp
  <2>5. AskedStops'
    <3> SUFFICES ASSUME NEW q \in asked' PROVE \E v \in Worker : Stopping(v, q)'
      BY DEF AskedStops
    <3>1. q \in Pkg /\ q \in asked /\ ~Holds(w, q)
      BY <2>1, <2>2
    <3>2. PICK v \in Worker : Stopping(v, q)
      BY <3>1 DEF AskedStops
    <3>3. v # w
      BY <3>1, <3>2, StoppingHolds DEF Stopping
    <3> QED BY <3>1, <3>2, <3>3, <2>1, <2>2 DEF Stopping, GaveUp
  <2> QED BY <2>4, <2>5
<1>7. CASE UNCHANGED vars
  BY <1>5, <1>7 DEF vars
<1> QED BY <1>1, <1>2, <1>3, <1>4, <1>5, <1>6, <1>7 DEF Next

(* A put that is asked to stop while it has files to send never finishes,  *)
(* whoever else starts, bows out or dies, and although any worker may have *)
(* taken the request.                                                      *)
THEOREM CancelReaches == ASSUME SftpAssumption PROVE Spec => []CancelStops
<1>1. Init => FlockHeld /\ Registered /\ LeftFiles /\ AskedStops
  BY DEF Init, FlockHeld, Holds, Locked, Label, Early, Sending, Ending, Registered, LeftFiles,
         AskedStops
<1>2. TypeOK /\ FlockHeld /\ Registered /\ LeftFiles /\ AskedStops /\ [Next]_vars
        => FlockHeld' /\ Registered' /\ LeftFiles' /\ AskedStops'
  BY SftpAssumption, FlockStep, RegisteredStep, StoppingStep
<1>3. TypeOK /\ FlockHeld /\ AskedStops => CancelStops
  <2> SUFFICES ASSUME TypeOK, FlockHeld, AskedStops,
                      NEW p \in asked, NEW w \in Worker, pc[w][p] = "discard", ended[p] = "sent"
               PROVE  FALSE
    BY DEF CancelStops
  <2>1. PICK v \in Worker : Stopping(v, p)
    BY DEF AskedStops
  <2>2. p \in Pkg
    BY DEF TypeOK
  <2>3. Holds(v, p) /\ Holds(w, p)
    BY <2>1, <2>2, StoppingHolds DEF Stopping, Holds, Locked, Label, Ending
  <2>4. v = w
    BY <2>2, <2>3 DEF FlockHeld
  <2> QED BY <2>1, <2>4 DEF Stopping, GaveUp, Filing
<1> QED BY <1>1, <1>2, <1>3, SftpTypeCorrect, SftpAssumption, PTL DEF Spec

-----------------------------------------------------------------------------
(* Outcomes, without cleanups.  The package stays in 002-ingest/<pid>.     *)
Undisturbed == local = Pkg /\ staging = TRUE /\ \A p \in Pkg : cl[p] = "none"

(* The disks tell how the last put of the package ended.                   *)
Settled(p) ==
    /\ ended[p] # "running"
    /\ ended[p] = "none" => Arrived(p) = {}
    /\ ended[p] = "sent" => Sent(p)
    /\ ended[p] = "failed" => p \in error

(* They do, or a put is at work whose end will tell.                       *)
Accounted(p) == Settled(p) \/ \E w \in Worker : pc[w][p] \in Locked \ {"discard"}

(* A put has sent all files but those it has left and the one in hand.     *)
SentSoFar(w, p) ==
    /\ pc[w][p] \in {"stat", "mktop", "mkpkg"} => left[w][p] \in {{}, File}
    /\ pc[w][p] = "send" => \A f \in File \ left[w][p] : remote[p][f] = "full"
    /\ pc[w][p] \in {"sending", "confirm"} =>
          \A f \in File \ left[w][p] : f = cur[w][p] \/ remote[p][f] = "full"

OutcomeInv ==
    /\ Undisturbed
    /\ \A p \in Pkg : Accounted(p) /\ \A w \in Worker : SentSoFar(w, p)

(* The put itself counts its files right ...                               *)
LEMMA OwnSent ==
  ASSUME TypeOK, Undisturbed, LeftFiles, NEW w \in Worker, NEW p \in Pkg, SentSoFar(w, p),
         PutStep(w, p)
  PROVE  SentSoFar(w, p)'
<1>t. /\ pc \in [Worker -> [Pkg -> Label]]
      /\ left \in [Worker -> [Pkg -> SUBSET File]]
      /\ cur \in [Worker -> [Pkg -> File \cup {NoFile}]]
      /\ remote \in [Pkg -> [File -> {"none", "part", "full"}]]
  BY DEF TypeOK
<1>p. ASSUME NEW l, Goto(w, p, l) PROVE pc'[w][p] = l
  BY <1>p, GotoAt
<1>f. ASSUME NEW x, left' = [left EXCEPT ![w][p] = x] PROVE left'[w][p] = x
  BY <1>f, <1>t, EntryAt
<1>c. ASSUME NEW x, cur' = [cur EXCEPT ![w][p] = x] PROVE cur'[w][p] = x
  BY <1>c, <1>t, EntryAt
<1>u. ASSUME NEW f, NEW x, Upload(p, f, x)
      PROVE  \A g \in File : remote'[p][g] = IF g = f THEN x ELSE remote[p][g]
  <2> DEFINE row == [remote[p] EXCEPT ![f] = x]
  <2>1. remote' = [remote EXCEPT ![p] = row]
    BY <1>u DEF Upload
  <2>2. \A g \in File : row[g] = IF g = f THEN x ELSE remote[p][g]
    BY <1>t
  <2> HIDE DEF row
  <2> QED BY <2>1, <2>2, <1>t
<1>e. pc[w][p] = "connect" => left[w][p] = {}
  BY DEF LeftFiles, GaveUp, Filing
<1>n. (\E l \in {"none", "clear", "check", "connect", "walk", "failed", "cancelled", "discard"} :
          pc'[w][p] = l) => SentSoFar(w, p)'
  BY DEF SentSoFar
<1>1. CASE PutLock(w, p) \/ PutClear(w, p) \/ PutCheck(w, p)
  BY <1>1, <1>n, <1>p DEF PutLock, PutClear, PutCheck
<1>2. CASE PutConnect(w, p)
  BY <1>2, <1>n, <1>p, <1>e DEF PutConnect, SentSoFar
<1>3. CASE PutStat(w, p)
  <2>1. CASE left[w][p] = {}
    BY <1>3, <2>1, <1>n, <1>p DEF PutStat, Made, SentSoFar
  <2>2. CASE left[w][p] = File
    BY <1>3, <2>2, <1>n, <1>p DEF PutStat, Made, SentSoFar
  <2> QED BY <1>3, <2>1, <2>2 DEF PutStat, SentSoFar
<1>4. CASE PutMkTop(w, p)
  BY <1>4, <1>n, <1>p DEF PutMkTop, SentSoFar
<1>5. CASE PutMkPkg(w, p)
  <2>1. CASE left[w][p] = {}
    BY <1>5, <2>1, <1>n, <1>p DEF PutMkPkg, Made
  <2>2. CASE left[w][p] = File
    BY <1>5, <2>2, <1>n, <1>p DEF PutMkPkg, Made, SentSoFar
  <2> QED BY <1>5, <2>1, <2>2 DEF PutMkPkg, SentSoFar
<1>6. CASE PutWalk(w, p)
  BY <1>6, <1>p, <1>f DEF PutWalk, Undisturbed, SentSoFar
<1>7. ASSUME NEW f \in File, PutSend(w, p, f) PROVE SentSoFar(w, p)'
  <2>1. CASE /\ Upload(p, f, "part") /\ left' = [left EXCEPT ![w][p] = @ \ {f}]
             /\ cur' = [cur EXCEPT ![w][p] = f] /\ Goto(w, p, "sending")
    <3>1. left'[w][p] = left[w][p] \ {f} /\ cur'[w][p] = f /\ pc'[w][p] = "sending"
      BY <2>1, <1>f, <1>c, <1>p
    <3> QED BY <1>7, <2>1, <3>1, <1>u DEF PutSend, SentSoFar
  <2>2. CASE Goto(w, p, "cancelled") \/ Goto(w, p, "failed")
    BY <2>2, <1>n, <1>p
  <2> QED BY <1>7, <2>1, <2>2 DEF PutSend
<1>8. CASE PutSending(w, p)
  <2>1. CASE Goto(w, p, "confirm")
    <3>1. pc'[w][p] = "confirm" /\ UNCHANGED <<left, cur>>
      BY <1>8, <2>1, <1>p DEF PutSending
    <3>2. \A g \in File : remote[p][g] = "full" => remote'[p][g] = "full"
      <4>1. remote' = remote \/ Upload(p, cur[w][p], "full")
        BY <1>8 DEF PutSending
      <4> QED BY <4>1, <1>u
    <3> QED BY <1>8, <3>1, <3>2 DEF PutSending, SentSoFar
  <2>2. CASE Goto(w, p, "cancelled") \/ Goto(w, p, "failed")
    BY <2>2, <1>n, <1>p
  <2> QED BY <1>8, <2>1, <2>2 DEF PutSending
<1>9. CASE PutConfirm(w, p)
  <2>1. CASE Goto(w, p, "send") /\ remote[p][cur[w][p]] = "full"
    BY <1>9, <2>1, <1>p DEF PutConfirm, SentSoFar, area
  <2>2. CASE Goto(w, p, "failed")
    BY <2>2, <1>n, <1>p
  <2> QED BY <1>9, <2>1, <2>2 DEF PutConfirm
<1>10. CASE \/ PutVerify(w, p) \/ PutBreaks(w, p) \/ PutFailed(w, p) \/ PutCancelled(w, p)
            \/ PutDiscard(w, p)
  BY <1>10, <1>n, <1>p DEF PutVerify, PutBreaks, PutFailed, PutCancelled, PutDiscard
<1> QED BY <1>1, <1>2, <1>3, <1>4, <1>5, <1>6, <1>7, <1>8, <1>9, <1>10 DEF PutStep

(* ... and comes to its end only with an outcome that can be told.         *)
LEMMA OwnSettled ==
  ASSUME TypeOK, Undisturbed, NEW w \in Worker, NEW p \in Pkg, SentSoFar(w, p),
         PutStep(w, p), pc[w][p] \notin {"lock", "discard"}
  PROVE  pc'[w][p] \in Locked \ {"discard"} \/ Settled(p)'
<1>p. ASSUME NEW l, Goto(w, p, l) PROVE pc'[w][p] = l
  BY <1>p, GotoAt
<1>l. {"check", "connect", "stat", "mktop", "mkpkg", "walk", "send", "sending", "confirm",
       "failed", "cancelled"} \subseteq Locked \ {"discard"}
  BY DEF Locked, Label, Early, Sending, Ending
<1>1. CASE PutClear(w, p) \/ PutCheck(w, p) \/ PutConnect(w, p) \/ PutMkTop(w, p) \/ PutBreaks(w, p)
  BY <1>1, <1>p, <1>l DEF PutClear, PutCheck, PutConnect, PutMkTop, PutBreaks
<1>2. CASE PutStat(w, p) \/ PutMkPkg(w, p)
  BY <1>2, <1>p, <1>l DEF PutStat, PutMkPkg, Made
<1>3. CASE PutWalk(w, p) \/ \E f \in File : PutSend(w, p, f)
  BY <1>3, <1>p, <1>l DEF PutWalk, PutSend
<1>4. CASE PutSending(w, p) \/ PutConfirm(w, p)
  BY <1>4, <1>p, <1>l DEF PutSending, PutConfirm
<1>5. CASE PutVerify(w, p)
  <2>1. CASE Goto(w, p, "failed")
    BY <2>1, <1>p, <1>l
  <2>2. CASE End(p, "sent")
    <3>1. ended'[p] = "sent"
      BY <2>2 DEF End, TypeOK
    <3>2. Sent(p) /\ UNCHANGED remote
      BY <1>5 DEF PutVerify, SentSoFar, Sent, area
    <3> QED BY <3>1, <3>2 DEF Settled, Sent
  <2> QED BY <1>5, <2>1, <2>2 DEF PutVerify
<1>6. CASE PutFailed(w, p)
  <2>1. (ended'[p] = "failed" /\ p \in error') \/ ended'[p] = "mute"
    BY <1>6 DEF PutFailed, End, TypeOK
  <2> QED BY <2>1 DEF Settled
<1>7. CASE PutCancelled(w, p)
  <2>1. ended'[p] = "cancelled"
    BY <1>7 DEF PutCancelled, End, TypeOK
  <2> QED BY <2>1 DEF Settled
<1>8. ~PutLock(w, p) /\ ~PutDiscard(w, p)
  BY DEF PutLock, PutDiscard
<1> QED BY <1>1, <1>2, <1>3, <1>4, <1>5, <1>6, <1>7, <1>8 DEF PutStep

(* A step of a put keeps every package accounted for: its own by the two   *)
(* lemmas above, since no other put of it is past the lock, and the rest   *)
(* because it leaves them alone.                                           *)
LEMMA PutAccounts ==
  ASSUME SftpAssumption, TypeOK, FlockHeld, LeftFiles, Undisturbed,
         \A q \in Pkg : Accounted(q) /\ \A v \in Worker : SentSoFar(v, q),
         NEW w \in Worker, NEW p \in Pkg, PutStep(w, p)
  PROVE  \A q \in Pkg : Accounted(q)' /\ \A v \in Worker : SentSoFar(v, q)'
<1>1. /\ OwnRows(w, p) /\ OwnPackage(p)
      /\ Holds(w, p) \/ Waits(w, p) \/ Takes(w, p)
  BY PutTouches
<1>2. ASSUME NEW v \in Worker, v # w, Holds(v, p) PROVE Waits(w, p)
  BY <1>1, <1>2, SftpAssumption DEF FlockHeld, Takes, SftpAssumption
<1>3. ASSUME NEW q \in Pkg, q # p PROVE Accounted(q)' /\ \A v \in Worker : SentSoFar(v, q)'
  BY <1>1, <1>3 DEF OwnRows, OwnPackage, Accounted, Settled, SentSoFar, Sent, Arrived
<1>4. ASSUME NEW v \in Worker PROVE SentSoFar(v, p)'
  <2>1. CASE v = w  BY <2>1, OwnSent
  <2>2. CASE v # w
    <3>1. pc'[v][p] = pc[v][p] /\ left'[v][p] = left[v][p] /\ cur'[v][p] = cur[v][p]
      BY <1>1, <2>2 DEF OwnRows
    <3>2. CASE Holds(v, p)
      BY <3>1, <3>2, <2>2, <1>2 DEF Waits, SentSoFar
    <3>3. CASE ~Holds(v, p)
      BY <3>1, <3>3 DEF SentSoFar, Holds, Locked, Label, Sending
    <3> QED BY <3>2, <3>3
  <2> QED BY <2>1, <2>2
<1>5. Accounted(p)'
  <2>1. CASE pc[w][p] = "lock"
    <3>1. Waits(w, p) \/ pc'[w][p] = "clear"
      BY <1>1, <2>1 DEF Holds, Takes, Locked
    <3>2. CASE Settled(p) /\ Waits(w, p)
      BY <3>2 DEF Waits, Accounted, Settled, Sent, Arrived, markers
    <3>4. CASE pc'[w][p] = "clear"
      BY <3>4 DEF Accounted, Locked, Label, Early
    <3>3. CASE \E v \in Worker : pc[v][p] \in Locked \ {"discard"}
      <4>1. PICK v \in Worker : pc[v][p] \in Locked \ {"discard"}
        BY <3>3
      <4>2. v # w
        BY <2>1, <4>1 DEF Locked
      <4>3. pc'[v][p] = pc[v][p]
        BY <1>1, <4>2 DEF OwnRows
      <4> QED BY <4>1, <4>3 DEF Accounted
    <3> QED BY <3>1, <3>2, <3>3, <3>4 DEF Accounted
  <2>2. CASE pc[w][p] = "discard"
    <3>1. Holds(w, p)
      BY <2>2 DEF Holds, Locked, Label, Ending
    <3>2. Settled(p)
      BY <3>1, <2>2 DEF Accounted, FlockHeld, Holds
    <3>3. PutDiscard(w, p)
      BY <2>2 DEF PutStep, PutLock, PutClear, PutCheck, PutConnect, PutStat, PutMkTop, PutMkPkg,
                  PutWalk, PutSend, PutSending, PutConfirm, PutVerify, PutBreaks, PutFailed, PutCancelled,
                  Sending
    <3> QED BY <3>2, <3>3
            DEF PutDiscard, Accounted, Settled, Sent, Arrived, markers, area
  <2>3. CASE pc[w][p] \notin {"lock", "discard"}
    BY <2>3, OwnSettled DEF Accounted
  <2> QED BY <2>1, <2>2, <2>3
<1> QED BY <1>3, <1>4, <1>5

(* Nothing else disturbs it: a killed worker's put leaves no verdict.      *)
LEMMA OutcomeStep ==
  ASSUME SftpAssumption, Cleanups = {}, TypeOK, FlockHeld, Registered, LeftFiles, OutcomeInv,
         [Next]_vars
  PROVE  OutcomeInv'
<1> DEFINE All == \A q \in Pkg : Accounted(q) /\ \A v \in Worker : SentSoFar(v, q)
<1>0. Undisturbed /\ All
  BY DEF OutcomeInv
<1>q. SUFFICES Undisturbed' /\ All'
  BY DEF OutcomeInv
<1> USE DEF thread, locks, place, area, cleaner, history, bounds, markers
<1>s. ASSUME UNCHANGED <<pc, left, cur, remote, error, ended, local, staging, cl>>
      PROVE  Undisturbed' /\ All'
  <2>1. Undisturbed'
    BY <1>0, <1>s DEF Undisturbed
  <2>2. All'
    BY <1>0, <1>s DEF Accounted, Settled, SentSoFar, Sent, Arrived
  <2> QED BY <2>1, <2>2
<1>1. ASSUME NEW w \in Worker, NEW p \in Pkg, MoveToSftp(w, p) PROVE Undisturbed' /\ All'
  <2>1. \A v \in Worker, q \in Pkg : pc'[v][q] = IF v = w /\ q = p THEN "lock" ELSE pc[v][q]
    BY <1>1, GotoAt DEF MoveToSftp, Label, Early
  <2>2. pc[w][p] = "none" /\ UNCHANGED <<left, cur, remote, error, ended, local, staging, cl>>
    BY <1>1 DEF MoveToSftp, Registered
  <2>3. Undisturbed'
    BY <1>0, <2>2 DEF Undisturbed
  <2>4. All'
    <3>1. \A q \in Pkg : Settled(q) => Settled(q)'
      BY <2>2 DEF Settled, Sent, Arrived
    <3>2. \A v \in Worker, q \in Pkg : SentSoFar(v, q)'
      BY <1>0, <2>1, <2>2 DEF SentSoFar
    <3>3. \A v \in Worker, q \in Pkg : pc[v][q] \in Locked => pc'[v][q] = pc[v][q]
      BY <2>1, <2>2 DEF Locked
    <3> QED BY <1>0, <3>1, <3>2, <3>3 DEF Accounted
  <2> QED BY <2>3, <2>4
<1>2. ASSUME NEW p \in Pkg,
             RequestUploadCancel(p) \/ CheckMarker(p) \/ CheckWalk(p) \/ PutClose(p)
      PROVE  Undisturbed' /\ All'
  BY <1>2, <1>s DEF RequestUploadCancel, CheckMarker, CheckWalk, PutClose
<1>3. ASSUME NEW p \in Pkg,
             \/ MoveToIngest(p) \/ CleanStep(p)
             \/ \E o \in {"cleanup", "rollback"} : CleanBegin(p, o)
      PROVE  FALSE
  BY <1>0, <1>3 DEF MoveToIngest, CleanBegin, CleanStep, CleanList, CleanRemove, CleanRmPkg,
                    CleanRmTop, RollbackMove, Undisturbed
<1>4. ASSUME NEW w \in Worker, NEW p \in Pkg, PutStep(w, p) PROVE Undisturbed' /\ All'
  <2>1. UNCHANGED <<local, staging, cl>>
    BY <1>4, PutTouches
  <2>2. Undisturbed'
    BY <1>0, <2>1 DEF Undisturbed
  <2>3. All'
    BY <1>0, <1>4, PutAccounts
  <2> QED BY <2>2, <2>3
<1>5. ASSUME NEW w \in Worker, Kill(w) PROVE Undisturbed' /\ All'
  <2>1. \A q \in Pkg : /\ pc'[w][q] = "none"
                       /\ ended'[q] = IF Holds(w, q) THEN "killed" ELSE ended[q]
                       /\ \A v \in Worker : v # w => /\ pc'[v][q] = pc[v][q]
                                                     /\ left'[v][q] = left[v][q]
                                                     /\ cur'[v][q] = cur[v][q]
    BY <1>5 DEF Kill, Holds, TypeOK
  <2>2. UNCHANGED <<remote, error, local, staging, cl>>
    BY <1>5 DEF Kill
  <2>3. Undisturbed'
    BY <1>0, <2>2 DEF Undisturbed
  <2>4. \A v \in Worker, q \in Pkg : SentSoFar(v, q)'
    <3> SUFFICES ASSUME NEW v \in Worker, NEW q \in Pkg PROVE SentSoFar(v, q)'
      OBVIOUS
    <3>1. CASE v = w
      BY <2>1, <3>1 DEF SentSoFar
    <3>2. CASE v # w
      BY <1>0, <2>1, <2>2, <3>2 DEF SentSoFar
    <3> QED BY <3>1, <3>2
  <2>5. ASSUME NEW q \in Pkg PROVE Accounted(q)'
    <3>1. CASE Holds(w, q)
      BY <2>1, <3>1 DEF Accounted, Settled
    <3>2. CASE ~Holds(w, q)
      BY <1>0, <2>1, <2>2, <3>2 DEF Accounted, Settled, Sent, Arrived, Holds
    <3> QED BY <3>1, <3>2
  <2> QED BY <2>3, <2>4, <2>5
<1>6. CASE UNCHANGED vars
  BY <1>6, <1>s DEF vars
<1> HIDE DEF All
<1> QED BY <1>1, <1>2, <1>3, <1>4, <1>5, <1>6 DEF Next

(* A poll that no put has crossed since it looked at the marker: there is  *)
(* still no put at work, and still no marker.                              *)
PollUncrossed == \A p \in Pkg : told[p] = "asking" => AtRest(p) /\ p \notin error

(* A put that starts crosses the poll, and only a put writes a marker.     *)
LEMMA PollStep ==
  ASSUME SftpAssumption, TypeOK, PollUncrossed, [Next]_vars PROVE PollUncrossed'
<1> USE DEF thread, locks, markers
<1>s. ASSUME UNCHANGED <<pc, error>>, closing' \subseteq closing,
             \A q \in Pkg : told'[q] = "asking" => told[q] = "asking" \/ (AtRest(q) /\ q \notin error)
      PROVE  PollUncrossed'
  BY <1>s DEF PollUncrossed, AtRest, Active
<1>1. ASSUME NEW w \in Worker, NEW p \in Pkg, MoveToSftp(w, p) PROVE PollUncrossed'
  <2>1. \A v \in Worker, q \in Pkg : q # p => pc'[v][q] = pc[v][q]
    BY <1>1, GotoAt DEF MoveToSftp, Label, Early
  <2>2. told'[p] # "asking" /\ \A q \in Pkg : q # p => told'[q] = told[q]
    BY <1>1 DEF MoveToSftp, TypeOK, Asking
  <2>3. UNCHANGED <<closing, error>>
    BY <1>1 DEF MoveToSftp
  <2> QED BY <2>1, <2>2, <2>3 DEF PollUncrossed, AtRest, Active
<1>2. ASSUME NEW p \in Pkg, CheckMarker(p) PROVE PollUncrossed'
  BY <1>2, <1>s DEF CheckMarker, TypeOK
<1>3. ASSUME NEW p \in Pkg, CheckWalk(p) PROVE PollUncrossed'
  BY <1>3, <1>s DEF CheckWalk, TypeOK
<1>4. ASSUME NEW p \in Pkg,
             \/ RequestUploadCancel(p) \/ PutClose(p) \/ MoveToIngest(p) \/ CleanStep(p)
             \/ \E o \in {"cleanup", "rollback"} : CleanBegin(p, o)
      PROVE  PollUncrossed'
  <2>1. UNCHANGED <<pc, error, told>> /\ closing' \subseteq closing
    BY <1>4 DEF RequestUploadCancel, PutClose, MoveToIngest, CleanBegin, CleanStep, CleanList,
                CleanRemove, CleanRmPkg, CleanRmTop, RollbackMove
  <2> QED BY <2>1, <1>s
<1>5. ASSUME NEW w \in Worker, NEW p \in Pkg, PutStep(w, p) PROVE PollUncrossed'
  <2>1. OwnRows(w, p) /\ OwnPackage(p) /\ pc[w][p] # "none"
    BY <1>5, PutTouches DEF Holds, Waits, Takes, Locked
  <2>2. told' = told /\ closing' \subseteq closing \cup {p}
    BY <1>5 DEF PutStep, PutLock, PutClear, PutCheck, PutConnect, PutStat, PutMkTop, PutMkPkg,
         PutWalk, PutSend, PutSending, PutConfirm, PutVerify, PutBreaks, PutFailed, PutCancelled,
         PutDiscard
  <2>3. told[p] # "asking"
    BY <2>1 DEF PollUncrossed, AtRest, Active
  <2> QED BY <2>1, <2>2, <2>3 DEF PollUncrossed, AtRest, Active, OwnRows, OwnPackage
<1>6. ASSUME NEW w \in Worker, Kill(w) PROVE PollUncrossed'
  <2>1. \A v \in Worker, q \in Pkg : pc'[v][q] \in {"none", pc[v][q]}
    BY <1>6 DEF Kill, TypeOK
  <2>2. UNCHANGED <<told, error>> /\ closing' \subseteq closing
    BY <1>6 DEF Kill
  <2> QED BY <2>1, <2>2 DEF PollUncrossed, AtRest, Active
<1>7. CASE UNCHANGED vars
  BY <1>7, <1>s DEF vars
<1> QED BY <1>1, <1>2, <1>3, <1>4, <1>5, <1>6, <1>7 DEF Next

(* The invariants above, together.                                         *)
SftpInv == TypeOK /\ FlockHeld /\ Registered /\ LeftFiles /\ OutcomeInv /\ PollUncrossed

LEMMA OutcomeInvariant ==
  ASSUME SftpAssumption, Cleanups = {} PROVE Spec => []SftpInv
<1>1. Init => FlockHeld /\ Registered /\ LeftFiles /\ AskedStops /\ PollUncrossed
  BY DEF Init, FlockHeld, Holds, Locked, Label, Early, Sending, Ending, Registered, LeftFiles,
         AskedStops, PollUncrossed
<1>2. Init => OutcomeInv
  BY DEF Init, OutcomeInv, Undisturbed, Accounted, Settled, Arrived, SentSoFar
<1>3. /\ TypeOK /\ FlockHeld /\ Registered /\ LeftFiles /\ AskedStops /\ OutcomeInv
      /\ PollUncrossed /\ [Next]_vars
      => FlockHeld' /\ Registered' /\ LeftFiles' /\ AskedStops' /\ OutcomeInv' /\ PollUncrossed'
  BY SftpAssumption, FlockStep, RegisteredStep, StoppingStep, OutcomeStep, PollStep
<1> QED BY <1>1, <1>2, <1>3, SftpTypeCorrect, SftpAssumption, PTL DEF Spec, SftpInv

(* Without cleanups the disks tell how the last put of a package ended     *)
(* whenever none of it is at work: a failed one left its marker, a         *)
(* finished one every file, with any number of workers and whatever is     *)
(* killed, cancelled or started in vain; only one that was cancelled,      *)
(* killed or could not make its lock file or its marker leaves no verdict. *)
THEOREM OutcomeReadable ==
  ASSUME SftpAssumption, Cleanups = {} PROVE Spec => []OutcomeKnown
<1>1. SftpInv => OutcomeKnown
  <2> SUFFICES ASSUME SftpInv, NEW p \in Pkg, AtRest(p)
               PROVE  /\ ended[p] # "running"
                      /\ ended[p] = "sent" => Sent(p)
                      /\ ended[p] = "failed" => p \in error
    BY DEF OutcomeKnown
  <2>1. Accounted(p)
    BY DEF SftpInv, OutcomeInv
  <2>2. Settled(p)
    BY <2>1 DEF AtRest, Active, Accounted, Locked
  <2> QED BY <2>2 DEF Settled
<1> QED BY <1>1, OutcomeInvariant, SftpAssumption, PTL

(* check_sftp says complete only at the end of a poll, when all files are  *)
(* there.                                                                  *)
LEMMA AnsweredComplete ==
  ASSUME TypeOK, [Next]_vars, NEW p \in Pkg, Answers(p, "upload_complete")
  PROVE  told[p] \in Asking /\ Arrived(p) = File
<1>1. \E q \in Pkg : CheckWalk(q)
  <2>1. ASSUME NEW w \in Worker, NEW q \in Pkg, MoveToSftp(w, q) PROVE FALSE
    BY <2>1 DEF MoveToSftp, Answers, TypeOK
  <2>2. ASSUME NEW w \in Worker, NEW q \in Pkg, PutStep(w, q) PROVE told' = told
    BY <2>2 DEF PutStep, PutLock, PutClear, PutCheck, PutConnect, PutStat, PutMkTop, PutMkPkg,
         PutWalk, PutSend, PutSending, PutConfirm, PutVerify, PutBreaks, PutFailed, PutCancelled,
         PutDiscard
  <2>3. ASSUME NEW q \in Pkg,
               \/ RequestUploadCancel(q) \/ PutClose(q) \/ MoveToIngest(q) \/ CleanStep(q)
               \/ \E o \in {"cleanup", "rollback"} : CleanBegin(q, o)
        PROVE  told' = told
    BY <2>3 DEF RequestUploadCancel, PutClose, MoveToIngest, CleanBegin, CleanStep, CleanList,
                CleanRemove, CleanRmPkg, CleanRmTop, RollbackMove
  <2>4. ASSUME NEW w \in Worker, Kill(w) PROVE told' = told
    BY <2>4 DEF Kill
  <2>5. UNCHANGED vars => told' = told
    BY DEF vars
  <2>6. ASSUME NEW q \in Pkg, CheckMarker(q) PROVE FALSE
    BY <2>6 DEF CheckMarker, Answers, TypeOK
  <2> QED BY <2>1, <2>2, <2>3, <2>4, <2>5, <2>6 DEF Answers, Next
<1>2. PICK q \in Pkg : CheckWalk(q)
  BY <1>1
<1>3. q = p
  BY <1>2 DEF CheckWalk, Answers, TypeOK
<1> QED BY <1>2, <1>3 DEF CheckWalk, Answers, TypeOK

(* Without cleanups, upload_complete given while no put is at work means   *)
(* that every file is complete, unless the last put left no verdict or one *)
(* that failed crossed the poll between its look at the marker and its     *)
(* count of the files; puts may be cancelled and workers killed.           *)
THEOREM CompleteWhenAtRest ==
  ASSUME SftpAssumption, Cleanups = {} PROVE Spec => CompleteAtRest
<1>1. ASSUME SftpInv, [Next]_vars
      PROVE  [\A p \in Pkg : Answers(p, "upload_complete") /\ AtRest(p) =>
                \/ Sent(p)
                \/ ended[p] \in Silent
                \/ told[p] = "crossed" /\ p \in error]_vars
  <2> SUFFICES ASSUME NEW p \in Pkg, Answers(p, "upload_complete"), AtRest(p)
               PROVE  Sent(p) \/ ended[p] \in Silent \/ (told[p] = "crossed" /\ p \in error)
    OBVIOUS
  <2>1. TypeOK
    BY <1>1 DEF SftpInv
  <2>2. told[p] \in Asking /\ Arrived(p) = File
    BY <1>1, <2>1, AnsweredComplete
  <2>3. Settled(p)
    BY <1>1 DEF SftpInv, OutcomeInv, AtRest, Active, Accounted, Locked
  <2>4. ended[p] \in {"sent", "failed"} \cup Silent
    BY <2>1, <2>2, <2>3, SftpAssumption DEF TypeOK, SftpAssumption, Settled, Ended
  <2>5. told[p] = "asking" => p \notin error
    BY <1>1 DEF SftpInv, PollUncrossed
  <2> QED BY <2>2, <2>3, <2>4, <2>5 DEF Settled, Asking
<1> QED BY <1>1, OutcomeInvariant, SftpAssumption, PTL DEF Spec, CompleteAtRest
=============================================================================
