------------------------------- MODULE Staging -------------------------------
(***************************************************************************)
(* The staging area of one collection: packages travel between the batch  *)
(* folder 001-ready/<folder>, the collection directory 002-ingest/<uuid>  *)
(* and the Wasabi batch archive (lib/archivematica_ops.py).               *)
(*                                                                         *)
(* A worker is a gunicorn sync worker: a process that serves one request  *)
(* at a time, so requests interleave at every file-system call.  The      *)
(* requests are                                                            *)
(*    "in"  move_to_ingest             001-ready  -> 002-ingest            *)
(*    "rb"  move_from_ingest_to_ready  002-ingest -> 001-ready (rollback)  *)
(*    "ar"  move_to_ingested           002-ingest -> Wasabi, then rmtree   *)
(* The first two take the per-uuid lock, a .lock file INSIDE the           *)
(* collection directory; the third takes no lock.  Both directories are   *)
(* on one file system, so a move is one rename.                            *)
(***************************************************************************)
EXTENDS Naturals, FiniteSets

CONSTANTS
    Worker,       \* the gunicorn workers
    Pkg,          \* the packages of the batch
    File,         \* the files a complete package holds
    NoOne,        \* "there is no .lock file"
    Op,           \* the requests clients send: a subset of {"in","rb","ar"}
    Overlap,      \* may an archive and a move_to_ingest be in flight together?
    MaxCrashes    \* how many times a worker is killed in the middle of a request

ASSUME StagingAssumption ==
    /\ NoOne \notin Worker
    /\ ".lock" \notin Pkg
    /\ File # {}
    /\ Op \subseteq {"in", "rb", "ar"}
    /\ Overlap \in BOOLEAN
    /\ MaxCrashes \in Nat

VARIABLES
    loc,          \* where each package is
    cont,         \* the files left in each package directory
    dir,          \* does 002-ingest/<uuid> exist?
    batch,        \* does 001-ready/<folder> exist?
    lock,         \* whose .lock file is in the collection directory
    wasabi,       \* <<package, file>> pairs uploaded and size-verified
    pc, op, pkg,  \* per worker: program point, its package argument
    walk,         \* per worker: directory entries still to visit
    todo,         \* per worker: <<package, file>> pairs still to handle
    tally,        \* per worker: upload_directory's `uploaded`/`failed` counts
    ans,          \* per worker: the last answer
    crashes,      \* how many workers have been killed
    stolen,       \* history: workers whose .lock another worker removed
    stale         \* history: the .lock file was left behind, by a killed worker,
                  \* a failed write or a failed removal

disk == <<loc, cont, dir, batch, wasabi>>
walkers == <<walk, todo, tally>>
request == <<op, pkg>>
vars == <<loc, cont, dir, batch, lock, wasabi, pc, op, pkg, walk, todo, tally,
          ans, crashes, stolen, stale>>

(* "spilled": the package directory itself became 002-ingest/<uuid>, its   *)
(* files directly under it; "gone": removed by the archive's rmtree.       *)
Place == {"ready", "ingest", "spilled", "gone"}
Entry == Pkg \cup {".lock"}

LockLabel == {"mkdirs", "locktest", "lockopen"}
InSection == {"in_check", "in_mkdir", "in_move", "in_unlock"}
RbSection == {"rb_check", "rb_clean", "rb_batch", "rb_mkbatch", "rb_move",
              "rb_unlock", "rb_return"}
RbTail == {"rb_list", "rb_rmdir", "rb_final"}
UploadLabel == {"ar_isdir", "ar_walk", "ar_upload"}
RemoveLabel == {"ar_scan", "ar_rm", "ar_rmpkg"}
Label == {"idle"} \cup LockLabel \cup InSection \cup RbSection \cup RbTail
           \cup UploadLabel \cup RemoveLabel

(* The workers between a successful _lock_uuid and their own first unlock. *)
Section == {w \in Worker : pc[w] \in InSection \cup RbSection}

Answer == {"none", "busy", "moved", "failed", "already", "missing", "error"}
Request == {"none", "in", "rb", "ar"}
Tally == {"none", "ok", "bad"}

Inside == {p \in Pkg : loc[p] \in {"ingest", "spilled"}}

(* os.listdir(002-ingest/<uuid>) *)
Listing == {p \in Pkg : loc[p] = "ingest"}
             \cup {p \in Pkg : loc[p] = "spilled" /\ cont[p] # {}}
             \cup (IF lock = NoOne THEN {} ELSE {".lock"})

Init ==
    /\ loc \in [Pkg -> {"ready", "ingest"}]
    /\ cont = [p \in Pkg |-> File]
    /\ dir \in BOOLEAN
    /\ (\E p \in Pkg : loc[p] = "ingest") => dir
    /\ batch \in BOOLEAN
    /\ (\E p \in Pkg : loc[p] = "ready") => batch
    /\ lock = NoOne
    /\ wasabi = {}
    /\ pc = [w \in Worker |-> "idle"]
    /\ op = [w \in Worker |-> "none"]
    /\ pkg = [w \in Worker |-> NoOne]
    /\ walk = [w \in Worker |-> {}]
    /\ todo = [w \in Worker |-> {}]
    /\ tally = [w \in Worker |-> "none"]
    /\ ans = [w \in Worker |-> "none"]
    /\ crashes = 0
    /\ stolen = {}
    /\ stale = FALSE

Goto(w, l) == pc' = [pc EXCEPT ![w] = l] /\ UNCHANGED request
Say(w, a) == ans' = [ans EXCEPT ![w] = a]

(* The request is over: its local variables are gone. *)
Exit(w) ==
    /\ pc' = [pc EXCEPT ![w] = "idle"]
    /\ op' = [op EXCEPT ![w] = "none"]
    /\ pkg' = [pkg EXCEPT ![w] = NoOne]
Reply(w, a) == Exit(w) /\ Say(w, a)
Forget(w) ==
    /\ walk' = [walk EXCEPT ![w] = {}]
    /\ todo' = [todo EXCEPT ![w] = {}]
    /\ tally' = [tally EXCEPT ![w] = "none"]

-----------------------------------------------------------------------------
(* A request arrives.  Clients send any request for any package at any     *)
(* time, except that with Overlap = FALSE they keep a move_to_ingest and   *)
(* an archive of the collection apart.                                     *)
Begin(w, o, p) ==
    /\ pc[w] = "idle"
    /\ o \in Op
    /\ ~Overlap => \A v \in Worker : {o, op[v]} # {"in", "ar"}
    /\ pc' = [pc EXCEPT ![w] = IF o = "ar" THEN "ar_isdir" ELSE "mkdirs"]
    /\ op' = [op EXCEPT ![w] = o]
    /\ pkg' = [pkg EXCEPT ![w] = IF o = "ar" THEN NoOne ELSE p]
    /\ Say(w, "none")
    /\ UNCHANGED <<disk, lock, walkers, crashes, stolen, stale>>

(* _lock_uuid: os.makedirs(exist_ok); an OSError is reported as "busy". *)
LockMakedirs(w) ==
    /\ pc[w] = "mkdirs"
    /\ \/ dir' = TRUE /\ Goto(w, "locktest") /\ UNCHANGED ans
       \/ Reply(w, "busy") /\ UNCHANGED dir
    /\ UNCHANGED <<loc, cont, batch, wasabi, lock, walkers, crashes, stolen, stale>>

(* Mutant: a request that finds the lock held waits for it.                *)
LockTestWaits(w) ==
    /\ pc[w] = "locktest"
    /\ lock = NoOne /\ Goto(w, "lockopen")
    /\ UNCHANGED <<disk, lock, walkers, ans, crashes, stolen, stale>>

(* _lock_uuid: os.path.exists(.lock) *)
LockTest(w) ==
    /\ pc[w] = "locktest"
    /\ \/ lock # NoOne /\ Reply(w, "busy")
       \/ lock = NoOne /\ Goto(w, "lockopen") /\ UNCHANGED ans
    /\ UNCHANGED <<disk, lock, walkers, crashes, stolen, stale>>

(* The .lock file is made by w, which goes on to its move. *)
Enter(w) ==
    /\ stolen' = stolen \ {w}
    /\ stale' = FALSE
    /\ Goto(w, IF op[w] = "in" THEN "in_check" ELSE "rb_check")
    /\ UNCHANGED ans

(* Mutant: O_CREAT without O_EXCL.                                         *)
LockOpenShared(w) ==
    /\ pc[w] = "lockopen"
    /\ \/ dir /\ lock' = w /\ Enter(w)
       \/ Reply(w, "error") /\ UNCHANGED <<lock, stolen, stale>>
    /\ UNCHANGED <<disk, walkers, crashes>>

(* Mutant: the .lock file names the request instead of the worker.         *)
LockOpenNamed(w) ==
    /\ pc[w] = "lockopen"
    /\ \/ dir /\ lock = NoOne /\ lock' = op[w] /\ Enter(w)
       \/ dir /\ lock # NoOne /\ Reply(w, "busy") /\ UNCHANGED <<lock, stolen, stale>>
    /\ UNCHANGED <<disk, walkers, crashes>>

(* _lock_uuid: os.open(O_CREAT|O_EXCL).  FileExistsError is "busy".  Other *)
(* errors are not caught: a directory removed meanwhile, or the os.write   *)
(* into the new file, which then stays.                                    *)
LockOpen(w) ==
    /\ pc[w] = "lockopen"
    /\ \/ dir /\ lock = NoOne /\ lock' = w /\ Enter(w)
       \/ /\ dir /\ lock = NoOne
          /\ lock' = w /\ stale' = TRUE
          /\ Reply(w, "error") /\ UNCHANGED stolen
       \/ dir /\ lock # NoOne /\ Reply(w, "busy") /\ UNCHANGED <<lock, stolen, stale>>
       \/ Reply(w, "error") /\ UNCHANGED <<lock, stolen, stale>>
    /\ UNCHANGED <<disk, walkers, crashes>>

(* os.remove of whatever .lock file is there, whoever made it. *)
RemoveLock(w) ==
    /\ lock' = NoOne /\ stale' = FALSE
    /\ stolen' = (stolen \cup ({lock} \cap Section)) \ {w}

(* _unlock_uuid: an OSError of the removal is logged, and the file stays.  *)
Unlock(w) ==
    \/ RemoveLock(w)
    \/ /\ lock # NoOne
       /\ stale' = (stale \/ lock = w)
       /\ stolen' = stolen \ {w}
       /\ UNCHANGED lock

-----------------------------------------------------------------------------
(* move_to_ingest *)

(* `if not os.path.exists(ingest_path + uuid)` *)
InCheck(w) ==
    /\ pc[w] = "in_check"
    /\ Goto(w, IF dir THEN "in_move" ELSE "in_mkdir")
    /\ UNCHANGED <<disk, lock, walkers, ans, crashes, stolen, stale>>

(* os.mkdir; when it fails the error is recorded and the move still runs. *)
InMkdir(w) ==
    /\ pc[w] = "in_mkdir"
    /\ Goto(w, "in_move")
    /\ \/ ~dir /\ dir' = TRUE /\ UNCHANGED ans
       \/ Say(w, "failed") /\ UNCHANGED dir
    /\ UNCHANGED <<loc, cont, batch, wasabi, lock, walkers, crashes, stolen, stale>>

(* shutil.move(001-ready/<folder>/<package>, 002-ingest/<uuid>): into the  *)
(* directory when it exists, otherwise the rename makes the package BE it. *)
InMove(w) ==
    /\ pc[w] = "in_move"
    /\ Goto(w, "in_unlock")
    /\ \/ /\ loc[pkg[w]] = "ready"
          /\ loc' = [loc EXCEPT ![pkg[w]] = IF dir THEN "ingest" ELSE "spilled"]
          /\ dir' = TRUE
          /\ Say(w, IF ans[w] = "failed" THEN "failed" ELSE "moved")
       \/ Say(w, "failed") /\ UNCHANGED <<loc, dir>>
    /\ UNCHANGED <<cont, batch, wasabi, lock, walkers, crashes, stolen, stale>>

(* the finally clause *)
InUnlock(w) ==
    /\ pc[w] = "in_unlock"
    /\ Unlock(w)
    /\ Exit(w)
    /\ UNCHANGED <<disk, walkers, ans, crashes>>

-----------------------------------------------------------------------------
(* move_from_ingest_to_ready *)

(* Mutant: the early returns come before the try, and release nothing.     *)
RbCheckReturns(w) ==
    /\ pc[w] = "rb_check"
    /\ \/ loc[pkg[w]] = "ingest" /\ Goto(w, "rb_clean") /\ UNCHANGED ans
       \/ /\ loc[pkg[w]] # "ingest"
          /\ Reply(w, IF loc[pkg[w]] = "ready" THEN "already" ELSE "missing")
    /\ UNCHANGED <<disk, lock, walkers, crashes, stolen, stale>>

(* The idempotency check. *)
RbCheck(w) ==
    /\ pc[w] = "rb_check"
    /\ \/ /\ loc[pkg[w]] = "ingest"
          /\ Goto(w, "rb_clean") /\ UNCHANGED ans
       \/ /\ loc[pkg[w]] # "ingest"
          /\ Goto(w, "rb_return")
          /\ Say(w, IF loc[pkg[w]] = "ready" THEN "already" ELSE "missing")
    /\ UNCHANGED <<disk, lock, walkers, crashes, stolen, stale>>

(* The best-effort SFTP cleanup: up to minutes long, and whether it works  *)
(* or fails it leaves the local disk alone.                                *)
RbClean(w) ==
    /\ pc[w] = "rb_clean"
    /\ Goto(w, "rb_batch")
    /\ UNCHANGED <<disk, lock, walkers, ans, crashes, stolen, stale>>

(* `if not os.path.exists(dst_batch)` *)
RbBatch(w) ==
    /\ pc[w] = "rb_batch"
    /\ Goto(w, IF batch THEN "rb_move" ELSE "rb_mkbatch")
    /\ UNCHANGED <<disk, lock, walkers, ans, crashes, stolen, stale>>

(* os.mkdir(dst_batch), or destination_create_failed *)
RbMkBatch(w) ==
    /\ pc[w] = "rb_mkbatch"
    /\ \/ ~batch /\ batch' = TRUE /\ Goto(w, "rb_move") /\ UNCHANGED ans
       \/ Goto(w, "rb_return") /\ Say(w, "failed") /\ UNCHANGED batch
    /\ UNCHANGED <<loc, cont, dir, wasabi, lock, walkers, crashes, stolen, stale>>

(* shutil.move(src_pkg, dst_batch + '/'), or move_failed *)
RbMove(w) ==
    /\ pc[w] = "rb_move"
    /\ \/ /\ loc[pkg[w]] = "ingest"
          /\ loc' = [loc EXCEPT ![pkg[w]] = "ready"]
          /\ Goto(w, "rb_unlock") /\ Say(w, "moved")
       \/ Goto(w, "rb_return") /\ Say(w, "failed") /\ UNCHANGED loc
    /\ UNCHANGED <<cont, dir, batch, wasabi, lock, walkers, crashes, stolen, stale>>

(* The release BEFORE the rmdir. *)
RbUnlock(w) ==
    /\ pc[w] = "rb_unlock"
    /\ Unlock(w)
    /\ Goto(w, "rb_list")
    /\ UNCHANGED <<disk, walkers, ans, crashes>>

(* `if os.path.exists(src_dir) and not os.listdir(src_dir)` *)
RbList(w) ==
    /\ pc[w] = "rb_list"
    /\ Goto(w, IF dir /\ Listing = {} THEN "rb_rmdir" ELSE "rb_final")
    /\ UNCHANGED <<disk, lock, walkers, ans, crashes, stolen, stale>>

(* Mutant: the prune is an rmtree of what was listed as empty.             *)
RbRmdirTree(w) ==
    /\ pc[w] = "rb_rmdir"
    /\ dir' = FALSE
    /\ Goto(w, "rb_final")
    /\ UNCHANGED <<loc, cont, batch, wasabi, lock, walkers, ans, crashes, stolen, stale>>

(* os.rmdir(src_dir): a directory that is no longer empty stays; this and  *)
(* any other failure is logged.                                            *)
RbRmdir(w) ==
    /\ pc[w] = "rb_rmdir"
    /\ \/ /\ dir /\ Listing = {}
          /\ dir' = FALSE
          /\ loc' = [p \in Pkg |-> IF loc[p] = "spilled" THEN "gone" ELSE loc[p]]
       \/ UNCHANGED <<dir, loc>>
    /\ Goto(w, "rb_final")
    /\ UNCHANGED <<cont, batch, wasabi, lock, walkers, ans, crashes, stolen, stale>>

(* The finally clause: for an early return the only release, after a full  *)
(* run a second one.                                                       *)
RbFinal(w) ==
    /\ pc[w] \in {"rb_return", "rb_final"}
    /\ Unlock(w)
    /\ Exit(w)
    /\ UNCHANGED <<disk, walkers, ans, crashes>>

-----------------------------------------------------------------------------
(* move_to_ingested: no lock *)

(* `if not os.path.isdir(source)` *)
ArIsdir(w) ==
    /\ pc[w] = "ar_isdir"
    /\ IF dir THEN Goto(w, "ar_walk") /\ UNCHANGED ans ELSE Reply(w, "failed")
    /\ UNCHANGED <<disk, lock, walkers, crashes, stolen, stale>>

(* wasabi.upload_directory starts: os.walk lists the collection directory  *)
(* once; the files directly under it come before the subdirectories.      *)
ArWalk(w) ==
    /\ pc[w] = "ar_walk"
    /\ Goto(w, "ar_upload")
    /\ walk' = [walk EXCEPT ![w] = {p \in Pkg : loc[p] = "ingest"}]
    /\ todo' = [todo EXCEPT ![w] = {x \in Pkg \X File : loc[x[1]] = "spilled"
                                                        /\ x[2] \in cont[x[1]]}]
    /\ UNCHANGED <<disk, lock, tally, ans, crashes, stolen, stale>>

(* os.walk enters the next subdirectory; one that cannot be listed any     *)
(* more is skipped in silence.                                             *)
ArVisit(w, p) ==
    /\ pc[w] = "ar_upload" /\ todo[w] = {} /\ p \in walk[w]
    /\ walk' = [walk EXCEPT ![w] = @ \ {p}]
    /\ todo' = [todo EXCEPT ![w] = {x \in {p} \X cont[p] : loc[p] = "ingest"}]
    /\ UNCHANGED <<disk, lock, pc, request, tally, ans, crashes, stolen, stale>>

(* One file: getsize, upload_file, head_object.  It is counted as uploaded *)
(* only when the remote size agrees, and a vanished file counts as failed. *)
ArUpload(w, x) ==
    /\ pc[w] = "ar_upload" /\ x \in todo[w]
    /\ todo' = [todo EXCEPT ![w] = @ \ {x}]
    /\ \/ /\ x[1] \in Inside /\ x[2] \in cont[x[1]]
          /\ wasabi' = wasabi \cup {x}
          /\ tally' = [tally EXCEPT ![w] = IF @ = "bad" THEN "bad" ELSE "ok"]
       \/ /\ tally' = [tally EXCEPT ![w] = "bad"]
          /\ UNCHANGED wasabi
    /\ UNCHANGED <<loc, cont, dir, batch, lock, pc, request, walk, ans, crashes, stolen,
                   stale>>

(* Mutant: some uploaded file is enough, failed ones are only logged.      *)
ArDecideAny(w) ==
    /\ pc[w] = "ar_upload" /\ todo[w] = {} /\ walk[w] = {}
    /\ IF tally[w] # "none" THEN Goto(w, "ar_scan") /\ UNCHANGED ans
                            ELSE Reply(w, "failed")
    /\ Forget(w)
    /\ UNCHANGED <<disk, lock, crashes, stolen, stale>>

(* `ok = uploaded > 0 and failed == 0` gates the rmtree. *)
ArDecide(w) ==
    /\ pc[w] = "ar_upload" /\ todo[w] = {} /\ walk[w] = {}
    /\ IF tally[w] = "ok" THEN Goto(w, "ar_scan") /\ UNCHANGED ans
                          ELSE Reply(w, "failed")
    /\ Forget(w)
    /\ UNCHANGED <<disk, lock, crashes, stolen, stale>>

(* An error that upload_directory does not count per file (no credentials, *)
(* an error of boto3's transfer layer) ends the archive.                   *)
ArRaise(w) ==
    /\ pc[w] \in {"ar_walk", "ar_upload"}
    /\ Reply(w, "failed") /\ Forget(w)
    /\ UNCHANGED <<disk, lock, crashes, stolen, stale>>

(* shutil.rmtree lists the collection directory. *)
ArScan(w) ==
    /\ pc[w] = "ar_scan"
    /\ IF dir THEN /\ Goto(w, "ar_rm") /\ UNCHANGED ans
                   /\ walk' = [walk EXCEPT ![w] = Listing]
              ELSE Reply(w, "failed") /\ UNCHANGED walk
    /\ UNCHANGED <<disk, lock, todo, tally, crashes, stolen, stale>>

(* Any error of rmtree (an entry that is gone, one it may not remove) ends *)
(* it; the archive is answered as failed.                                  *)
ArRmFails(w) == Reply(w, "failed") /\ Forget(w)

(* rmtree opens the next package directory and lists it. *)
ArRmOpen(w, p) ==
    /\ pc[w] = "ar_rm" /\ p \in walk[w] \cap Pkg
    /\ \/ /\ p \in Inside
          /\ pc' = [pc EXCEPT ![w] = "ar_rmpkg"]
          /\ pkg' = [pkg EXCEPT ![w] = p]
          /\ walk' = [walk EXCEPT ![w] = @ \ {p}]
          /\ todo' = [todo EXCEPT ![w] = {p} \X cont[p]]
          /\ UNCHANGED <<op, tally, ans>>
       \/ ArRmFails(w)
    /\ UNCHANGED <<disk, lock, crashes, stolen, stale>>

(* rmtree unlinks a file relative to the open directory, wherever that     *)
(* directory has been renamed to.                                          *)
ArRmFile(w, x) ==
    /\ pc[w] = "ar_rmpkg" /\ x \in todo[w]
    /\ \/ /\ x[2] \in cont[x[1]]
          /\ cont' = [cont EXCEPT ![x[1]] = @ \ {x[2]}]
          /\ todo' = [todo EXCEPT ![w] = @ \ {x}]
          /\ UNCHANGED <<pc, request, walk, tally, ans>>
       \/ ArRmFails(w) /\ UNCHANGED cont
    /\ UNCHANGED <<loc, dir, batch, wasabi, lock, crashes, stolen, stale>>

(* rmtree removes the emptied package directory by its name. *)
ArRmPkg(w) ==
    /\ pc[w] = "ar_rmpkg" /\ todo[w] = {}
    /\ \/ /\ pkg[w] \in Inside
          /\ loc' = [loc EXCEPT ![pkg[w]] = IF @ = "ingest" THEN "gone" ELSE @]
          /\ pc' = [pc EXCEPT ![w] = "ar_rm"]
          /\ pkg' = [pkg EXCEPT ![w] = NoOne]
          /\ UNCHANGED <<op, walkers, ans>>
       \/ ArRmFails(w) /\ UNCHANGED loc
    /\ UNCHANGED <<cont, dir, batch, wasabi, lock, crashes, stolen, stale>>

(* rmtree unlinks a .lock file it has listed. *)
ArRmLock(w) ==
    /\ pc[w] = "ar_rm" /\ ".lock" \in walk[w]
    /\ \/ /\ lock # NoOne /\ RemoveLock(w)
          /\ walk' = [walk EXCEPT ![w] = @ \ {".lock"}]
          /\ UNCHANGED <<pc, request, todo, tally, ans>>
       \/ ArRmFails(w) /\ UNCHANGED <<lock, stolen, stale>>
    /\ UNCHANGED <<disk, crashes>>

(* rmtree's last rmdir: an entry that arrived meanwhile makes it fail. *)
ArRmDir(w) ==
    /\ pc[w] = "ar_rm" /\ walk[w] = {}
    /\ \/ /\ dir /\ Listing = {}
          /\ dir' = FALSE
          /\ loc' = [p \in Pkg |-> IF loc[p] = "spilled" THEN "gone" ELSE loc[p]]
          /\ Reply(w, "moved")
       \/ Reply(w, "failed") /\ UNCHANGED <<dir, loc>>
    /\ UNCHANGED <<cont, batch, wasabi, lock, walkers, crashes, stolen, stale>>

-----------------------------------------------------------------------------
(* A worker is killed in the middle of a request (gunicorn's --timeout,    *)
(* a reboot): no finally clause runs.                                      *)
Crash(w) ==
    /\ pc[w] # "idle" /\ crashes < MaxCrashes
    /\ crashes' = crashes + 1
    /\ stolen' = stolen \ {w}
    /\ stale' = (stale \/ lock = w)
    /\ Exit(w) /\ Forget(w)
    /\ UNCHANGED <<disk, lock, ans>>

LockUuid(w) == LockMakedirs(w) \/ LockTest(w) \/ LockOpen(w)

MoveToIngest(w) == InCheck(w) \/ InMkdir(w) \/ InMove(w) \/ InUnlock(w)

MoveFromIngestToReady(w) ==
    \/ RbCheck(w) \/ RbClean(w) \/ RbBatch(w) \/ RbMkBatch(w) \/ RbMove(w)
    \/ RbUnlock(w) \/ RbList(w) \/ RbRmdir(w) \/ RbFinal(w)

UploadDirectory(w) ==
    \/ ArWalk(w)
    \/ \E p \in Pkg : ArVisit(w, p)
    \/ \E x \in Pkg \X File : ArUpload(w, x)
    \/ ArDecide(w) \/ ArRaise(w)

Rmtree(w) ==
    \/ ArScan(w)
    \/ \E p \in Pkg : ArRmOpen(w, p)
    \/ \E x \in Pkg \X File : ArRmFile(w, x)
    \/ ArRmPkg(w) \/ ArRmLock(w) \/ ArRmDir(w)

(* One step of the request a worker is serving. *)
Step(w) ==
    \/ LockUuid(w) \/ MoveToIngest(w) \/ MoveFromIngestToReady(w)
    \/ ArIsdir(w) \/ UploadDirectory(w) \/ Rmtree(w)

Next ==
    \E w \in Worker :
        \/ \E o \in {"in", "rb", "ar"}, p \in Pkg : Begin(w, o, p)
        \/ Step(w)
        \/ Crash(w)

Spec == Init /\ [][Next]_vars

(* A request being served goes on: a worker is a process of its own and no *)
(* step of it waits for another request.  Requests need not arrive.        *)
FairSpec == Spec /\ \A w \in Worker : WF_vars(Step(w))

-----------------------------------------------------------------------------
(* PROPERTIES *)

(* Every variable has its type. *)
TypeOK ==
    /\ loc \in [Pkg -> Place]
    /\ cont \in [Pkg -> SUBSET File]
    /\ dir \in BOOLEAN
    /\ batch \in BOOLEAN
    /\ lock \in Worker \cup {NoOne}
    /\ wasabi \subseteq Pkg \X File
    /\ pc \in [Worker -> Label]
    /\ op \in [Worker -> Request]
    /\ pkg \in [Worker -> Pkg \cup {NoOne}]
    /\ walk \in [Worker -> SUBSET Entry]
    /\ todo \in [Worker -> SUBSET (Pkg \X File)]
    /\ tally \in [Worker -> Tally]
    /\ ans \in [Worker -> Answer]
    /\ crashes \in 0..MaxCrashes
    /\ stolen \subseteq Worker
    /\ stale \in BOOLEAN

(* A worker in its locked section whose .lock nobody else removed is the   *)
(* one the .lock file belongs to: acquisition is atomic, and exclusion is  *)
(* lost only through a release by another worker.                          *)
LockIsOwned == \A w \in Section \ stolen : lock = w

(* Two workers in their locked sections: one of them was robbed. *)
ExclusionUnlessStolen ==
    \A v, w \in Section : v # w => (v \in stolen \/ w \in stolen)

(* Nothing is left inside a collection directory that has been removed:    *)
(* the prune of an emptied directory never takes a package or a .lock with *)
(* it, whatever arrives between its listdir and its rmdir.                 *)
DirHoldsEntries == Listing # {} => dir

(* A .lock file belongs to a worker in its locked section, which is going  *)
(* to remove it, or was left behind in one of three ways: its worker was   *)
(* killed, could not remove it, or could not write to it.  No other way    *)
(* out of a request, of the many with an early return, leaves one.         *)
ReleasedUnlessStale == lock # NoOne => stale \/ lock \in Section

(* No file leaves the local disk before its size was verified in Wasabi. *)
RemovedOnlyVerified ==
    \A p \in Pkg, f \in File :
        f \notin cont[p] \/ loc[p] = "gone" => <<p, f>> \in wasabi

(* Every request is answered: none waits for a lock, not even a stale one. *)
Answered == \A w \in Worker : pc[w] # "idle" ~> pc[w] = "idle"

-----------------------------------------------------------------------------
(* What the comments say and the code does not keep.                       *)

(* The documented promise of the per-uuid lock: no two moves of one        *)
(* collection at once.                                                     *)
MutualExclusion == \A v, w \in Section : v = w

(* A package is a directory in 001-ready or in 002-ingest/<uuid>; it never *)
(* becomes the collection directory itself.                                *)
PackagesStayPackages == \A p \in Pkg : loc[p] # "spilled"

(* A package in 001-ready has all its files.                               *)
ReadyIsWhole == \A p \in Pkg : loc[p] = "ready" => cont[p] = File

(* A .lock file never outlives the request that made it: "always called in *)
(* a `finally` so a partial move doesn't leave a stale lock".              *)
NoStaleLock == ~stale

(* No request ends in an exception that _lock_uuid does not catch.         *)
NoServerError == \A w \in Worker : ans[w] # "error"

-----------------------------------------------------------------------------
(* STRENGTHENINGS                                                          *)

(* What makes RemovedOnlyVerified inductive when clients keep archives and *)
(* arrivals apart.  The request a worker serves agrees with its point in   *)
(* the program, and no archive is in flight with a move_to_ingest.         *)
InFlight ==
    /\ \A w \in Worker :
         /\ pc[w] \in LockLabel => op[w] \in {"in", "rb"}
         /\ pc[w] \in InSection => op[w] = "in"
         /\ pc[w] \in RbSection \cup RbTail => op[w] = "rb"
         /\ pc[w] \in UploadLabel \cup RemoveLabel => op[w] = "ar"
    /\ \A v, w \in Worker : {op[v], op[w]} # {"in", "ar"}

(* While an upload has not failed, every file in the collection directory  *)
(* is still to be visited, still to be uploaded, or verified.              *)
UploadTracked ==
    \A w \in Worker : pc[w] = "ar_upload" /\ tally[w] # "bad" =>
        \A p \in Inside, f \in File : f \in cont[p] =>
            \/ p \in walk[w] /\ loc[p] = "ingest"
            \/ <<p, f>> \in todo[w]
            \/ <<p, f>> \in wasabi

(* Once an archive removes files, every file in the collection directory   *)
(* is verified, and so is every file the removal has listed.               *)
RemovalVerified ==
    \A w \in Worker : pc[w] \in RemoveLabel =>
        /\ \A p \in Inside, f \in File : f \in cont[p] => <<p, f>> \in wasabi
        /\ pc[w] = "ar_rmpkg" => todo[w] \subseteq wasabi

CustodyInv == InFlight /\ UploadTracked /\ RemovalVerified /\ RemovedOnlyVerified

(* At most one package is the collection directory, which is then there,   *)
(* and an rmtree at work in a package directory still has all its files    *)
(* before it.                                                              *)
OneSpill ==
    /\ \A p \in Pkg : loc[p] = "spilled" => dir
    /\ \A p, q \in Pkg : loc[p] = "spilled" /\ loc[q] = "spilled" => p = q

RemovalTracked ==
    \A w \in Worker : pc[w] = "ar_rmpkg" =>
        /\ pkg[w] \in Pkg
        /\ \A f \in cont[pkg[w]] : <<pkg[w], f>> \in todo[w]

(* The custody of the packages, as PackageCustody states it. *)
CustodyPlace == [p \in Pkg |-> CASE loc[p] = "spilled" -> "ingest"
                                 [] loc[p] = "gone" -> "archived"
                                 [] OTHER -> loc[p]]
Custody == INSTANCE PackageCustody WITH
    place <- CustodyPlace, kept <- cont, safe <- wasabi
CustodySpec == Custody!Spec
=============================================================================
