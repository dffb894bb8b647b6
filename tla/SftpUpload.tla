------------------------------ MODULE SftpUpload ------------------------------
(***************************************************************************)
(* The background upload of the packages of one collection to the          *)
(* Archivematica SFTP area, its status, its cancellation and the cleanup   *)
(* of what it left there (lib/archivematica_ops.py).                       *)
(*                                                                         *)
(* move_to_sftp starts a daemon thread inside the gunicorn worker that     *)
(* answers the request and returns at once.  The thread takes a host-wide  *)
(* flock for the package, clears old markers, creates the remote           *)
(* directories and sends the files.  The client only sees check_sftp,      *)
(* which any worker answers from the remote listing and from the marker    *)
(* file .upload_error--<package> beside the package in 002-ingest/<pid>.   *)
(* A worker may be killed or recycled at any time; its threads die with    *)
(* it, and the kernel drops their flocks.                                  *)
(*                                                                         *)
(* Every package is uploaded by itself, as the Node worker requests it.    *)
(***************************************************************************)
EXTENDS Naturals, FiniteSets

CONSTANTS
    Worker,      \* the gunicorn workers
    Pkg,         \* the packages of the collection
    File,        \* the files of a package
    NoOne,       \* "no process holds the flock"
    NoFile,      \* "no file is being sent"
    MaxFaults,   \* how many operations fail, remote or local
    MaxKills,    \* how many times a worker dies
    Cancels,     \* do clients cancel uploads?
    Cleanups     \* which cleanups run: subset of {"cleanup", "rollback"}

ASSUME SftpAssumption ==
    /\ NoOne \notin Worker
    /\ NoFile \notin File
    /\ File # {} /\ IsFiniteSet(File)
    /\ MaxFaults \in Nat /\ MaxKills \in Nat
    /\ Cancels \in BOOLEAN
    /\ Cleanups \subseteq {"cleanup", "rollback"}

VARIABLES
    inflight,    \* per worker: _sftp_puts_in_flight
    pc,          \* per worker and package: where the put thread is
    left, cur,   \* per worker and package: files not yet sent, file being sent
    flock,       \* per package: the worker whose put holds the put lock
    closing,     \* packages whose put is over but whose lock is not closed yet
    error,       \* packages with an .upload_error marker
    cancel,      \* packages with an .upload_cancel marker
    local,       \* packages in 002-ingest/<pid>
    staging,     \* does 002-ingest/<pid> exist?
    top,         \* does <sftp_path>/<pid> exist?
    rdir,        \* packages with a directory in <sftp_path>/<pid>
    remote,      \* per package and file: "none", "part" or "full"
    cl, clop,    \* per package: where its cleanup is, and for which request
    doomed,      \* per package: files the cleanup has listed
    told,        \* per package: a poll under way, or the last answer to one
    faults, kills,
    ended,       \* history: how the last put of the package ended
    asked        \* history: puts asked to stop with files still to send

thread == <<pc, left, cur>>
locks == <<inflight, flock, closing>>
markers == <<error, cancel>>
place == <<local, staging>>
area == <<top, rdir, remote>>
cleaner == <<cl, clop, doomed>>
bounds == <<faults, kills>>
history == <<ended, asked>>
vars == <<thread, locks, markers, place, area, cleaner, told, bounds, history>>

Sending == {"stat", "mktop", "mkpkg", "walk", "send", "sending", "confirm"}
Early == {"lock", "clear", "check", "connect"}
Ending == {"failed", "cancelled", "discard"}
Label == {"none"} \cup Early \cup Sending \cup Ending
Locked == Label \ {"none", "lock"}
CleanLabel == {"none", "list", "remove", "rmpkg", "rmtop", "move"}
Asking == {"asking", "crossed"}
Told == {"none", "in_progress", "upload_complete", "upload_failed"} \cup Asking
Silent == {"cancelled", "killed", "mute"}
Ended == {"none", "running", "sent", "failed"} \cup Silent

Sent(p) == \A f \in File : remote[p][f] = "full"
Arrived(p) == {f \in File : remote[p][f] # "none"}
Active(p) == \E w \in Worker : pc[w][p] # "none"
AtRest(p) == ~Active(p) /\ p \notin closing

Init ==
    /\ inflight = [w \in Worker |-> {}]
    /\ pc = [w \in Worker |-> [p \in Pkg |-> "none"]]
    /\ left = [w \in Worker |-> [p \in Pkg |-> {}]]
    /\ cur = [w \in Worker |-> [p \in Pkg |-> NoFile]]
    /\ flock = [p \in Pkg |-> NoOne]
    /\ closing = {}
    /\ error = {} /\ cancel = {}
    /\ local = Pkg /\ staging = TRUE
    /\ top = FALSE /\ rdir = {}
    /\ remote = [p \in Pkg |-> [f \in File |-> "none"]]
    /\ cl = [p \in Pkg |-> "none"]
    /\ clop = [p \in Pkg |-> "none"]
    /\ doomed = [p \in Pkg |-> {}]
    /\ told = [p \in Pkg |-> "none"]
    /\ faults = 0 /\ kills = 0
    /\ ended = [p \in Pkg |-> "none"]
    /\ asked = {}

Goto(w, p, l) == pc' = [pc EXCEPT ![w][p] = l]
Upload(p, f, s) == remote' = [remote EXCEPT ![p][f] = s]
Fault == faults < MaxFaults /\ faults' = faults + 1 /\ UNCHANGED kills

-----------------------------------------------------------------------------
(* The requests *)

(* move_to_sftp, answered by worker w: 'upload_already_running', or the    *)
(* package is registered and a thread started, which may cross a poll.     *)
MoveToSftp(w, p) ==
    /\ p \notin inflight[w]
    /\ inflight' = [inflight EXCEPT ![w] = @ \cup {p}]
    /\ Goto(w, p, "lock")
    /\ told' = [told EXCEPT ![p] = IF @ \in Asking THEN "crossed" ELSE "none"]
    /\ UNCHANGED <<left, cur, flock, closing, markers, place, area, cleaner, bounds, history>>

(* request_upload_cancel: without a staged package there is nothing to     *)
(* cancel.                                                                 *)
RequestUploadCancel(p) ==
    /\ Cancels
    /\ p \in local
    /\ cancel' = cancel \cup {p}
    /\ asked' = IF \E w \in Worker : left[w][p] # {} THEN asked \cup {p} ELSE asked
    /\ UNCHANGED <<thread, locks, error, place, area, cleaner, told, bounds, ended>>

(* Mutant: the number of files decides, whatever the marker says.          *)
CheckMarkerSkipped(p) ==
    /\ told[p] \notin Asking
    /\ told' = [told EXCEPT ![p] = IF AtRest(p) THEN "asking" ELSE "crossed"]
    /\ UNCHANGED <<thread, locks, markers, place, area, cleaner, bounds, history>>

(* Mutant: a cancelled upload gets an answer no client knows.              *)
CheckMarkerCancelled(p) ==
    /\ told[p] \notin Asking
    /\ told' = [told EXCEPT ![p] =
         IF p \in cancel THEN "upload_cancelled" ELSE IF AtRest(p) THEN "asking" ELSE "crossed"]
    /\ UNCHANGED <<thread, locks, markers, place, area, cleaner, bounds, history>>

(* check_sftp looks for an .upload_error marker.  Without one it goes on   *)
(* to open an SFTP session, which takes up to minutes; "crossed" remembers *)
(* that a put was at work in between.                                      *)
CheckMarker(p) ==
    /\ told[p] \notin Asking
    /\ told' = [told EXCEPT ![p] =
         IF p \in error THEN "upload_failed" ELSE IF AtRest(p) THEN "asking" ELSE "crossed"]
    /\ UNCHANGED <<thread, locks, markers, place, area, cleaner, bounds, history>>

(* Then the number of files in the remote package directory decides,       *)
(* against the number the client passes (all the package's files).  A walk *)
(* that fails counts none; a poll that cannot connect has no answer.       *)
CheckWalk(p) ==
    /\ told[p] \in Asking
    /\ \E a \in {"none", "in_progress", "upload_complete"} :
         /\ a = "upload_complete" => Arrived(p) = File
         /\ told' = [told EXCEPT ![p] = a]
    /\ UNCHANGED <<thread, locks, markers, place, area, cleaner, bounds, history>>

-----------------------------------------------------------------------------
(* The put thread: _do_sftp_put in worker w for package p *)

End(p, e) == ended' = [ended EXCEPT ![p] = e] /\ UNCHANGED asked

(* Mutant: the lock is only advisory, the put goes on without it.          *)
PutLockIgnored(w, p) ==
    /\ pc[w][p] = "lock"
    /\ flock' = [flock EXCEPT ![p] = w]
    /\ Goto(w, p, "clear") /\ End(p, "running")
    /\ UNCHANGED <<inflight, closing, left, cur, markers, place, area, cleaner, told, bounds>>

(* Mutant: the stale markers are cleared before the lock is taken.         *)
PutLockClears(w, p) ==
    /\ pc[w][p] = "lock"
    /\ error' = error \ {p}
    /\ cancel' = cancel \ {p}
    /\ \/ /\ flock[p] = NoOne
          /\ flock' = [flock EXCEPT ![p] = w]
          /\ Goto(w, p, "clear") /\ End(p, "running")
       \/ flock[p] # NoOne /\ Goto(w, p, "none") /\ UNCHANGED <<flock, history>>
    /\ UNCHANGED <<inflight, closing, left, cur, place, area, cleaner, told, bounds>>

(* flock(LOCK_EX | LOCK_NB); when another put of the package holds it the  *)
(* thread returns at once, and the package stays in w's registry.  So it   *)
(* does when the lock file cannot be made or opened: that is not caught,   *)
(* the thread dies and leaves no marker.                                   *)
PutLock(w, p) ==
    /\ pc[w][p] = "lock"
    /\ \/ /\ flock[p] = NoOne
          /\ flock' = [flock EXCEPT ![p] = w]
          /\ Goto(w, p, "clear") /\ End(p, "running")
          /\ UNCHANGED bounds
       \/ /\ flock[p] # NoOne
          /\ Goto(w, p, "none")
          /\ UNCHANGED <<flock, bounds, history>>
       \/ /\ Fault
          /\ Goto(w, p, "none") /\ End(p, IF ended[p] = "none" THEN "mute" ELSE ended[p])
          /\ UNCHANGED flock
    /\ UNCHANGED <<inflight, closing, left, cur, markers, place, area, cleaner, told>>

(* Stale markers of a previous attempt are removed; one that cannot be     *)
(* removed is passed over.                                                 *)
PutClear(w, p) ==
    /\ pc[w][p] = "clear"
    /\ error' \in {error, error \ {p}}
    /\ cancel' \in {cancel, cancel \ {p}}
    /\ \/ p \notin error' \cup cancel' /\ UNCHANGED bounds
       \/ p \in error' \cup cancel' /\ Fault
    /\ Goto(w, p, "check")
    /\ UNCHANGED <<left, cur, locks, place, area, cleaner, told, history>>

(* `if not os.path.isdir(local_root): raise` *)
PutCheck(w, p) ==
    /\ pc[w][p] = "check"
    /\ Goto(w, p, IF p \in local THEN "connect" ELSE "failed")
    /\ UNCHANGED <<left, cur, locks, markers, place, area, cleaner, told, bounds, history>>

(* Mutant: the connection is opened outside the try, so that its failure   *)
(* writes no marker.                                                       *)
PutConnectUncaught(w, p) ==
    /\ pc[w][p] = "connect"
    /\ \/ Goto(w, p, "stat") /\ UNCHANGED bounds
       \/ Fault /\ Goto(w, p, "discard")
    /\ UNCHANGED <<left, cur, locks, markers, place, area, cleaner, told, history>>

(* _open_sftp, after all its retries. *)
PutConnect(w, p) ==
    /\ pc[w][p] = "connect"
    /\ \/ Goto(w, p, "stat") /\ UNCHANGED bounds
       \/ Fault /\ Goto(w, p, "failed")
    /\ UNCHANGED <<left, cur, locks, markers, place, area, cleaner, told, history>>

(* _sftp_mkdir_p: stat first, then mkdir what was missing.  It runs before *)
(* os.walk and once more for the directory os.walk has listed.             *)
Made(w, p) == IF left[w][p] = {} THEN "walk" ELSE "send"

PutStat(w, p) ==
    /\ pc[w][p] = "stat"
    /\ Goto(w, p, IF p \in rdir THEN Made(w, p) ELSE IF top THEN "mkpkg" ELSE "mktop")
    /\ UNCHANGED <<left, cur, locks, markers, place, area, cleaner, told, bounds, history>>

PutMkTop(w, p) ==
    /\ pc[w][p] = "mktop"
    /\ \/ ~top /\ top' = TRUE /\ Goto(w, p, "mkpkg")
       \/ top /\ Goto(w, p, "failed") /\ UNCHANGED top
    /\ UNCHANGED <<left, cur, locks, markers, place, rdir, remote, cleaner, told, bounds,
                   history>>

PutMkPkg(w, p) ==
    /\ pc[w][p] = "mkpkg"
    /\ \/ top /\ p \notin rdir /\ rdir' = rdir \cup {p} /\ Goto(w, p, Made(w, p))
       \/ ~(top /\ p \notin rdir) /\ Goto(w, p, "failed") /\ UNCHANGED rdir
    /\ UNCHANGED <<left, cur, locks, markers, place, top, remote, cleaner, told, bounds,
                   history>>

(* os.walk lists the package; one that is gone yields no file, in silence. *)
PutWalk(w, p) ==
    /\ pc[w][p] = "walk"
    /\ left' = [left EXCEPT ![w][p] = IF p \in local THEN File ELSE {}]
    /\ Goto(w, p, IF p \in local THEN "stat" ELSE "send")
    /\ UNCHANGED <<cur, locks, markers, place, area, cleaner, told, bounds, history>>

(* The next file: the cancel flag is checked, then the remote file is      *)
(* opened for writing, which empties it.                                   *)
PutSend(w, p, f) ==
    /\ pc[w][p] = "send" /\ f \in left[w][p]
    /\ \/ p \in cancel /\ Goto(w, p, "cancelled") /\ UNCHANGED <<left, cur, remote>>
       \/ /\ p \notin cancel /\ p \in local /\ p \in rdir
          /\ Upload(p, f, "part")
          /\ left' = [left EXCEPT ![w][p] = @ \ {f}]
          /\ cur' = [cur EXCEPT ![w][p] = f]
          /\ Goto(w, p, "sending")
       \/ /\ p \notin cancel /\ ~(p \in local /\ p \in rdir)
          /\ Goto(w, p, "failed") /\ UNCHANGED <<left, cur, remote>>
    /\ UNCHANGED <<locks, markers, place, top, rdir, cleaner, told, bounds, history>>

(* The transfer of one file: it ends, or it is cancelled at one of the     *)
(* checks every 8 MB.  Writing goes on in an open file even when the file  *)
(* has been removed meanwhile.                                             *)
PutSending(w, p) ==
    /\ pc[w][p] = "sending"
    /\ \/ /\ Goto(w, p, "confirm")
          /\ IF remote[p][cur[w][p]] = "none" THEN UNCHANGED remote
                                              ELSE Upload(p, cur[w][p], "full")
       \/ p \in cancel /\ Goto(w, p, "cancelled") /\ UNCHANGED remote
    /\ UNCHANGED <<left, cur, locks, markers, place, top, rdir, cleaner, told, bounds, history>>

(* paramiko's confirmation by size ("size mismatch in put!"), then utime.  *)
PutConfirm(w, p) ==
    /\ pc[w][p] = "confirm"
    /\ Goto(w, p, IF remote[p][cur[w][p]] = "full" /\ p \in local THEN "send" ELSE "failed")
    /\ cur' = [cur EXCEPT ![w][p] = NoFile]
    /\ UNCHANGED <<left, locks, markers, place, area, cleaner, told, bounds, history>>

(* All files are sent: the package must be listed in the parent. *)
PutVerify(w, p) ==
    /\ pc[w][p] = "send" /\ left[w][p] = {}
    /\ \/ p \in rdir /\ Goto(w, p, "discard") /\ End(p, "sent")
       \/ p \notin rdir /\ Goto(w, p, "failed") /\ UNCHANGED history
    /\ UNCHANGED <<left, cur, locks, markers, place, area, cleaner, told, bounds>>

(* An operation of the put raises: stat, mkdir, write, listdir, utime, or  *)
(* the close of the session, also after the last file or a cancellation.   *)
PutBreaks(w, p) ==
    /\ pc[w][p] \in Sending
    /\ Fault /\ Goto(w, p, "failed")
    /\ UNCHANGED <<left, cur, locks, markers, place, area, cleaner, told, history>>

(* The put failed: the marker can be written only into the staging         *)
(* directory; without it, or when the write fails, nothing tells.          *)
PutFailed(w, p) ==
    /\ pc[w][p] = "failed"
    /\ \/ /\ staging
          /\ error' = error \cup {p} /\ End(p, "failed") /\ UNCHANGED bounds
       \/ /\ (~staging /\ UNCHANGED bounds) \/ Fault
          /\ End(p, "mute") /\ UNCHANGED error
    /\ Goto(w, p, "discard")
    /\ UNCHANGED <<left, cur, locks, cancel, place, area, cleaner, told>>

(* The put was cancelled: the flag is removed, unless that fails, and no   *)
(* marker is written.                                                      *)
PutCancelled(w, p) ==
    /\ pc[w][p] = "cancelled"
    /\ \/ cancel' = cancel \ {p} /\ UNCHANGED bounds
       \/ Fault /\ UNCHANGED cancel
    /\ End(p, "cancelled")
    /\ Goto(w, p, "discard")
    /\ UNCHANGED <<left, cur, locks, error, place, area, cleaner, told>>

(* The finally clause: the package leaves the registry first, ... *)
PutDiscard(w, p) ==
    /\ pc[w][p] = "discard"
    /\ inflight' = [inflight EXCEPT ![w] = @ \ {p}]
    /\ closing' = closing \cup {p}
    /\ Goto(w, p, "none")
    /\ left' = [left EXCEPT ![w][p] = {}]
    /\ cur' = [cur EXCEPT ![w][p] = NoFile]
    /\ asked' = asked \ {p}
    /\ UNCHANGED <<flock, markers, place, area, cleaner, told, bounds, ended>>

(* ... then its lock file is closed, which drops the flock. *)
PutClose(p) ==
    /\ p \in closing
    /\ closing' = closing \ {p}
    /\ flock' = [flock EXCEPT ![p] = NoOne]
    /\ UNCHANGED <<inflight, thread, markers, place, area, cleaner, told, bounds, history>>

-----------------------------------------------------------------------------
(* clean_up_sftp of package p, for the cleanup request or for a rollback,  *)
(* which then moves the package out of 002-ingest/<pid>.                   *)
CleanBegin(p, o) ==
    /\ cl[p] = "none" /\ o \in Cleanups
    /\ o = "rollback" => p \in local
    /\ cl' = [cl EXCEPT ![p] = "list"]
    /\ clop' = [clop EXCEPT ![p] = o]
    /\ UNCHANGED <<thread, locks, markers, place, area, doomed, told, bounds, history>>

CleanGoto(p, l) == cl' = [cl EXCEPT ![p] = l]
AfterClean(p) == IF clop[p] = "rollback" THEN "move" ELSE "none"

(* stat, then _sftp_rmtree's walk; a cleanup that cannot connect, or finds *)
(* nothing, is over.                                                       *)
CleanList(p) ==
    /\ cl[p] = "list"
    /\ \/ /\ p \in rdir
          /\ CleanGoto(p, "remove")
          /\ doomed' = [doomed EXCEPT ![p] = Arrived(p)]
          /\ UNCHANGED bounds
       \/ p \notin rdir /\ CleanGoto(p, AfterClean(p)) /\ UNCHANGED <<doomed, bounds>>
       \/ Fault /\ CleanGoto(p, AfterClean(p)) /\ UNCHANGED doomed
    /\ UNCHANGED <<clop, thread, locks, markers, place, area, told, history>>

(* sftp.remove of one listed file; a failure is logged and passed over. *)
CleanRemove(p, f) ==
    /\ cl[p] = "remove" /\ f \in doomed[p]
    /\ doomed' = [doomed EXCEPT ![p] = @ \ {f}]
    /\ \/ Upload(p, f, "none") /\ UNCHANGED bounds
       \/ Fault /\ UNCHANGED remote
    /\ UNCHANGED <<cl, clop, thread, locks, markers, place, top, rdir, told, history>>

(* sftp.rmdir of the package directory: only an empty one goes. *)
CleanRmPkg(p) ==
    /\ cl[p] = "remove" /\ doomed[p] = {}
    /\ rdir' = IF Arrived(p) = {} THEN rdir \ {p} ELSE rdir
    /\ CleanGoto(p, "rmtop")
    /\ UNCHANGED <<clop, doomed, thread, locks, markers, place, top, remote, told, bounds,
                   history>>

(* Mutant: the parent is removed with all that is in it.                   *)
CleanRmTopTree(p) ==
    /\ cl[p] = "rmtop"
    /\ top' = FALSE
    /\ CleanGoto(p, AfterClean(p))
    /\ UNCHANGED <<clop, doomed, thread, locks, markers, place, rdir, remote, told, bounds,
                   history>>

(* sftp.rmdir of the parent: kept while a sibling has a directory in it. *)
CleanRmTop(p) ==
    /\ cl[p] = "rmtop"
    /\ top' = (top /\ rdir # {})
    /\ CleanGoto(p, AfterClean(p))
    /\ UNCHANGED <<clop, doomed, thread, locks, markers, place, rdir, remote, told, bounds,
                   history>>

(* The rollback moves the package back to 001-ready, and prunes the        *)
(* staging directory when nothing, no marker either, is left in it.        *)
RollbackMove(p) ==
    /\ cl[p] = "move"
    /\ local' = local \ {p}
    /\ staging' = (staging /\ (local' # {} \/ error # {} \/ cancel # {}))
    /\ CleanGoto(p, "none")
    /\ UNCHANGED <<clop, doomed, thread, locks, markers, area, told, bounds, history>>

(* move_to_ingest brings a package back for another attempt. *)
MoveToIngest(p) ==
    /\ p \notin local /\ cl[p] = "none"
    /\ local' = local \cup {p}
    /\ staging' = TRUE
    /\ UNCHANGED <<thread, locks, markers, area, cleaner, told, bounds, history>>

-----------------------------------------------------------------------------
(* Worker w dies: max-requests recycling, the arbiter's timeout, a restart. *)
Kill(w) ==
    /\ kills < MaxKills
    /\ kills' = kills + 1
    /\ inflight' = [inflight EXCEPT ![w] = {}]
    /\ pc' = [pc EXCEPT ![w] = [p \in Pkg |-> "none"]]
    /\ left' = [left EXCEPT ![w] = [p \in Pkg |-> {}]]
    /\ cur' = [cur EXCEPT ![w] = [p \in Pkg |-> NoFile]]
    /\ flock' = [p \in Pkg |-> IF flock[p] = w THEN NoOne ELSE flock[p]]
    /\ closing' = {p \in closing : flock[p] # w}
    /\ ended' = [p \in Pkg |-> IF pc[w][p] \in Locked THEN "killed" ELSE ended[p]]
    /\ asked' = {p \in asked : pc[w][p] \notin Locked}
    /\ UNCHANGED <<markers, place, area, cleaner, told, faults>>

PutStep(w, p) ==
    \/ PutLock(w, p) \/ PutClear(w, p) \/ PutCheck(w, p) \/ PutConnect(w, p)
    \/ PutStat(w, p) \/ PutMkTop(w, p) \/ PutMkPkg(w, p) \/ PutWalk(w, p)
    \/ (\E f \in File : PutSend(w, p, f)) \/ PutSending(w, p) \/ PutConfirm(w, p)
    \/ PutVerify(w, p) \/ PutBreaks(w, p) \/ PutFailed(w, p) \/ PutCancelled(w, p)
    \/ PutDiscard(w, p)

CleanStep(p) ==
    \/ CleanList(p) \/ (\E f \in File : CleanRemove(p, f))
    \/ CleanRmPkg(p) \/ CleanRmTop(p) \/ RollbackMove(p)

Next ==
    \/ \E w \in Worker, p \in Pkg : MoveToSftp(w, p) \/ PutStep(w, p)
    \/ \E p \in Pkg : \/ RequestUploadCancel(p) \/ CheckMarker(p) \/ CheckWalk(p)
                      \/ PutClose(p)
                      \/ (\E o \in {"cleanup", "rollback"} : CleanBegin(p, o))
                      \/ CleanStep(p) \/ MoveToIngest(p)
    \/ \E w \in Worker : Kill(w)

Spec == Init /\ [][Next]_vars

(* A thread that was started runs, and closes its lock; requests need not  *)
(* come.                                                                   *)
FairSpec ==
    /\ Spec
    /\ \A p \in Pkg : WF_vars(PutClose(p)) /\ \A w \in Worker : WF_vars(PutStep(w, p))

-----------------------------------------------------------------------------
(* PROPERTIES *)

(* Every variable has its type. *)
TypeOK ==
    /\ inflight \in [Worker -> SUBSET Pkg]
    /\ pc \in [Worker -> [Pkg -> Label]]
    /\ left \in [Worker -> [Pkg -> SUBSET File]]
    /\ cur \in [Worker -> [Pkg -> File \cup {NoFile}]]
    /\ flock \in [Pkg -> Worker \cup {NoOne}]
    /\ closing \subseteq Pkg
    /\ error \subseteq Pkg /\ cancel \subseteq Pkg
    /\ local \subseteq Pkg /\ staging \in BOOLEAN
    /\ top \in BOOLEAN /\ rdir \subseteq Pkg
    /\ remote \in [Pkg -> [File -> {"none", "part", "full"}]]
    /\ cl \in [Pkg -> CleanLabel]
    /\ clop \in [Pkg -> {"none", "cleanup", "rollback"}]
    /\ doomed \in [Pkg -> SUBSET File]
    /\ told \in [Pkg -> Told]
    /\ faults \in 0..MaxFaults /\ kills \in 0..MaxKills
    /\ ended \in [Pkg -> Ended] /\ asked \subseteq Pkg

(* Host-wide single flight: two workers never both write the remote copy   *)
(* of one package ("Concurrent puts of one tree corrupt each other"), not  *)
(* even across bow-outs, restarts of the put and killed workers.           *)
OneWriter ==
    \A p \in Pkg : \A v, w \in Worker :
        pc[v][p] \in Locked /\ pc[w][p] \in Locked => v = w

(* A cleanup never takes the directory under a sibling that arrives while  *)
(* it runs, nor under a file of a put that goes on: the remote area stays  *)
(* a tree.                                                                 *)
AreaIsTree ==
    /\ rdir # {} => top
    /\ \A p \in Pkg : Arrived(p) # {} => p \in rdir

(* When no put of a package is at work, how the last one ended can be read *)
(* off the disks, whatever was started in vain since: a failed one left    *)
(* its marker, a finished one left every file complete.  A put ends in no  *)
(* other way, unless it was cancelled, killed with its worker, or could    *)
(* not make its lock file or its marker ("mute").                          *)
OutcomeKnown ==
    \A p \in Pkg : AtRest(p) =>
        /\ ended[p] # "running"
        /\ ended[p] = "sent" => Sent(p)
        /\ ended[p] = "failed" => p \in error

(* check_sftp gives a new answer a. *)
Answers(p, a) == told'[p] = a /\ told[p] # a

(* upload_complete, with no put at work, means that every file is          *)
(* complete; two polls are deceived: one after a put that ended without a  *)
(* verdict, and one that a failing put crossed between the poll's look at  *)
(* the marker and its count of the files.                                  *)
CompleteAtRest ==
    [][\A p \in Pkg : Answers(p, "upload_complete") /\ AtRest(p) =>
         \/ Sent(p)
         \/ ended[p] \in Silent
         \/ told[p] = "crossed" /\ p \in error]_vars

(* A started put settles: the poller can in the end read a verdict, unless *)
(* the put could not make its lock file or its marker.                     *)
Settles == \A p \in Pkg : Active(p) ~> p \in error \/ Sent(p) \/ ended[p] = "mute"

(* A cancellation reaches the put from any worker: one that is asked to    *)
(* stop while it has files to send does not finish, whichever other puts   *)
(* of the package bow out or start meanwhile.                              *)
CancelStops == \A p \in asked : \A w \in Worker :
    ~(pc[w][p] = "discard" /\ ended[p] = "sent")

-----------------------------------------------------------------------------
(* What the comments say and the code does not keep.                       *)

(* The registry names the puts this process is running: "if this process   *)
(* already has a put running ... no second put is started".                *)
InFlightHasThread ==
    \A w \in Worker : \A p \in inflight[w] : pc[w][p] # "none"

(* Completion is the remote file count reaching the local count.           *)
CompleteIsComplete ==
    [][\A p \in Pkg : Answers(p, "upload_complete") => Sent(p)]_vars

(* A poll that has its answer while no put is at work is right: "Failure   *)
(* surfaces through the .upload_error marker".                             *)
CompleteIsFinal ==
    [][\A p \in Pkg : Answers(p, "upload_complete") /\ AtRest(p) => Sent(p)]_vars

(* The death of a put, with its worker or without its marker, is "surfaced *)
(* at once".                                                               *)
DeathIsTold == \A p \in Pkg : AtRest(p) /\ ended[p] \in {"killed", "mute"} => p \in error

(* A retry starts clean: a put that has not yet begun its attempt is not   *)
(* reported as failed.                                                     *)
NoStaleVerdict ==
    [][\A p \in Pkg : Answers(p, "upload_failed") =>
         \A w \in Worker : ~(pc[w][p] \in Early /\ flock[p] \in {w, NoOne})]_vars

(* Packages of a collection may upload side by side: no put fails unless   *)
(* an SFTP operation does.                                                 *)
NoSpuriousError == faults = 0 => error = {}

(* A package that a rollback has returned to 001-ready has no files left   *)
(* in the SFTP area once nothing works on it.                              *)
ReturnedIsClean ==
    \A p \in Pkg : AtRest(p) /\ cl[p] = "none" /\ clop[p] = "rollback" /\ p \notin local
                   => Arrived(p) = {}
=============================================================================
