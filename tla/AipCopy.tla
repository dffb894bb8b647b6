------------------------------- MODULE AipCopy --------------------------------
(***************************************************************************)
(* The copy of one AIP to its key in the Wasabi AIP store                  *)
(* (lib/aip_ops.py, lib/duracloud_ops.py).                                 *)
(*                                                                         *)
(* POST /copy-to-wasabi reads the AIP from Archivematica, or, when it is   *)
(* large, from its replica in DuraCloud; POST /copy-from-duracloud always  *)
(* reads the replica.  Every caller (Stage 6, the backfill tool, a retry   *)
(* from the dashboard) is served by a gunicorn worker of its own, and      *)
(* nothing keeps two copies of one AIP apart: each one looks at the key,   *)
(* deletes an object of the wrong size, streams, and, from DuraCloud,      *)
(* verifies AFTER the upload and deletes what proved wrong.                *)
(*                                                                         *)
(* Wasabi replaces an object only when its upload completes.               *)
(***************************************************************************)
EXTENDS Naturals

CONSTANTS
    Caller,      \* the workers that copy the AIP
    NoOne,       \* "nobody has stored the object"
    Sizeless,    \* may a HEAD come back without a size?  (S3 always gives one)
    MaxKills     \* how many times a worker dies

ASSUME AipAssumption ==
    /\ NoOne \notin Caller
    /\ Sizeless \in BOOLEAN
    /\ MaxKills \in Nat

VARIABLES
    large,       \* is the AIP over the threshold, and DuraCloud configured?
    source,      \* how the replica is held
    strict,      \* does urllib3 reject a body shorter than its Content-Length?
    obj,         \* what is at the key
    progress,    \* does the copy-progress file exist?
    pc, route,   \* per caller: where it is, and which source it reads
    known,       \* per caller: does it know the size of the AIP?
    sent,        \* per caller: what it has uploaded
    verdict,     \* per caller: the answer its copy is going to get
    ans,         \* per caller: the last answer
    kills,
    seen,        \* history, per caller: the object as its probe saw it
    by,          \* history: who stored the object
    refuted,     \* history: the object at the key is not what its manifest says
    slipped,     \* history: a delete of a refuted object failed, or its worker died
    leftover,    \* history: the progress file was left by a failed removal or a kill
    crossed      \* history: two copies have been in flight at once

world == <<large, source, strict>>
store == <<obj, by, refuted>>
local == <<route, known, sent, verdict>>
past == <<kills, slipped, leftover, crossed>>
vars == <<world, store, progress, pc, local, ans, past, seen>>

(* The object: "short" has the wrong size, "bad" has the right one and is  *)
(* not the AIP.                                                            *)
Content == {"good", "bad", "short"}
Object == Content \cup {"none"}
Source == {"dcp", "single", "chunked"}
Streaming == {"open", "seed", "upload", "verify", "cleanup", "finish"}
Label == {"idle", "lookup", "probe", "delete", "manifest"} \cup Streaming
Answer == {"none", "ok", "failed"}

Init ==
    /\ large \in BOOLEAN /\ source \in Source /\ strict \in BOOLEAN
    /\ obj \in {"none", "good", "short"}
    /\ by = NoOne /\ refuted = FALSE
    /\ progress = FALSE
    /\ pc = [w \in Caller |-> "idle"]
    /\ route = [w \in Caller |-> "am"]
    /\ known = [w \in Caller |-> FALSE]
    /\ sent = [w \in Caller |-> "none"]
    /\ verdict = [w \in Caller |-> "none"]
    /\ ans = [w \in Caller |-> "none"]
    /\ kills = 0
    /\ seen = [w \in Caller |-> "none"]
    /\ slipped = FALSE /\ leftover = FALSE /\ crossed = FALSE

Goto(w, l) == pc' = [pc EXCEPT ![w] = l]

(* The copy is over: its local variables are gone. *)
Exit(w) ==
    /\ Goto(w, "idle")
    /\ route' = [route EXCEPT ![w] = "am"]
    /\ known' = [known EXCEPT ![w] = FALSE]
    /\ sent' = [sent EXCEPT ![w] = "none"]
    /\ verdict' = [verdict EXCEPT ![w] = "none"]
    /\ seen' = [seen EXCEPT ![w] = "none"]
Reply(w, a) == Exit(w) /\ ans' = [ans EXCEPT ![w] = a]

(* On to the finally clause, with the answer to give. *)
Settle(w, a) == Goto(w, "finish") /\ verdict' = [verdict EXCEPT ![w] = a]

(* The key's object is replaced by, or removed in favour of, o. *)
Place(w, o) ==
    /\ obj' = o
    /\ by' = IF o = "none" THEN NoOne ELSE w
    /\ refuted' = FALSE

FromReplica(w) == route[w] = "dc"
FromDcp(w) == FromReplica(w) /\ source = "dcp"

-----------------------------------------------------------------------------
(* A request: copy-to-wasabi (r = "am") or copy-from-duracloud (r = "dc"). *)
Begin(w, r) ==
    /\ pc[w] = "idle"
    /\ Goto(w, "lookup")
    /\ route' = [route EXCEPT ![w] = r]
    /\ ans' = [ans EXCEPT ![w] = "none"]
    /\ crossed' = (crossed \/ \E v \in Caller : pc[v] # "idle")
    /\ UNCHANGED <<world, store, progress, known, sent, verdict, kills, slipped, leftover, seen>>

(* Archivematica's metadata: the key, and the size, which may be missing.  *)
(* A large AIP is handed over to DuraCloud, where it is looked up again.   *)
LookUp(w) ==
    /\ pc[w] = "lookup" /\ ~FromReplica(w)
    /\ \/ Reply(w, "failed")
       \/ /\ large
          /\ route' = [route EXCEPT ![w] = "dc"]
          /\ UNCHANGED <<pc, known, sent, verdict, ans, seen>>
       \/ \E k \in BOOLEAN :
            /\ large => ~k
            /\ known' = [known EXCEPT ![w] = k]
            /\ Goto(w, "probe")
            /\ UNCHANGED <<route, sent, verdict, ans, seen>>
    /\ UNCHANGED <<world, store, progress, past>>

(* For the replica, Archivematica's metadata or, when it is down, a listing *)
(* of the replica, which gives no size.                                    *)
ResolveKeyAndSize(w) ==
    /\ pc[w] = "lookup" /\ FromReplica(w)
    /\ \/ Reply(w, "failed")
       \/ \E k \in BOOLEAN :
            /\ known' = [known EXCEPT ![w] = k]
            /\ Goto(w, "probe")
            /\ UNCHANGED <<route, sent, verdict, ans, seen>>
    /\ UNCHANGED <<world, store, progress, past>>

(* Where a copy that has to be made begins. *)
Start(w) ==
    IF ~FromReplica(w) THEN "seed" ELSE IF source = "dcp" THEN "open" ELSE "manifest"

(* Mutant: an object at the key is always taken for a stale one.           *)
ProbeDeletes(w) ==
    /\ pc[w] = "probe"
    /\ \/ Reply(w, "failed")
       \/ /\ Goto(w, IF obj = "none" THEN Start(w) ELSE "delete")
          /\ seen' = [seen EXCEPT ![w] = obj]
          /\ UNCHANGED <<local, ans>>
    /\ UNCHANGED <<world, store, progress, past>>

(* Mutant: the object's size is not compared.                              *)
ProbeExists(w) ==
    /\ pc[w] = "probe"
    /\ \/ Reply(w, "failed")
       \/ obj # "none" /\ Reply(w, "ok")
       \/ /\ obj = "none"
          /\ Goto(w, Start(w))
          /\ seen' = [seen EXCEPT ![w] = obj]
          /\ UNCHANGED <<local, ans>>
    /\ UNCHANGED <<world, store, progress, past>>

(* Mutant: a skipped copy is answered with a word no caller knows.         *)
ProbeSkips(w) ==
    /\ pc[w] = "probe"
    /\ \/ Reply(w, "failed")
       \/ obj \in {"good", "bad"} /\ Reply(w, "idempotent")
       \/ /\ obj \in {"none", "short"}
          /\ Goto(w, IF obj = "none" THEN Start(w) ELSE "delete")
          /\ seen' = [seen EXCEPT ![w] = obj]
          /\ UNCHANGED <<local, ans>>
    /\ UNCHANGED <<world, store, progress, past>>

(* The idempotency probe, a HEAD of the key.  An error, or a 403, fails    *)
(* the copy.  An object of the expected size, or any when no size is       *)
(* expected, is taken for the AIP; one of another size has to go; one of   *)
(* unknown size is copied over.                                            *)
Matches(w) == obj # "none" /\ (known[w] => obj \in {"good", "bad"})

Probe(w) ==
    /\ pc[w] = "probe"
    /\ \/ Reply(w, "failed")
       \/ Matches(w) /\ Reply(w, "ok")
       \/ /\ \/ obj = "none" /\ Goto(w, Start(w))
             \/ obj # "none" /\ ~Matches(w) /\ Goto(w, "delete")
             \/ obj # "none" /\ Sizeless /\ Goto(w, Start(w))
          /\ seen' = [seen EXCEPT ![w] = obj]
          /\ UNCHANGED <<local, ans>>
    /\ UNCHANGED <<world, store, progress, past>>

(* delete_object of the stale object. *)
Delete(w) ==
    /\ pc[w] = "delete"
    /\ \/ Place(w, "none") /\ Goto(w, Start(w)) /\ UNCHANGED <<local, ans, seen>>
       \/ Reply(w, "failed") /\ UNCHANGED store
    /\ UNCHANGED <<world, progress, past>>

(* The manifest of a chunked replica, which gives the size as well. *)
Manifest(w) ==
    /\ pc[w] = "manifest"
    /\ \/ /\ Goto(w, "seed")
          /\ known' = [known EXCEPT ![w] = @ \/ source = "chunked"]
          /\ UNCHANGED <<route, sent, verdict, ans, seen>>
       \/ Reply(w, "failed")
    /\ UNCHANGED <<world, store, progress, past>>

(* Between its seed, which for DCP comes only after the open, and its      *)
(* finally clause a copy has the progress file in its care.                *)
Shown(w) ==
    \/ pc[w] \in {"upload", "verify", "cleanup", "finish"}
    \/ pc[w] = "open" /\ ~FromDcp(w)

(* write_copy_progress, when the size is known (DCP always reports one):   *)
(* every error is swallowed.                                               *)
WriteCopyProgress(w) ==
    \/ UNCHANGED progress
    \/ (known[w] \/ FromDcp(w)) /\ progress' = TRUE

(* The progress file is seeded with zero bytes. *)
Seed(w) ==
    /\ pc[w] = "seed"
    /\ WriteCopyProgress(w)
    /\ Goto(w, IF FromDcp(w) THEN "upload" ELSE "open")
    /\ UNCHANGED <<world, store, local, ans, past, seen>>

(* The source's stream is opened.  For DCP this precedes the progress file *)
(* and the try, and an object whose size Archivematica disagrees with is   *)
(* refused.                                                                *)
Open(w) ==
    /\ pc[w] = "open"
    /\ \/ /\ Goto(w, IF FromDcp(w) THEN "seed" ELSE "upload")
          /\ UNCHANGED <<local, ans, seen>>
       \/ FromDcp(w) /\ Reply(w, "failed")
       \/ /\ ~FromDcp(w) /\ Settle(w, "failed")
          /\ UNCHANGED <<route, known, sent, ans, seen>>
    /\ UNCHANGED <<world, store, progress, past>>

(* What the upload may have stored when it completes.  A replica's reader  *)
(* that knows the size, and DCP's that has agreed on it, serve no other    *)
(* number of bytes; for Archivematica it is urllib3 that can tell.  The    *)
(* chunks of a manifest may fail to add up to the whole.                   *)
Sized(w) == IF FromReplica(w) THEN source # "chunked" /\ known[w] ELSE strict
Streams(w) == IF Sized(w) THEN {"good", "bad"} ELSE Content

(* verify_total, the check after the upload: only a manifest has the size  *)
(* and the digest of the whole.                                            *)
Refutes(w, c) == FromReplica(w) /\ source = "chunked" /\ c # "good"

(* upload_fileobj: the upload completes and the object is replaced; or it  *)
(* breaks, and nothing changes at the key.  A replica's reader that finds  *)
(* bytes it cannot verify breaks it and calls for the cleanup.             *)
Upload(w) ==
    /\ pc[w] = "upload"
    /\ \/ \E c \in Streams(w) :
            /\ obj' = c /\ by' = w /\ refuted' = Refutes(w, c)
            /\ sent' = [sent EXCEPT ![w] = c]
            /\ Goto(w, "verify")
            /\ UNCHANGED verdict
       \/ Settle(w, "failed") /\ UNCHANGED <<store, sent>>
       \/ FromReplica(w) /\ Goto(w, "cleanup") /\ UNCHANGED <<store, sent, verdict>>
    /\ UNCHANGED <<world, progress, route, known, ans, past, seen>>

(* The callback of the upload advances the progress file. *)
WriteProgress(w) ==
    /\ pc[w] = "upload"
    /\ WriteCopyProgress(w)
    /\ UNCHANGED <<world, store, pc, local, ans, past, seen>>

(* Mutant: a failed verification is only reported.                         *)
VerifyKeeps(w) ==
    /\ pc[w] = "verify"
    /\ Settle(w, IF Refutes(w, sent[w]) THEN "failed" ELSE "ok")
    /\ UNCHANGED <<world, store, progress, route, known, sent, ans, past, seen>>

(* What was uploaded is verified, if there is something to hold it against.*)
Verify(w) ==
    /\ pc[w] = "verify"
    /\ IF Refutes(w, sent[w]) THEN Goto(w, "cleanup") /\ UNCHANGED verdict
                              ELSE Settle(w, "ok")
    /\ UNCHANGED <<world, store, progress, route, known, sent, ans, past, seen>>

(* "remove the bad Wasabi object": whatever is at the key now; a failure   *)
(* is logged.                                                              *)
CleanUp(w) ==
    /\ pc[w] = "cleanup"
    /\ Settle(w, "failed")
    /\ \/ Place(w, "none") /\ UNCHANGED slipped
       \/ slipped' = (slipped \/ (refuted /\ by = w)) /\ UNCHANGED store
    /\ UNCHANGED <<world, progress, route, known, sent, ans, kills, leftover, crossed, seen>>

(* Mutant: the progress file is removed only by a copy that succeeds.      *)
FinishLeaves(w) ==
    /\ pc[w] = "finish"
    /\ progress' = (progress /\ verdict[w] # "ok")
    /\ Reply(w, verdict[w])
    /\ UNCHANGED <<world, store, past>>

(* The finally clause removes the progress file, a failure is swallowed,   *)
(* and the copy is answered.                                               *)
Finish(w) ==
    /\ pc[w] = "finish"
    /\ \/ progress' = FALSE /\ leftover' = FALSE
       \/ progress /\ leftover' = TRUE /\ UNCHANGED progress
    /\ Reply(w, verdict[w])
    /\ UNCHANGED <<world, store, kills, slipped, crossed>>

(* The worker is killed: no finally clause runs, an upload under way never *)
(* completes.                                                              *)
Kill(w) ==
    /\ pc[w] # "idle" /\ kills < MaxKills
    /\ kills' = kills + 1
    /\ slipped' = (slipped \/ (refuted /\ by = w))
    /\ leftover' = (leftover \/ (progress /\ Shown(w)))
    /\ Exit(w)
    /\ UNCHANGED <<world, store, progress, ans, crossed>>

CopyAipToWasabi(w) ==
    \/ LookUp(w) \/ ResolveKeyAndSize(w) \/ Probe(w) \/ Delete(w) \/ Manifest(w)
    \/ Seed(w) \/ Open(w) \/ Upload(w) \/ WriteProgress(w) \/ Verify(w) \/ CleanUp(w) \/ Finish(w)

Next ==
    \E w \in Caller :
        \/ \E r \in {"am", "dc"} : Begin(w, r)
        \/ CopyAipToWasabi(w)
        \/ Kill(w)

Spec == Init /\ [][Next]_vars

-----------------------------------------------------------------------------
(* PROPERTIES *)

(* Every variable has its type. *)
TypeOK ==
    /\ large \in BOOLEAN /\ source \in Source /\ strict \in BOOLEAN
    /\ obj \in Object /\ by \in Caller \cup {NoOne} /\ refuted \in BOOLEAN
    /\ progress \in BOOLEAN
    /\ pc \in [Caller -> Label]
    /\ route \in [Caller -> {"am", "dc"}]
    /\ known \in [Caller -> BOOLEAN]
    /\ sent \in [Caller -> Object]
    /\ verdict \in [Caller -> Answer]
    /\ ans \in [Caller -> Answer]
    /\ kills \in 0..MaxKills
    /\ seen \in [Caller -> Object]
    /\ slipped \in BOOLEAN /\ leftover \in BOOLEAN /\ crossed \in BOOLEAN

(* Caller w's copy is answered with ok. *)
Accepts(w) == pc[w] # "idle" /\ ans[w] # "ok" /\ ans'[w] = "ok"

(* As long as copies of the AIP come one at a time, failures, retries and  *)
(* killed workers never remove or replace a good copy.                     *)
GoodKept == [][obj = "good" /\ ~crossed' => obj' = "good"]_vars

(* When copies do overlap, a good copy is lost only to one that had looked *)
(* at the key before it was there: no retry endangers what it can see.     *)
LostToStaleProbe ==
    [][obj = "good" /\ obj' # "good" =>
         \E w \in Caller : /\ pc[w] \in {"delete", "upload", "cleanup"}
                           /\ pc'[w] # pc[w]
                           /\ seen[w] # "good"]_vars

(* One at a time, an ok answer to a caller that knows the size means that  *)
(* an object of this size is at the key, provided urllib3 rejects a short  *)
(* download from Archivematica.                                            *)
OkIsSized ==
    [][\A w \in Caller :
         Accepts(w) /\ known[w] /\ ~crossed /\ (strict \/ FromReplica(w))
           => obj \in {"good", "bad"}]_vars

(* An object that is not what its manifest says does not stay at the key:  *)
(* its copy verifies and deletes it, unless the worker dies before it has, *)
(* or the delete fails.                                                    *)
RefutedIsRemoved ==
    refuted => slipped \/ \E w \in Caller : pc[w] \in {"verify", "cleanup"}

(* The progress file means an active copy, unless a removal failed or a    *)
(* worker died: every way out of a copy tries to remove it, however many   *)
(* copies share it.                                                        *)
ProgressMeansActive ==
    progress => leftover \/ \E w \in Caller : pc[w] \in Streaming

-----------------------------------------------------------------------------
(* What the comments say and the code does not keep.                       *)

(* "a corrupt copy can never masquerade as a preservation copy": one that  *)
(* its manifest refutes is never accepted by a caller that knows the size. *)
NoMasquerade == [][\A w \in Caller : Accepts(w) /\ known[w] => ~refuted]_vars

(* "a dead copy never leaves a stale ... file": the progress file means an *)
(* active copy.                                                            *)
ProgressIsActive == progress => \E w \in Caller : pc[w] \in Streaming

(* The Archivematica path's size check: ok means the expected size.        *)
OkIsSizedAlways ==
    [][\A w \in Caller : Accepts(w) /\ known[w] /\ ~crossed => obj \in {"good", "bad"}]_vars

(* An accepted copy is there to stay.                                      *)
AcceptedStays ==
    [][obj = "good" /\ (\E w \in Caller : ans[w] = "ok") => obj' = "good"]_vars

-----------------------------------------------------------------------------
(* STRENGTHENINGS                                                          *)

(* A progress file that was not left behind is in some caller's care.      *)
ProgressShown == progress => leftover \/ \E w \in Caller : Shown(w)

(* The refuted object is its copy's to verify and to delete.               *)
RefutedIsOwned ==
    refuted => slipped \/ \E w \in Caller :
        /\ by = w
        /\ \/ pc[w] = "verify" /\ Refutes(w, sent[w])
           \/ pc[w] = "cleanup"

(* The callers that are still going to delete or to upload. *)
Pending == {"delete", "manifest", "seed", "open", "upload", "cleanup"}

(* No caller goes on once its probe has seen a good copy. *)
ProbedUnseen ==
    \A w \in Caller : pc[w] \in Pending \cup {"verify"} => seen[w] # "good"

(* Without overlap there is one copy in flight, no good copy at the key    *)
(* before its upload, and what it has uploaded after.                      *)
Lone == crossed \/ \A v, w \in Caller : pc[v] # "idle" /\ pc[w] # "idle" => v = w
OwnObject ==
    crossed \/ \A w \in Caller : /\ pc[w] \in Pending => obj # "good"
                                 /\ pc[w] = "verify" => obj = sent[w]
=============================================================================
