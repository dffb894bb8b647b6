------------------------------- MODULE DipCopy -------------------------------
(***************************************************************************)
(* The copy of a DIP from DuraCloud Preserve (DCP) to Wasabi               *)
(* (lib/dip_ops.py:208-444, routes/dip.py:73-116) and its backfill         *)
(* (scripts/dip_backfill.py:72-135).  A request lists the DIP in DCP once  *)
(* and, if it is complete, in Wasabi once; each file that the public site  *)
(* is served from is then skipped, or read, verified against the listing   *)
(* and put.  Meanwhile Archivematica still writes the DIP, or replaces a   *)
(* file of it, and another request copies it too.                          *)
(*                                                                         *)
(* A file's contents are the "first" and the "second" that DCP has, an     *)
(* "older" one that an earlier DIP left in Wasabi, and "wrong" bytes of    *)
(* the first's size.                                                       *)
(***************************************************************************)
EXTENDS Naturals, FiniteSets, FiniteSetsExt

CONSTANTS
    DipFile,      \* the files of the DIP
    Served,       \* those the public site is served from
    Mets,         \* the METS
    Multi,        \* those DCP has as multipart objects
    Alike,        \* those whose contents all have one size
    Request,      \* requests to copy the DIP
    Backfill,     \* those that are runs of the backfill script
    MaxTransient, \* _TRANSIENT_RETRIES
    MaxRenewals   \* bound on files replaced in DCP

ASSUME DipAssumption ==
    /\ IsFiniteSet(DipFile) /\ Served \subseteq DipFile /\ Mets \in Served
    /\ Multi \subseteq DipFile /\ Alike \subseteq DipFile
    /\ Backfill \subseteq Request
    /\ MaxTransient \in Nat /\ MaxRenewals \in Nat

VARIABLES
    dcp,          \* the content of each file in DCP, or "absent"
    wasabi,       \* and in Wasabi
    renewals,
    dipAt,        \* how far each request has come
    listed,       \* its listing of DCP
    existing,     \* its listing of Wasabi
    todo,         \* files it has still to copy
    hand,         \* the content it has read and verified, or "absent"
    retries,      \* retries of the file at hand
    failed        \* has a file failed?

requests == <<dipAt, listed, existing, todo, hand, retries, failed>>
dipVars == <<dcp, wasabi, renewals, requests>>

Size(f, content) ==
    IF content = "absent" THEN 0
    ELSE IF f \notin Alike /\ content \in {"older", "second"} THEN 2 ELSE 1

Nothing == [f \in DipFile |-> "absent"]

DipInit ==
    /\ dcp = Nothing
    /\ wasabi \in [DipFile -> {"absent", "older"}]
    /\ \A f \in DipFile \ Served : wasabi[f] = "absent"
    /\ renewals = 0
    /\ dipAt = [r \in Request |-> "idle"]
    /\ listed = [r \in Request |-> Nothing]
    /\ existing = [r \in Request |-> Nothing]
    /\ todo = [r \in Request |-> {}]
    /\ hand = [r \in Request |-> "absent"]
    /\ retries = [r \in Request |-> 0]
    /\ failed = [r \in Request |-> FALSE]

Goes(r, l) == dipAt' = [dipAt EXCEPT ![r] = l]

(* The request is answered; of its variables the model keeps what was      *)
(* listed if all of that was copied.                                       *)
Answers(r, l) ==
    /\ Goes(r, l)
    /\ failed' = [failed EXCEPT ![r] = FALSE]
    /\ listed' = [listed EXCEPT ![r] = IF l = "copied" THEN @ ELSE Nothing]
    /\ existing' = [existing EXCEPT ![r] = Nothing]
    /\ todo' = [todo EXCEPT ![r] = {}]

-----------------------------------------------------------------------------
(* Archivematica writes a file of the DIP, or replaces it.                 *)
Written(f) ==
    /\ dcp[f] = "absent"
    /\ dcp' = [dcp EXCEPT ![f] = "first"]
    /\ UNCHANGED <<wasabi, renewals, requests>>
Renewed(f) ==
    /\ dcp[f] = "first" /\ renewals < MaxRenewals
    /\ renewals' = renewals + 1
    /\ dcp' = [dcp EXCEPT ![f] = "second"]
    /\ UNCHANGED <<wasabi, requests>>

(* check_complete: the METS is there, and the sizes add up to the one that *)
(* Archivematica recorded for the DIP.                                     *)
Complete(listing) ==
    /\ listing[Mets] # "absent"
    /\ MapThenSumSet(LAMBDA f : Size(f, listing[f]), DipFile) = Cardinality(DipFile)

(* copy_dip, or the backfill, which does not ask for the whole DIP and has *)
(* listed Wasabi before.                                                   *)
ListDcp(r) ==
    /\ dipAt[r] = IF r \in Backfill THEN "dcp" ELSE "idle"
    /\ IF r \in Backfill \/ Complete(dcp)
       THEN /\ Goes(r, IF r \in Backfill THEN "files" ELSE "wasabi")
            /\ listed' = [listed EXCEPT ![r] = dcp]
            /\ todo' = [todo EXCEPT ![r] = {f \in Served : dcp[f] # "absent"}]
            /\ UNCHANGED <<existing, failed>>
       ELSE Answers(r, "incomplete")
    /\ UNCHANGED <<dcp, wasabi, renewals, hand, retries>>
ListWasabi(r) ==
    /\ dipAt[r] = IF r \in Backfill THEN "idle" ELSE "wasabi"
    /\ Goes(r, IF r \in Backfill THEN "dcp" ELSE "files")
    /\ existing' = [existing EXCEPT ![r] = wasabi]
    /\ UNCHANGED <<dcp, wasabi, renewals, listed, todo, hand, retries, failed>>
ListingFails(r) ==
    /\ dipAt[r] \in {"idle", "dcp", "wasabi"}
    /\ Answers(r, "failed")
    /\ UNCHANGED <<dcp, wasabi, renewals, hand, retries>>

(* Mutant: the size alone tells that Wasabi has a file.                    *)
HasCopyOfSize(r, f) ==
    /\ existing[r][f] # "absent"
    /\ Size(f, existing[r][f]) = Size(f, listed[r][f])

(* The same size and, for a single-part object, the same ETag.             *)
HasCopy(r, f) ==
    /\ existing[r][f] # "absent"
    /\ Size(f, existing[r][f]) = Size(f, listed[r][f])
    /\ f \in Multi \/ existing[r][f] = listed[r][f]

(* One file after another; the next one starts with all its retries.       *)
Done(r, f) ==
    /\ todo' = [todo EXCEPT ![r] = @ \ {f}]
    /\ retries' = [retries EXCEPT ![r] = 0]
    /\ hand' = [hand EXCEPT ![r] = "absent"]
FileFails(r, f) == Done(r, f) /\ failed' = [failed EXCEPT ![r] = TRUE]

(* A read or a put that broke is tried again, but not by the backfill.     *)
Transient(r, f) ==
    IF r \notin Backfill /\ retries[r] < MaxTransient
    THEN /\ retries' = [retries EXCEPT ![r] = @ + 1]
         /\ hand' = [hand EXCEPT ![r] = "absent"]
         /\ UNCHANGED <<todo, failed>>
    ELSE FileFails(r, f)

(* The file copied now: the files are taken in the order of the listing.   *)
Current(r) == CHOOSE f \in todo[r] : TRUE
Copying(r) == dipAt[r] = "files" /\ todo[r] # {}
store == <<dcp, wasabi, renewals, dipAt, listed, existing>>

Skip(r) ==
    /\ Copying(r) /\ hand[r] = "absent" /\ HasCopy(r, Current(r))
    /\ Done(r, Current(r))
    /\ UNCHANGED <<store, failed>>

(* GetObject gives what DCP has by now, or wrong bytes; of a single-part   *)
(* object the MD5 is compared with the listing, of a multipart one the     *)
(* parts', or only the size when DCP does not tell those of the parts.     *)
ReadFile(r) ==
    LET f == Current(r) IN
    /\ Copying(r) /\ hand[r] = "absent" /\ ~HasCopy(r, f)
    /\ \E content \in {dcp[f], "wrong"}, partSizes \in BOOLEAN :
          IF Size(f, content) # Size(f, listed[r][f]) THEN Transient(r, f)
          ELSE IF content # listed[r][f] /\ (f \notin Multi \/ partSizes) THEN FileFails(r, f)
          ELSE hand' = [hand EXCEPT ![r] = content] /\ UNCHANGED <<todo, retries, failed>>
    /\ UNCHANGED store
ReadBreaks(r) ==
    /\ Copying(r) /\ hand[r] = "absent" /\ ~HasCopy(r, Current(r))
    /\ Transient(r, Current(r))
    /\ UNCHANGED store

(* PutObject succeeds, or breaks before or after it took effect, or its    *)
(* answer has another ETag.                                                *)
PutFile(r) ==
    /\ Copying(r) /\ hand[r] # "absent"
    /\ wasabi' = [wasabi EXCEPT ![Current(r)] = hand[r]]
    /\ Done(r, Current(r)) /\ UNCHANGED failed
    /\ UNCHANGED <<dcp, renewals, dipAt, listed, existing>>
PutBreaks(r) ==
    /\ Copying(r) /\ hand[r] # "absent"
    /\ wasabi' \in {wasabi, [wasabi EXCEPT ![Current(r)] = hand[r]]}
    /\ Transient(r, Current(r))
    /\ UNCHANGED <<dcp, renewals, dipAt, listed, existing>>
PutDiffers(r) ==
    /\ Copying(r) /\ hand[r] # "absent"
    /\ wasabi' = [wasabi EXCEPT ![Current(r)] = hand[r]]
    /\ FileFails(r, Current(r))
    /\ UNCHANGED <<dcp, renewals, dipAt, listed, existing>>

Answered(r) ==
    /\ dipAt[r] = "files" /\ todo[r] = {}
    /\ Answers(r, IF failed[r] THEN "failed" ELSE "copied")
    /\ UNCHANGED <<dcp, wasabi, renewals, hand, retries>>

(* The caller asks again later.                                            *)
AskAgain(r) ==
    /\ dipAt[r] \in {"incomplete", "failed"}
    /\ Goes(r, "idle")
    /\ UNCHANGED <<dcp, wasabi, renewals, listed, existing, todo, hand, retries, failed>>

RequestStep(r) ==
    \/ ListDcp(r) \/ ListWasabi(r) \/ ListingFails(r)
    \/ Skip(r) \/ ReadFile(r) \/ ReadBreaks(r)
    \/ PutFile(r) \/ PutBreaks(r) \/ PutDiffers(r) \/ Answered(r)
DipNext ==
    \/ \E r \in Request : RequestStep(r) \/ AskAgain(r)
    \/ \E f \in DipFile : Written(f) \/ Renewed(f)
DipSpec == DipInit /\ [][DipNext]_dipVars

-----------------------------------------------------------------------------
(* The types of all variables.                                             *)
DipTypeOK ==
    LET Content == {"absent", "older", "first", "second", "wrong"} IN
    /\ dcp \in [DipFile -> {"absent", "first", "second"}]
    /\ wasabi \in [DipFile -> Content]
    /\ renewals \in 0..MaxRenewals
    /\ dipAt \in [Request -> {"idle", "dcp", "wasabi", "files", "incomplete", "failed", "copied"}]
    /\ listed \in [Request -> [DipFile -> {"absent", "first", "second"}]]
    /\ \A r \in Request : existing[r] \in [DipFile -> Content]
    /\ todo \in [Request -> SUBSET Served]
    /\ hand \in [Request -> Content]
    /\ retries \in [Request -> 0..MaxTransient]
    /\ failed \in [Request -> BOOLEAN]

(* "copied" means that every served file of the listing is in Wasabi, with *)
(* a content of DCP's, and with the listed one if it has not been replaced *)
(* there.  Of a multipart object only the size is known to agree, for that *)
(* is all a skip compares (:282-302, :404-417).                            *)
DipOkMeansThere ==
    \A r \in Request, f \in Served :
        dipAt[r] = "copied" /\ listed[r][f] # "absent" =>
            IF f \in Multi
            THEN wasabi[f] # "absent" /\ (dcp[f] = "first" => Size(f, wasabi[f]) = Size(f, "first"))
            ELSE wasabi[f] \in {"first", "second"} /\ (dcp[f] = "first" => wasabi[f] = "first")

(* Violated: "copied: every served file is in Wasabi, now or from before"  *)
(* (:376): an older multipart object of the same size passes for it.       *)
DipOkMeansThereAlways ==
    \A r \in Request, f \in Served :
        dipAt[r] = "copied" /\ listed[r][f] # "absent" => wasabi[f] \in {"first", "second"}
=============================================================================
