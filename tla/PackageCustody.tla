---------------------------- MODULE PackageCustody ----------------------------
(***************************************************************************)
(* What the staging area promises about the packages of a collection: a   *)
(* package is in 001-ready, in 002-ingest or archived, it moves between    *)
(* the first two as a whole, and a file leaves the local disk only after   *)
(* its copy in Wasabi was verified.  Locks, workers and the order of the   *)
(* file-system calls are of no concern here.                               *)
(***************************************************************************)
CONSTANTS Pkg, File

VARIABLES
    place,   \* "ready", "ingest" or "archived"
    kept,    \* the files of the package still on the local disk
    safe     \* <<package, file>> pairs verified in Wasabi

custody == <<place, kept, safe>>

Init ==
    /\ place \in [Pkg -> {"ready", "ingest"}]
    /\ kept = [p \in Pkg |-> File]
    /\ safe = {}

Ingest(p) ==
    /\ place[p] = "ready"
    /\ place' = [place EXCEPT ![p] = "ingest"]
    /\ UNCHANGED <<kept, safe>>

Return(p) ==
    /\ place[p] = "ingest"
    /\ place' = [place EXCEPT ![p] = "ready"]
    /\ UNCHANGED <<kept, safe>>

Verify(p, f) ==
    /\ place[p] = "ingest" /\ f \in kept[p]
    /\ safe' = safe \cup {<<p, f>>}
    /\ UNCHANGED <<place, kept>>

Prune(p, f) ==
    /\ <<p, f>> \in safe
    /\ kept' = [kept EXCEPT ![p] = @ \ {f}]
    /\ UNCHANGED <<place, safe>>

Retire(p) ==
    /\ place[p] = "ingest" /\ kept[p] = {}
    /\ place' = [place EXCEPT ![p] = "archived"]
    /\ UNCHANGED <<kept, safe>>

Next ==
    \E p \in Pkg :
        \/ Ingest(p) \/ Return(p) \/ Retire(p)
        \/ \E f \in File : Verify(p, f) \/ Prune(p, f)

Spec == Init /\ [][Next]_custody
=============================================================================
