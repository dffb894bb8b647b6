------------------------------- MODULE MCReady -------------------------------
(***************************************************************************)
(* ReadyStage for TLC.                                                     *)
(***************************************************************************)
EXTENDS ReadyStage, TLC

CONSTANTS p1, p2, f1, f2, a, b, c, q1, q2, g1, g2

(* Make Digital Objects: two packages with a file of the same name; two    *)
(* clients send different entry ids for one file.                          *)
E(p, f, i) == [package |-> p, file |-> f, entry_id |-> i]
MCMappings == {{E(p1, f1, a), E(p2, f1, b)}, {E(p1, f1, c)}}
MCBatch == <<p1, p2>>
MCContents == p1 :> {f1, f2} @@ p2 :> {f1}

(* Names: one package has files, the other is empty.  At first its name is *)
(* the one the first will get, and the files' names differ in case and     *)
(* blanks; then its own name becomes that of the first, and the files'     *)
(* become the same.                                                        *)
N(u, s, d) == [word |-> "a", upper |-> u, spaced |-> s, dotted |-> d]
MCHome == g1 :> q1 @@ g2 :> q1
MCNameStart ==
    {[parcel |-> q1 :> N(TRUE, TRUE, FALSE) @@ q2 :> N(FALSE, FALSE, FALSE),
      item |-> g1 :> N(TRUE, FALSE, TRUE) @@ g2 :> N(FALSE, TRUE, TRUE)],
     [parcel |-> q1 :> N(FALSE, FALSE, FALSE) @@ q2 :> N(TRUE, FALSE, FALSE),
      item |-> g1 :> N(TRUE, FALSE, FALSE) @@ g2 :> N(TRUE, TRUE, FALSE)]}

(* Batches: every folder with up to one directory, and a well-named,       *)
(* readable one with every two.                                            *)
MCDirs == {d \in Directory : d.readable \/ (d.uri = "none" /\ d.content = "none" /\ ~d.nested)}
MCTrees ==
    [place : {"plain", "ready", "dot"}, new : {"start", "inside", "none"},
     tail : {"resources", "archival_objects", "other"}, digits : BOOLEAN,
     readable : BOOLEAN, loose : BOOLEAN, dirs : {<<>>} \cup {<<d>> : d \in MCDirs}]
    \cup [place : {"plain"}, new : {"start"}, tail : {"resources"}, digits : {TRUE},
           readable : {TRUE}, loose : BOOLEAN, dirs : MCDirs \X MCDirs]

Symmetry == Permutations(Script) \cup Permutations(Check)

(* Each part starts in all its states while the others have one.           *)
MCStart == CHOOSE start \in MCNameStart : TRUE
MCTree == [place |-> "plain", new |-> "start", tail |-> "resources", digits |-> TRUE,
           readable |-> TRUE, loose |-> FALSE, dirs |-> <<>>]
MCInit ==
    /\ part \in {"objects", "names", "folder", "scan"}
    /\ IF part = "names" THEN original \in MCNameStart ELSE original = MCStart
    /\ IF part = "scan" THEN tree \in MCTrees ELSE tree = MCTree
    /\ IF part = "objects" THEN uriTxt \in [Package -> {"none", "wrong"}] /\ uriTxt[p2] = "none"
       ELSE uriTxt = [p \in Package |-> "none"]
    /\ IF part = "objects" THEN catalog \in [Package -> 0..1] /\ catalog[p1] = 1
       ELSE catalog = [p \in Package |-> 1]
    /\ ReadyInit

MCSpec == MCInit /\ [][ReadyNext]_readyVars
=============================================================================
