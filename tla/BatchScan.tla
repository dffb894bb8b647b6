------------------------------ MODULE BatchScan ------------------------------
(***************************************************************************)
(* The views of one batch folder, on which staff decide what to do with    *)
(* it: the structure scan behind the Make Digital Objects view, the view   *)
(* of processed batches, and the uri.txt checks of the two QA stages.      *)
(* Each is an own sweep over the same tree and decides for itself what a   *)
(* package is.  The tree changes as digital objects are made and reverted  *)
(* (lib/batch_structure.py, lib/archivesspace_ops.py, routes/astools.py,   *)
(* lib/archivematica_ops.py).                                              *)
(***************************************************************************)
EXTENDS Naturals, Sequences

CONSTANT Trees    \* batch folders

(* A directory in a batch, by what the sweeps tell apart.  "junk" stands   *)
(* for the names of JUNK_FILES, "text" for .txt files.                     *)
Directory ==
    [name : {"plain", "blank", "dot", "junk"}, readable : BOOLEAN,
     uri : {"none", "file", "directory"}, content : {"none", "text", "image"}, nested : BOOLEAN]

(* A batch: its name, its directories in the order a listing returns them, *)
(* and whether loose files lie beside them.                                *)
Tree ==
    [place : {"plain", "ready", "dot"}, new : {"start", "inside", "none"},
     tail : {"resources", "archival_objects", "other"}, digits : BOOLEAN,
     readable : BOOLEAN, loose : BOOLEAN, dirs : Seq(Directory)]

ASSUME ScanAssumption == Trees \subseteq Tree

VARIABLES
    tree,         \* the batch folder
    answered      \* the answer, if the last request was a revert

scanVars == <<tree, answered>>

-----------------------------------------------------------------------------
(* scan_batch: sweeps leave hidden and junk entries out.                   *)
Packages(b) == {i \in DOMAIN b.dirs : b.dirs[i].name \notin {"dot", "junk"}}
Processed(b) == {i \in Packages(b) : b.dirs[i].readable /\ b.dirs[i].uri = "file"}

Nested(d) == ~d.readable \/ d.nested \/ d.uri = "directory"
EmptyPackage(d) == ~Nested(d) /\ d.content = "none"
Unhygienic(d) == d.name = "blank"

(* check_batch_folder_name, and check_folder_name of the ready stage.      *)
BadFolderName(b) == b.new # "start" \/ b.tail = "other" \/ ~b.digits
BadFolderNameQa(b) == b.new = "none" \/ b.tail # "resources" \/ ~b.digits

(* The codes of structure_errors.                                          *)
Flags(b) ==
    IF ~b.readable THEN {"unreadable"}
    ELSE LET P == {b.dirs[i] : i \in Packages(b)}
             If(c, code) == IF c THEN {code} ELSE {}
         IN  If(BadFolderName(b), "bad_folder_name") \cup If(P = {}, "no_packages")
              \cup If(b.loose, "loose_files")
              \cup If(\E d \in P : EmptyPackage(d), "empty_package")
              \cup If(\E d \in P : Nested(d), "nested_dirs")
              \cup If(Processed(b) \notin {{}, Packages(b)}, "partially_processed")
              \cup If(\E d \in P : Unhygienic(d), "name_hygiene")
HasBlockingErrors(b) == Flags(b) \ {"partially_processed", "name_hygiene"} # {}

(* Mutant: a batch with a processed package belongs to the other view.     *)
InWorkspaceUntouched(b) ==
    /\ b.place = "plain"
    /\ ~b.readable \/ ((Packages(b) # {} \/ b.loose) /\ Processed(b) = {})

(* get_workspace_batches.                                                  *)
InWorkspace(b) ==
    /\ b.place = "plain"
    /\ \/ "unreadable" \in Flags(b)
       \/ /\ Packages(b) # {} \/ "loose_files" \in Flags(b)
          /\ Packages(b) = {} \/ Processed(b) # Packages(b)

(* get_metadata_ready_folders: the first directory with a uri.txt decides, *)
(* and one that cannot be looked into ends the search.                     *)
Visible(b) == {i \in DOMAIN b.dirs : b.dirs[i].name # "dot"}
InProcessed(b) ==
    /\ b.place = "plain" /\ b.readable
    /\ \E i \in Visible(b) :
          /\ b.dirs[i].readable /\ b.dirs[i].uri = "file"
          /\ \A j \in Visible(b) : j < i => b.dirs[j].readable

(* Mutant: a package that cannot be read is passed over.                   *)
MissingUriSilent(b) == {i \in Visible(b) : b.dirs[i].readable /\ b.dirs[i].uri # "file"}

(* The packages without uri.txt: ASpace QA (archivesspace_ops.             *)
(* check_uri_txt), and the ready stage (archivematica_ops.check_uri_txt),  *)
(* which fails at what it cannot list.                                     *)
MissingUri(b) == {i \in Visible(b) : ~b.dirs[i].readable \/ b.dirs[i].uri # "file"}
QaRaises(b) == ~b.readable \/ \E i \in Visible(b) : ~b.dirs[i].readable
MissingUriQa(b) == {i \in Visible(b) : b.dirs[i].uri = "none"}

(* The files get_package_files lists: no .txt.                             *)
Listed(b) == {i \in Visible(b) : b.dirs[i].readable /\ b.dirs[i].content = "image"}

-----------------------------------------------------------------------------
ScanInit == tree \in Trees /\ answered = "none"

(* A script of make_digital_objects gives a package its uri.txt.           *)
PackageProcessed ==
    /\ \E i \in MissingUri(tree) :
          /\ tree.readable /\ tree.dirs[i].readable /\ tree.dirs[i].uri = "none"
          /\ tree' = [tree EXCEPT !.dirs[i].uri = "file"]
    /\ answered' = "none"

(* revert_to_make_digital_objects: the uri.txt of every directory that is  *)
(* not hidden is unlinked; a directory of that name cannot be, nor can     *)
(* anything be told of a directory that cannot be looked into.             *)
Failed(b) == {i \in Visible(b) : ~b.dirs[i].readable \/ b.dirs[i].uri = "directory"}
RevertBatch ==
    /\ tree' = IF ~tree.readable THEN tree
               ELSE [tree EXCEPT !.dirs = [i \in DOMAIN @ |->
                        IF i \in Visible(tree) \ Failed(tree) THEN [@[i] EXCEPT !.uri = "none"]
                        ELSE @[i]]]
    /\ answered' = IF ~tree.readable \/ (Failed(tree) # {} /\ Failed(tree) = Visible(tree)) THEN "500"
                   ELSE IF Failed(tree) # {} THEN "207" ELSE "200"

ScanNext == PackageProcessed \/ RevertBatch
ScanSpec == ScanInit /\ [][ScanNext]_scanVars

-----------------------------------------------------------------------------
(* The types of all variables.                                             *)
ScanTypeOK == tree \in Tree /\ answered \in {"none", "200", "207", "500"}

(* What is in neither view.  Nobody sees a batch without a package or a    *)
(* loose file ("hidden until it has content").  And get_metadata_ready_    *)
(* folders looks into junk-named directories too, which are no packages of *)
(* the scan: one that cannot be looked into and is listed before the       *)
(* packages ends its search of a batch whose packages are all processed.   *)
HasContent(b) == ~b.readable \/ b.loose \/ Packages(b) # {}
FullyProcessed(b) == b.readable /\ Packages(b) # {} /\ Processed(b) = Packages(b)
BlindedByJunk(b) ==
    \A i \in Packages(b) : \E j \in Visible(b) \ Packages(b) : j < i /\ ~b.dirs[j].readable

(* A batch that holds a package or a loose file never falls between the    *)
(* views, however far digital objects have been made or reverted: until    *)
(* all of its packages are processed it is in the workspace; from then on  *)
(* in the processed view, and no longer in the workspace, unless an        *)
(* unreadable junk-named directory blinds that view; and a revert answered *)
(* with 200 brings it back to the first and takes it from the second       *)
(* (lib/batch_structure.py:257-275, lib/archivesspace_ops.py:262-278,      *)
(* routes/astools.py:1038-1047).                                           *)
NeverOutOfSight ==
    tree.place = "plain" /\ HasContent(tree) =>
        /\ ~FullyProcessed(tree) => InWorkspace(tree)
        /\ FullyProcessed(tree) =>
             ~InWorkspace(tree) /\ (InProcessed(tree) \/ BlindedByJunk(tree))
        /\ answered = "200" => InWorkspace(tree) /\ ~InProcessed(tree)

(* The sweeps agree: without junk-named directories the scan and the       *)
(* ASpace QA miss uri.txt in the same packages; the ready stage, if it     *)
(* answers, in the same ones but those with a directory of that name; a    *)
(* batch the scan passes has a listed or a .txt file in every package; a   *)
(* folder of a resource is named well for both stages or for neither.      *)
SweepsAgree ==
    tree.readable =>
       /\ Packages(tree) = Visible(tree) => MissingUri(tree) = Packages(tree) \ Processed(tree)
       /\ ~QaRaises(tree) => MissingUri(tree) \ Failed(tree) = MissingUriQa(tree)
       /\ ~HasBlockingErrors(tree) =>
            /\ ~BadFolderNameQa(tree) \/ tree.tail = "archival_objects"
            /\ \A i \in Packages(tree) : i \in Listed(tree) \/ tree.dirs[i].content = "text"

-----------------------------------------------------------------------------
(* What the code does not keep (see the README).                           *)

(* A batch with content is in one of the views (lib/batch_structure.py:    *)
(* 273, "those batches belong to the ASpace QA / Packaging views").        *)
AlwaysInSight ==
    tree.place = "plain" /\ HasContent(tree) => InWorkspace(tree) \/ InProcessed(tree)

(* A processed package behind one that cannot be read (:276-278).          *)
ProcessedAreListed == tree.place = "plain" /\ Processed(tree) # {} => InProcessed(tree)

(* The folder of an archival object passes the scan (lib/batch_structure.  *)
(* py:81) and not the ready stage (lib/archivematica_ops.py:588-599).      *)
FolderNamesAgree == ~HasBlockingErrors(tree) => ~BadFolderNameQa(tree)
=============================================================================
