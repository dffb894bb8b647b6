--------------------------- MODULE DigitalObjects ---------------------------
(***************************************************************************)
(* Make Digital Objects: a request starts lib/make_digital_object.py as a  *)
(* subprocess on one batch of WORKSPACE.  For every package the script     *)
(* finds the package's item in ArchivesSpace (uri.txt caches its URI),     *)
(* creates the item's digital object unless it has one, and creates or     *)
(* completes one component per file.  A second request, the revert,        *)
(* removes the uri.txt files.  Nothing locks the batch, and a script goes  *)
(* on when the worker that waits for it is killed.                         *)
(*                                                                         *)
(* ArchivesSpace is external: the identifier of a digital object is       *)
(* unique, a record read and posted back is refused when it has changed   *)
(* in between, and a tree lists its first PageSize children.               *)
(***************************************************************************)
EXTENDS Naturals, Sequences, FiniteSets

CONSTANTS
    Script,       \* the runs of the script (one per request)
    Batch,        \* the packages, in sorted order, named by their component id
    Title,        \* names of files
    Contents,     \* the files each package has at first (uri.txt aside)
    Mappings,     \* the Kaltura mappings clients send, sets of entries
    NoId,         \* "no Kaltura entry id"
    NoPackage,    \* "no package at hand"
    PageSize,     \* children on the first page of a tree (ArchivesSpace: 200)
    MaxRows,      \* bound on the components of one object
    MaxTrouble,   \* bound on failed requests and killed processes
    MaxEdits      \* bound on edits, reverts and runs begun during another

Package == {Batch[i] : i \in DOMAIN Batch}
Entry == [package : Package, file : Title, entry_id : UNION {{e.entry_id : e \in m} : m \in Mappings}]

ASSUME ObjectsAssumption ==
    /\ Batch \in Seq(Package) /\ NoPackage \notin Package
    /\ Contents \in [Package -> SUBSET Title]
    /\ \A m \in Mappings : m \subseteq Entry
    /\ PageSize \in Nat \ {0}
    /\ MaxRows \in Nat
    /\ MaxTrouble \in Nat
    /\ MaxEdits \in Nat

EntryId == {e.entry_id : e \in UNION Mappings} \cup {NoId}
Row == [title : Title, id : EntryId]

VARIABLES
    uriTxt,       \* what each package's uri.txt holds
    catalog,      \* how many items of ArchivesSpace have the component id
    object,       \* packages whose identifier a digital object has taken
    instances,    \* digital objects attached to each item
    rows,         \* the components of each digital object, in order
    files,        \* the files of each package (uri.txt and hidden ones aside)
    pc,           \* per script: program point
    waiting,      \* scripts some worker waits for
    done,         \* per script: how many packages it has begun
    cur,          \* per script: the package at hand
    page,         \* per script: the titles its tree listed
    left,         \* per script: files not begun
    mapping,      \* per script: its Kaltura mapping
    failures,     \* per script: packages that failed
    refused,      \* history: scripts that had a post refused, which is only logged
    reverted,     \* history: scripts during which a uri.txt was removed
    crossed,      \* history: have two scripts been at work together?
    trouble,      \* failed requests and killed processes so far
    edits         \* edits, reverts and overlapping runs so far

aspace == <<catalog, object, instances, rows>>
batchDisk == <<uriTxt, files>>
cursor == <<cur, page, left>>
request == <<failures, waiting, mapping>>
history == <<refused, reverted, crossed, trouble, edits>>
objectVars == <<uriTxt, catalog, object, instances, rows, files, pc, waiting,
                done, cur, page, left, mapping, failures,
                refused, reverted, crossed, trouble, edits>>

AnswerLabel == {"success", "failed", "timeout"}
ScriptLabel == {"idle", "next", "search", "write", "item", "create", "link", "tree", "file"}
                  \cup AnswerLabel
FallibleLabel == {"search", "write", "item", "create", "link", "tree", "file"}

Alive == {s \in Script : pc[s] # "idle"}

ObjectsInit ==
    /\ uriTxt \in [Package -> {"none", "wrong"}]
    /\ catalog \in [Package -> 0..2]
    /\ object = {}
    /\ instances = [p \in Package |-> 0]
    /\ rows = [p \in Package |-> <<>>]
    /\ files = Contents
    /\ pc = [s \in Script |-> "idle"]
    /\ waiting = {}
    /\ done = [s \in Script |-> 0]
    /\ cur = [s \in Script |-> NoPackage]
    /\ page = [s \in Script |-> <<>>]
    /\ left = [s \in Script |-> {}]
    /\ mapping = [s \in Script |-> {}]
    /\ failures = [s \in Script |-> {}]
    /\ refused = {}
    /\ reverted = {}
    /\ crossed = FALSE
    /\ trouble = 0
    /\ edits = 0

Step(s, l) == pc' = [pc EXCEPT ![s] = l]
Trouble == trouble < MaxTrouble /\ trouble' = trouble + 1
NoTrouble == UNCHANGED trouble
Edit == edits < MaxEdits /\ edits' = edits + 1

(* The local variables of a script between two packages.                   *)
DropPackage(s) ==
    /\ cur' = [cur EXCEPT ![s] = NoPackage]
    /\ page' = [page EXCEPT ![s] = <<>>]
    /\ left' = [left EXCEPT ![s] = {}]

(* Mutant: the loop goes on without recording the package.                 *)
FailUnrecorded(s) ==
    /\ Step(s, "next") /\ DropPackage(s)
    /\ UNCHANGED <<done, request, refused, reverted, crossed, edits>>

(* process raised: process_batch records the package and goes on.          *)
Fail(s) ==
    /\ failures' = [failures EXCEPT ![s] = @ \cup {cur[s]}]
    /\ Step(s, "next")
    /\ DropPackage(s)
    /\ UNCHANGED <<done, waiting, mapping, refused, reverted, crossed, edits>>

-----------------------------------------------------------------------------
(* Bound: what one more run may add fits into MaxRows.                     *)
Room == \A p \in Package :
          Len(rows[p]) + (Cardinality(Alive) + 1) * Cardinality(files[p]) <= MaxRows

(* The route make_digital_objects: it writes the mapping to a directory of *)
(* its own, starts the script and waits.  The script lists the packages.   *)
MakeDigitalObjects(s) ==
    /\ pc[s] = "idle"
    /\ IF waiting = {} THEN UNCHANGED edits ELSE Edit
    /\ Room
    /\ Step(s, "next")
    /\ waiting' = waiting \cup {s}
    /\ \E m \in Mappings : mapping' = [mapping EXCEPT ![s] = m]
    /\ crossed' = (crossed \/ Alive # {})
    /\ UNCHANGED <<done, failures, refused, reverted, trouble, cursor, aspace, batchDisk>>

(* The local variables of a script that is gone.                           *)
Vanishes(s) ==
    /\ done' = [done EXCEPT ![s] = 0]
    /\ mapping' = [mapping EXCEPT ![s] = {}]
    /\ failures' = [failures EXCEPT ![s] = {}]
    /\ DropPackage(s)

(* The script ends: exit 2 when a package failed, which the route answers  *)
(* with its failure envelope.  Without a waiting worker nobody is told.    *)
Finish(s) ==
    /\ pc[s] = "next" /\ done[s] = Len(Batch)
    /\ Step(s, IF s \notin waiting THEN "idle"
               ELSE IF failures[s] = {} THEN "success" ELSE "failed")
    /\ Vanishes(s)
    /\ UNCHANGED <<waiting, history, aspace, batchDisk>>

(* Mutant: a worker that has answered still waits.                         *)
AnswerForgets(s) ==
    /\ pc[s] \in AnswerLabel
    /\ Step(s, "idle")
    /\ refused' = refused \ {s}
    /\ reverted' = reverted \ {s}
    /\ UNCHANGED <<done, request, crossed, trouble, edits, cursor, aspace, batchDisk>>

(* The route has answered, and removed its temporary directory.            *)
Answer(s) ==
    /\ pc[s] \in AnswerLabel
    /\ Step(s, "idle")
    /\ waiting' = waiting \ {s}
    /\ refused' = refused \ {s}
    /\ reverted' = reverted \ {s}
    /\ UNCHANGED <<done, failures, mapping, crossed, trouble, edits, cursor, aspace, batchDisk>>

-----------------------------------------------------------------------------
(* process_batch takes the next package, and check_uri_txt looks at its    *)
(* uri.txt: one that names another record, or none, is made again.         *)
CheckUriTxt(s) ==
    /\ pc[s] = "next" /\ done[s] < Len(Batch)
    /\ LET p == Batch[done[s] + 1] IN
       /\ cur' = [cur EXCEPT ![s] = p]
       /\ Step(s, IF uriTxt[p] = "item" THEN "item" ELSE "search")
    /\ done' = [done EXCEPT ![s] = @ + 1]
    /\ UNCHANGED <<page, left, request, history, aspace, batchDisk>>

(* A GET of the URI that the file holds may fail, and so may a GET of the  *)
(* empty URI of an empty file.                                             *)
UriFails(s) ==
    /\ pc[s] = "next" /\ done[s] < Len(Batch)
    /\ LET p == Batch[done[s] + 1] IN
       /\ uriTxt[p] # "none"
       /\ IF uriTxt[p] = "empty" THEN NoTrouble ELSE Trouble
       /\ failures' = [failures EXCEPT ![s] = @ \cup {p}]
    /\ done' = [done EXCEPT ![s] = @ + 1]
    /\ UNCHANGED <<pc, cursor, waiting, mapping, refused, reverted, crossed, edits,
                   aspace, batchDisk>>

(* write_uri_txt: the search must find exactly one item; open(.., 'w')     *)
(* truncates the file, which has its content after the write.              *)
SearchItem(s) ==
    /\ pc[s] = "search" /\ catalog[cur[s]] = 1
    /\ uriTxt' = [uriTxt EXCEPT ![cur[s]] = "empty"]
    /\ Step(s, "write")
    /\ UNCHANGED <<done, cursor, request, history, aspace, files>>
NoSingleItem(s) ==
    /\ pc[s] = "search" /\ catalog[cur[s]] # 1
    /\ Fail(s)
    /\ UNCHANGED <<trouble, aspace, batchDisk>>

(* A uri.txt that a revert has unlinked since it was opened stays away.    *)
WriteUriTxt(s) ==
    /\ pc[s] = "write"
    /\ uriTxt' = [uriTxt EXCEPT ![cur[s]] = IF @ = "none" THEN "none" ELSE "item"]
    /\ Step(s, "item")
    /\ UNCHANGED <<done, cursor, request, history, aspace, files>>

(* check_digital_object: the item's record and its digital objects.        *)
CheckDigitalObject(s) ==
    /\ pc[s] = "item" /\ instances[cur[s]] <= 1
    /\ Step(s, IF instances[cur[s]] = 1 THEN "tree" ELSE "create")
    /\ UNCHANGED <<done, cursor, request, history, aspace, batchDisk>>
TooManyObjects(s) ==
    /\ pc[s] = "item" /\ instances[cur[s]] > 1
    /\ Fail(s)
    /\ UNCHANGED <<trouble, aspace, batchDisk>>

(* Mutant: the object is made and the item left as it was.                 *)
WriteDigitalObjectAlone(s) ==
    /\ pc[s] = "create" /\ cur[s] \notin object
    /\ object' = object \cup {cur[s]}
    /\ Step(s, "tree")
    /\ UNCHANGED <<done, cursor, request, history, catalog, instances, rows, batchDisk>>

(* write_digital_object: the identifier is unique; a refusal is raised.    *)
WriteDigitalObject(s) ==
    /\ pc[s] = "create" /\ cur[s] \notin object
    /\ object' = object \cup {cur[s]}
    /\ Step(s, "link")
    /\ UNCHANGED <<done, cursor, request, history, catalog, instances, rows, batchDisk>>

IdentifierTaken(s) ==
    /\ pc[s] = "create" /\ cur[s] \in object
    /\ Fail(s)
    /\ UNCHANGED <<trouble, aspace, batchDisk>>

(* The titles a tree lists.                                                *)
FirstPage(p) == [i \in (1..PageSize) \cap DOMAIN rows[p] |-> rows[p][i].title]

(* Mutant: the rows the object already has are not looked at.              *)
FetchTreeBlank(s) ==
    /\ pc[s] = "tree" /\ files[cur[s]] # {}
    /\ left' = [left EXCEPT ![s] = files[cur[s]]]
    /\ Step(s, "file")
    /\ UNCHANGED <<cur, page, done, request, history, aspace, batchDisk>>

(* process_files: the tree is read once, then the directory is listed.     *)
FetchTree(s) ==
    /\ pc[s] = "tree" /\ files[cur[s]] # {}
    /\ page' = [page EXCEPT ![s] = FirstPage(cur[s])]
    /\ left' = [left EXCEPT ![s] = files[cur[s]]]
    /\ Step(s, "file")
    /\ UNCHANGED <<cur, done, request, history, aspace, batchDisk>>
NoFiles(s) ==
    /\ pc[s] = "tree" /\ files[cur[s]] = {}
    /\ Step(s, "next") /\ DropPackage(s)
    /\ UNCHANGED <<done, request, history, aspace, batchDisk>>

(* The rows on the page that bear this title.                              *)
Same(s, f) == {i \in DOMAIN page[s] : page[s][i] = f}

(* Mutant: the package of an entry is ignored.                             *)
KalturaIdByName(m, p, f) ==
    LET ids == {e.entry_id : e \in {e \in m : e.file = f}} \ {NoId}
    IN  IF ids = {} THEN {NoId} ELSE ids

(* get_kaltura_id_from_file: an entry of this package and file.            *)
KalturaId(m, p, f) ==
    LET ids == {e.entry_id : e \in {e \in m : e.file = f /\ e.package = p}} \ {NoId}
    IN  IF ids = {} THEN {NoId} ELSE ids

-----------------------------------------------------------------------------
(* The posts of post_json, by what ArchivesSpace does when it accepts      *)
(* them.                                                                   *)
LinkItem(s) ==
    /\ pc[s] = "link"
    /\ instances' = [instances EXCEPT ![cur[s]] = 1]
    /\ UNCHANGED rows
CreateNewComponent(s, f) ==
    /\ pc[s] = "file" /\ Same(s, f) = {}
    /\ \E k \in KalturaId(mapping[s], cur[s], f) :
          rows' = [rows EXCEPT ![cur[s]] = Append(@, [title |-> f, id |-> k])]
    /\ UNCHANGED instances

(* Mutant: the entry id of a row is replaced.                              *)
UpdateExistingComponentAnyway(s, f) ==
    /\ pc[s] = "file" /\ Same(s, f) # {}
    /\ \E k \in KalturaId(mapping[s], cur[s], f) \ {NoId} :
          rows' = [rows EXCEPT ![cur[s]] =
                     [i \in DOMAIN @ |-> IF i \in Same(s, f) THEN [@[i] EXCEPT !.id = k]
                                         ELSE @[i]]]
    /\ UNCHANGED instances
UpdateExistingComponent(s, f) ==
    /\ pc[s] = "file"
    /\ LET bare == {i \in Same(s, f) : rows[cur[s]][i].id = NoId} IN
       /\ bare # {}
       /\ \E k \in KalturaId(mapping[s], cur[s], f) \ {NoId} :
             rows' = [rows EXCEPT ![cur[s]] =
                        [i \in DOMAIN @ |-> IF i \in bare THEN [@[i] EXCEPT !.id = k]
                                            ELSE @[i]]]
    /\ UNCHANGED instances

(* Nothing to post: every row of the title has an id, or there is none     *)
(* for it.                                                                 *)
NoUpdate(s, f) ==
    /\ pc[s] = "file" /\ Same(s, f) # {}
    /\ \/ \A i \in Same(s, f) : rows[cur[s]][i].id # NoId
       \/ NoId \in KalturaId(mapping[s], cur[s], f)

(* After the link the files; after a file the next, or the next package.   *)
FilesFollow(s) ==
    /\ pc[s] = "link"
    /\ Step(s, "tree") /\ UNCHANGED cursor
NextFile(s, f) ==
    /\ f \in left[s]
    /\ IF left[s] = {f} THEN Step(s, "next") /\ DropPackage(s)
       ELSE /\ left' = [left EXCEPT ![s] = @ \ {f}]
            /\ UNCHANGED <<pc, cur, page>>

(* write_digital_object and _process_single_file as far as they post.      *)
PostLink(s) ==
    /\ LinkItem(s) /\ FilesFollow(s)
    /\ UNCHANGED <<done, request, history, catalog, object, batchDisk>>
ProcessSingleFile(s) ==
    /\ \E f \in left[s] :
          /\ NextFile(s, f)
          /\ \/ CreateNewComponent(s, f) \/ UpdateExistingComponent(s, f)
             \/ NoUpdate(s, f) /\ UNCHANGED <<instances, rows>>
    /\ UNCHANGED <<done, request, history, catalog, object, batchDisk>>

(* An answer other than 200: post_json prints it and returns.              *)
PostRefused(s) ==
    /\ FilesFollow(s) \/ \E f \in left[s] : NextFile(s, f) /\ ~NoUpdate(s, f)
    /\ Trouble
    /\ refused' = refused \cup {s}
    /\ UNCHANGED <<done, request, reverted, crossed, edits, aspace, batchDisk>>

(* A request or a write that fails raises, before it had its effect or     *)
(* after.                                                                  *)
RequestFails(s) ==
    /\ pc[s] \in FallibleLabel
    /\ Trouble /\ Fail(s)
    /\ UNCHANGED <<aspace, batchDisk>>
AnswerLost(s) ==
    /\ \/ LinkItem(s) /\ UNCHANGED object
       \/ /\ \E f \in left[s] : CreateNewComponent(s, f) \/ UpdateExistingComponent(s, f)
          /\ UNCHANGED object
       \/ /\ pc[s] = "create" /\ cur[s] \notin object
          /\ object' = object \cup {cur[s]}
          /\ UNCHANGED <<instances, rows>>
    /\ Trouble /\ Fail(s)
    /\ UNCHANGED <<catalog, batchDisk>>

ScriptStep(s) ==
    \/ Finish(s) \/ Answer(s)
    \/ CheckUriTxt(s) \/ UriFails(s) \/ SearchItem(s) \/ NoSingleItem(s) \/ WriteUriTxt(s)
    \/ CheckDigitalObject(s) \/ TooManyObjects(s) \/ WriteDigitalObject(s) \/ IdentifierTaken(s)
    \/ PostLink(s) \/ FetchTree(s) \/ NoFiles(s) \/ ProcessSingleFile(s)
    \/ PostRefused(s) \/ RequestFails(s) \/ AnswerLost(s)

-----------------------------------------------------------------------------
(* subprocess.run gives up after an hour, kills the script and answers 504.*)
Timeout(s) ==
    /\ s \in waiting /\ pc[s] \notin AnswerLabel
    /\ Trouble
    /\ Step(s, "timeout") /\ Vanishes(s)
    /\ UNCHANGED <<waiting, refused, reverted, crossed, edits, aspace, batchDisk>>

(* A waiting worker is killed; its script goes on, or goes with it (the    *)
(* service is stopped).                                                    *)
KillWaiter(s) ==
    /\ s \in waiting /\ pc[s] \notin AnswerLabel
    /\ Trouble
    /\ waiting' = waiting \ {s}
    /\ \/ UNCHANGED <<pc, done, cursor, mapping, failures>>
       \/ Step(s, "idle") /\ Vanishes(s)
    /\ UNCHANGED <<refused, reverted, crossed, edits, aspace, batchDisk>>

(* revert_to_make_digital_objects: one turn of its loop over the packages. *)
(* No uri.txt is reported as not_present, and one that cannot be unlinked  *)
(* as failed.                                                              *)
Revert(p) ==
    /\ \/ /\ uriTxt[p] # "none" /\ Edit
          /\ uriTxt' = [uriTxt EXCEPT ![p] = "none"]
          /\ reverted' = reverted \cup Alive
       \/ UNCHANGED <<uriTxt, reverted, edits>>
    /\ UNCHANGED <<pc, done, cursor, request, refused, crossed, trouble, aspace, files>>

(* Staff prepare the batch between runs: files come and go (a rename is    *)
(* both), items are catalogued, objects attached by hand, a uri.txt copied  *)
(* from another package.                                                   *)
Prepare(p) ==
    /\ Alive = {} /\ Edit
    /\ \/ /\ \E f \in Title : files' = [files EXCEPT ![p] = (@ \ {f}) \cup ({f} \ @)]
          /\ UNCHANGED <<uriTxt, catalog, instances>>
       \/ /\ catalog[p] = 0 /\ catalog' = [catalog EXCEPT ![p] = 1]
          /\ UNCHANGED <<uriTxt, files, instances>>
       \/ /\ uriTxt[p] = "none" /\ uriTxt' = [uriTxt EXCEPT ![p] = "wrong"]
          /\ UNCHANGED <<catalog, files, instances>>
       \/ /\ instances[p] < 2 /\ instances' = [instances EXCEPT ![p] = @ + 1]
          /\ UNCHANGED <<uriTxt, catalog, files>>
    /\ UNCHANGED <<object, rows, pc, done, cursor, request, refused, reverted, crossed, trouble>>

ObjectsNext ==
    \/ \E s \in Script : MakeDigitalObjects(s) \/ ScriptStep(s) \/ Timeout(s) \/ KillWaiter(s)
    \/ \E p \in Package : Revert(p) \/ Prepare(p)

ObjectsSpec == ObjectsInit /\ [][ObjectsNext]_objectVars

-----------------------------------------------------------------------------
(* The types of all variables.                                             *)
ObjectsTypeOK ==
    /\ uriTxt \in [Package -> {"none", "empty", "item", "wrong"}]
    /\ catalog \in [Package -> 0..2]
    /\ object \subseteq Package
    /\ instances \in [Package -> 0..2]
    /\ rows \in [Package -> Seq(Row)]
    /\ files \in [Package -> SUBSET Title]
    /\ pc \in [Script -> ScriptLabel]
    /\ waiting \subseteq Alive
    /\ done \in [Script -> 0..Len(Batch)]
    /\ cur \in [Script -> Package \cup {NoPackage}]
    /\ page \in [Script -> Seq(Title)]
    /\ left \in [Script -> SUBSET Title]
    /\ mapping \in [Script -> Mappings \cup {{}}]
    /\ failures \in [Script -> SUBSET Package]
    /\ refused \subseteq Script
    /\ reverted \subseteq Script
    /\ crossed \in BOOLEAN
    /\ trouble \in 0..MaxTrouble
    /\ edits \in 0..MaxEdits

Attached(p) == instances[p] = 1
Described(p) == \A f \in files[p] : \E i \in DOMAIN rows[p] : rows[p][i].title = f

(* A run that is answered with success has done everything, for every      *)
(* package, whatever was killed or failed before, unless a post of its own *)
(* was refused: the object is attached, every file has a component, and,   *)
(* with no other run and no revert in between, uri.txt names the item      *)
(* (lib/make_digital_object.py:872, "must FAIL the run").                  *)
SuccessMeansDone ==
    \A s \in Script : pc[s] = "success" /\ s \notin refused =>
        \A p \in Package :
           /\ Attached(p) /\ Described(p)
           /\ ~crossed /\ s \notin reverted => uriTxt[p] = "item"

(* No file gets a second component, however often a batch is retried after *)
(* failures, time-outs and reverts, as long as scripts do not overlap and  *)
(* the first component is on the page the tree lists                       *)
(* (lib/make_digital_object.py:726, "are unaffected").                     *)
NoDuplicates ==
    ~crossed => \A p \in Package : \A i, j \in DOMAIN rows[p] :
                   i < j /\ rows[p][i].title = rows[p][j].title => i > PageSize

(* What a run leaves half done, a digital object that is not attached or   *)
(* an empty uri.txt, is being worked on or goes back to a failed request   *)
(* or a killed process, also when runs overlap (lib/make_digital_object.py *)
(* :479-491 and :594).                                                     *)
HalfDoneHasCause ==
    trouble = 0 =>
       /\ \A p \in object : instances[p] # 0 \/ \E s \in Script : pc[s] = "link" /\ cur[s] = p
       /\ \A p \in Package : uriTxt[p] = "empty" => \E s \in Script : pc[s] = "write" /\ cur[s] = p

(* A component carries the entry id some client sent for its own package   *)
(* and file (lib/make_digital_object.py:134-138).                          *)
KalturaOwn ==
    \A p \in Package : \A i \in DOMAIN rows[p] :
        rows[p][i].id \in {NoId} \cup
            {e.entry_id : e \in {e \in UNION Mappings : e.package = p /\ e.file = rows[p][i].title}}

(* No run, also of a later request with another mapping, removes or renames*)
(* a component or replaces an entry id it has (:325-331).                  *)
RowsKept ==
    [][\A p \in Package : \A i \in DOMAIN rows[p] :
          /\ i \in DOMAIN rows'[p]
          /\ rows'[p][i].title = rows[p][i].title
          /\ rows[p][i].id # NoId => rows'[p][i] = rows[p][i]]_objectVars

-----------------------------------------------------------------------------
(* What the code does not keep (see the README).                           *)

(* Success with a refused post, which is only printed (:84-109).           *)
SuccessMeansDoneAlways ==
    \A s \in Script : pc[s] = "success" => \A p \in Package : Attached(p) /\ Described(p)

(* A package with a uri.txt counts as processed (lib/batch_structure.py:   *)
(* 313) before its digital object is made, or when that failed.            *)
ProcessedIsAttached ==
    \A p \in Package : uriTxt[p] = "item" =>
        Attached(p) \/ \E s \in Script : cur[s] = p

(* Overlapping runs, and objects with more rows than a page, get second    *)
(* components.                                                             *)
NeverDuplicates ==
    \A p \in Package : \A i, j \in DOMAIN rows[p] :
        rows[p][i].title = rows[p][j].title => i = j
=============================================================================
