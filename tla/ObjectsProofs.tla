---------------------------- MODULE ObjectsProofs ----------------------------
(***************************************************************************)
(* Proofs about Make Digital Objects, for any scripts, packages, files,    *)
(* mappings and bounds.  Located says where each script is; on it rest     *)
(* what a run may do to the components (RowsOnlyGrow), what makes a second *)
(* component impossible (Alone, Fresh) and what a script knows of the      *)
(* packages behind it (UriKept, WorkDone).                                 *)
(***************************************************************************)
EXTENDS DigitalObjects, TLAPS

-----------------------------------------------------------------------------

(* The page a tree lists is a list of titles. *)
LEMMA PageLists ==
    ASSUME ObjectsAssumption, ObjectsTypeOK, NEW p \in Package PROVE FirstPage(p) \in Seq(Title)
<1> DEFINE n == IF Len(rows[p]) < PageSize THEN Len(rows[p]) ELSE PageSize
<1>1. rows[p] \in Seq(Row)
  BY DEF ObjectsTypeOK
<1>2. n \in Nat /\ (1..PageSize) \cap DOMAIN rows[p] = 1..n
  BY <1>1 DEF ObjectsAssumption
<1>3. \A i \in 1..n : rows[p][i] \in Row
  BY <1>1 DEF ObjectsAssumption
<1>4. FirstPage(p) = [i \in 1..n |-> rows[p][i].title]
  BY <1>2 DEF FirstPage
<1>5. FirstPage(p) \in [1..n -> Title]
  BY <1>3, <1>4 DEF Row
<1> QED BY <1>2, <1>5

(* A post leaves lists of components, with ids some client sent. *)
LEMMA RowLists ==
    ASSUME ObjectsTypeOK, NEW s \in Script, NEW f \in left[s], cur[s] \in Package,
           CreateNewComponent(s, f) \/ UpdateExistingComponent(s, f)
    PROVE  rows' \in [Package -> Seq(Row)]
<1> DEFINE p == cur[s]
<1>1. rows[p] \in Seq(Row) /\ f \in Title /\ mapping[s] \in Mappings \cup {{}}
  BY DEF ObjectsTypeOK
<1>2. KalturaId(mapping[s], p, f) \subseteq EntryId
  BY <1>1 DEF KalturaId, EntryId
<1>3. CASE CreateNewComponent(s, f)
  <2>1. PICK k \in KalturaId(mapping[s], p, f) :
             rows' = [rows EXCEPT ![p] = Append(@, [title |-> f, id |-> k])]
    BY <1>3 DEF CreateNewComponent
  <2>2. [title |-> f, id |-> k] \in Row
    BY <1>1, <1>2, <2>1 DEF Row
  <2>3. Append(rows[p], [title |-> f, id |-> k]) \in Seq(Row)
    BY <1>1, <2>2
  <2> QED BY <2>1, <2>3 DEF ObjectsTypeOK
<1>4. CASE UpdateExistingComponent(s, f)
  <2> DEFINE bare == {i \in Same(s, f) : rows[p][i].id = NoId}
  <2>1. PICK k \in KalturaId(mapping[s], p, f) :
             rows' = [rows EXCEPT ![p] = [i \in DOMAIN @ |-> IF i \in bare THEN [@[i] EXCEPT !.id = k]
                                                             ELSE @[i]]]
    BY <1>4 DEF UpdateExistingComponent
  <2> DEFINE new == [i \in DOMAIN rows[p] |-> IF i \in bare THEN [rows[p][i] EXCEPT !.id = k]
                                              ELSE rows[p][i]]
  <2>2. \A r \in Row : [r EXCEPT !.id = k] \in Row
    BY <1>2, <2>1 DEF Row
  <2>3. \A i \in 1..Len(rows[p]) : rows[p][i] \in Row
    BY <1>1
  <2>4. new \in [1..Len(rows[p]) -> Row]
    BY <1>1, <2>2, <2>3
  <2>5. rows' = [rows EXCEPT ![p] = new]
    BY <2>1
  <2> HIDE DEF new
  <2>6. new \in Seq(Row)
    BY <1>1, <2>4
  <2> QED BY <2>5, <2>6 DEF ObjectsTypeOK
<1> QED BY <1>3, <1>4

(* The script goes on to the next file or the next package. *)
LEMMA NextFileTypes ==
    ASSUME ObjectsTypeOK, NEW s \in Script, NEW f, NextFile(s, f), waiting' = waiting
    PROVE  /\ pc' \in [Script -> ScriptLabel] /\ waiting' \subseteq Alive'
           /\ cur' \in [Script -> Package \cup {NoPackage}]
           /\ page' \in [Script -> Seq(Title)]
           /\ left' \in [Script -> SUBSET Title]
<1>1. CASE left[s] = {f}
  <2>1. pc' = [pc EXCEPT ![s] = "next"] /\ DropPackage(s)
    BY <1>1 DEF NextFile, Step
  <2>2. pc' \in [Script -> ScriptLabel] /\ waiting' \subseteq Alive'
    BY <2>1 DEF ObjectsTypeOK, Alive, ScriptLabel
  <2> QED
    BY <2>1, <2>2 DEF ObjectsTypeOK, DropPackage
<1>2. CASE left[s] # {f}
  BY <1>2 DEF ObjectsTypeOK, NextFile, Alive
<1> QED BY <1>1, <1>2

(* Every step of a run keeps the types. *)
LEMMA RunTypes ==
    ASSUME ObjectsAssumption, ObjectsTypeOK, NEW s \in Script, ScriptStep(s),
           pc[s] \in FallibleLabel => cur[s] \in Package,
           left[s] # {} => pc[s] = "file"
    PROVE  ObjectsTypeOK'
<1> USE DEF ObjectsAssumption, ObjectsTypeOK
<1>1. CASE Finish(s)
  BY <1>1 DEF Finish, Step, Vanishes, DropPackage, history, aspace, batchDisk, Alive, ScriptLabel,
     AnswerLabel
<1>2. CASE Answer(s)
  BY <1>2 DEF Answer, Step, cursor, aspace, batchDisk, Alive, ScriptLabel, AnswerLabel
<1>3. CASE CheckUriTxt(s)
  BY <1>3 DEF CheckUriTxt, Step, request, history, aspace, batchDisk, Alive, ScriptLabel,
     AnswerLabel
<1>4. CASE UriFails(s)
  BY <1>4 DEF UriFails, Trouble, NoTrouble, cursor, aspace, batchDisk, Alive, ScriptLabel,
     AnswerLabel
<1>5. CASE SearchItem(s)
  BY <1>5 DEF SearchItem, Step, cursor, request, history, aspace, Alive, ScriptLabel, AnswerLabel
<1>6. CASE NoSingleItem(s)
  BY <1>6 DEF NoSingleItem, Fail, Step, DropPackage, aspace, batchDisk, Alive, ScriptLabel,
     AnswerLabel, FallibleLabel
<1>7. CASE WriteUriTxt(s)
  BY <1>7 DEF WriteUriTxt, Step, cursor, request, history, aspace, Alive, ScriptLabel, AnswerLabel
<1>8. CASE CheckDigitalObject(s)
  BY <1>8 DEF CheckDigitalObject, Step, cursor, request, history, aspace, batchDisk, Alive,
     ScriptLabel, AnswerLabel
<1>9. CASE TooManyObjects(s)
  BY <1>9 DEF TooManyObjects, Fail, Step, DropPackage, aspace, batchDisk, Alive, ScriptLabel,
     AnswerLabel, FallibleLabel
<1>10. CASE WriteDigitalObject(s)
  BY <1>10 DEF WriteDigitalObject, Step, cursor, request, history, batchDisk, Alive, ScriptLabel,
     AnswerLabel, FallibleLabel
<1>11. CASE IdentifierTaken(s)
  BY <1>11 DEF IdentifierTaken, Fail, Step, DropPackage, aspace, batchDisk, Alive, ScriptLabel,
     AnswerLabel, FallibleLabel
<1>12. CASE PostLink(s)
  BY <1>12 DEF PostLink, LinkItem, FilesFollow, Step, cursor, request, history, batchDisk, Alive,
     ScriptLabel, AnswerLabel, FallibleLabel
<1>13. CASE FetchTree(s)
  <2>1. cur[s] \in Package
    BY <1>13 DEF FetchTree, FallibleLabel
  <2>2. FirstPage(cur[s]) \in Seq(Title)
    BY <2>1, PageLists
  <2> QED
    BY <1>13, <2>1, <2>2 DEF FetchTree, Step, request, history, aspace, batchDisk, Alive,
       ScriptLabel, AnswerLabel
<1>14. CASE NoFiles(s)
  BY <1>14 DEF NoFiles, Step, DropPackage, request, history, aspace, batchDisk, Alive,
     ScriptLabel, AnswerLabel
<1>15. CASE ProcessSingleFile(s)
  <2>1. PICK f \in left[s] : /\ NextFile(s, f)
                             /\ \/ CreateNewComponent(s, f) \/ UpdateExistingComponent(s, f)
                                \/ NoUpdate(s, f) /\ UNCHANGED <<instances, rows>>
    BY <1>15 DEF ProcessSingleFile
  <2>2. cur[s] \in Package
    BY <2>1 DEF FallibleLabel
  <2>3. rows' \in [Package -> Seq(Row)] /\ instances' = instances
    BY <2>1, <2>2, RowLists DEF CreateNewComponent, UpdateExistingComponent
  <2> QED
    BY <1>15, <2>1, <2>3, NextFileTypes DEF ProcessSingleFile, request, history, batchDisk
<1>16. CASE PostRefused(s)
  <2>1. FilesFollow(s) \/ \E f \in left[s] : NextFile(s, f)
    BY <1>16 DEF PostRefused
  <2>2. CASE FilesFollow(s)
    BY <1>16, <2>2 DEF PostRefused, Trouble, FilesFollow, Step, cursor, request, aspace, batchDisk,
       Alive, ScriptLabel
  <2>3. ASSUME NEW f \in left[s], NextFile(s, f) PROVE ObjectsTypeOK'
    BY <1>16, <2>3, NextFileTypes DEF PostRefused, Trouble, request, aspace, batchDisk
  <2> QED BY <2>1, <2>2, <2>3
<1>17. CASE RequestFails(s)
  BY <1>17 DEF RequestFails, Trouble, Fail, Step, DropPackage, aspace, batchDisk, Alive,
     ScriptLabel,
     AnswerLabel, FallibleLabel
<1>18. CASE AnswerLost(s)
  <2>1. cur[s] \in Package
    BY <1>18 DEF AnswerLost, FallibleLabel, LinkItem, CreateNewComponent, UpdateExistingComponent
  <2>2. CASE LinkItem(s) \/ UNCHANGED <<instances, rows>>
    BY <1>18, <2>1, <2>2 DEF AnswerLost, LinkItem, Trouble, Fail, Step, DropPackage, batchDisk,
       Alive,
       ScriptLabel, AnswerLabel, FallibleLabel
  <2>3. ASSUME NEW f \in left[s], CreateNewComponent(s, f) \/ UpdateExistingComponent(s, f)
        PROVE  ObjectsTypeOK'
    <3>1. rows' \in [Package -> Seq(Row)] /\ instances' = instances
      BY <2>1, <2>3, RowLists DEF CreateNewComponent, UpdateExistingComponent
    <3>2. object' \subseteq Package
      BY <1>18, <2>1 DEF AnswerLost
    <3>3. pc[s] = "file"
      BY <2>3 DEF CreateNewComponent, UpdateExistingComponent
    <3> QED
      BY <1>18, <2>1, <3>1, <3>2, <3>3 DEF AnswerLost, Trouble, Fail, Step, DropPackage,
         batchDisk, Alive,
         ScriptLabel, AnswerLabel, FallibleLabel
  <2> QED
    BY <1>18, <2>2, <2>3 DEF AnswerLost
<1> QED
  BY <1>1, <1>2, <1>3, <1>4, <1>5, <1>6, <1>7, <1>8, <1>9, <1>10, <1>11, <1>12, <1>13, <1>14, <1>15,
     <1>16, <1>17, <1>18 DEF ScriptStep

(* What is around the scripts keeps the types. *)
LEMMA AroundTypes ==
    ASSUME ObjectsAssumption, ObjectsTypeOK,
           \/ \E s \in Script : MakeDigitalObjects(s) \/ Timeout(s) \/ KillWaiter(s)
           \/ \E p \in Package : Revert(p) \/ Prepare(p)
           \/ UNCHANGED objectVars
    PROVE  ObjectsTypeOK'
<1> USE DEF ObjectsAssumption, ObjectsTypeOK
<1>1. ASSUME NEW s \in Script, MakeDigitalObjects(s) PROVE ObjectsTypeOK'
  BY <1>1 DEF MakeDigitalObjects, Edit, Step, cursor, aspace, batchDisk, Alive, ScriptLabel
<1>2. ASSUME NEW s \in Script, Timeout(s) PROVE ObjectsTypeOK'
  BY <1>2 DEF Timeout, Trouble, Vanishes, Step, DropPackage, aspace, batchDisk, Alive, ScriptLabel,
     AnswerLabel
<1>3. ASSUME NEW s \in Script, KillWaiter(s) PROVE ObjectsTypeOK'
  <2>1. CASE UNCHANGED <<pc, done, cursor, mapping, failures>>
    BY <1>3, <2>1 DEF KillWaiter, Trouble, cursor, aspace, batchDisk, Alive
  <2>2. CASE Step(s, "idle") /\ Vanishes(s)
    <3>1. pc' \in [Script -> ScriptLabel] /\ waiting' \subseteq Alive'
      BY <1>3, <2>2 DEF KillWaiter, Step, Alive, ScriptLabel
    <3>2. /\ done' \in [Script -> 0..Len(Batch)] /\ mapping' \in [Script -> Mappings \cup {{}}]
          /\ cur' \in [Script -> Package \cup {NoPackage}] /\ page' \in [Script -> Seq(Title)]
          /\ left' \in [Script -> SUBSET Title] /\ failures' \in [Script -> SUBSET Package]
      BY <2>2 DEF Vanishes, DropPackage
    <3> QED
      BY <1>3, <3>1, <3>2 DEF KillWaiter, Trouble, aspace, batchDisk
  <2> QED BY <1>3, <2>1, <2>2 DEF KillWaiter
<1>4. ASSUME NEW p \in Package, Revert(p) PROVE ObjectsTypeOK'
  <2>1. uriTxt' \in [Package -> {"none", "empty", "item", "wrong"}] /\ reverted' \subseteq Script
    BY <1>4 DEF Revert, Alive
  <2>2. edits' \in 0..MaxEdits
    BY <1>4 DEF Revert, Edit
  <2> QED
    BY <1>4, <2>1, <2>2 DEF Revert, cursor, request, aspace, Alive
<1>5. ASSUME NEW p \in Package, Prepare(p) PROVE ObjectsTypeOK'
  <2>1. PICK f \in Title \cup {p} :
           \/ /\ f \in Title /\ files' = [files EXCEPT ![p] = (@ \ {f}) \cup ({f} \ @)]
              /\ UNCHANGED <<uriTxt, catalog, instances>>
           \/ catalog' = [catalog EXCEPT ![p] = 1] /\ UNCHANGED <<uriTxt, files, instances>>
           \/ uriTxt' = [uriTxt EXCEPT ![p] = "wrong"] /\ UNCHANGED <<catalog, files, instances>>
           \/ /\ instances[p] < 2 /\ instances' = [instances EXCEPT ![p] = @ + 1]
              /\ UNCHANGED <<uriTxt, catalog, files>>
    BY <1>5 DEF Prepare
  <2>2. /\ files \in [Package -> SUBSET Title] /\ instances \in [Package -> 0..2]
        /\ uriTxt \in [Package -> {"none", "empty", "item", "wrong"}] /\ catalog \in [Package -> 0..2]
    OBVIOUS
  <2> HIDE DEF ObjectsTypeOK, ObjectsAssumption
  <2>3. /\ files' \in [Package -> SUBSET Title]
        /\ uriTxt' \in [Package -> {"none", "empty", "item", "wrong"}]
    BY <2>1, <2>2
  <2>4. instances[p] < 2 => instances[p] + 1 \in 0..2
    BY <2>2
  <2>5. instances' \in [Package -> 0..2]
    BY <2>1, <2>2, <2>4
  <2>6. catalog' \in [Package -> 0..2]
    BY <2>1, <2>2
  <2> QED
    BY <1>5, <2>3, <2>5, <2>6 DEF Prepare, Edit, cursor, request, Alive, ObjectsTypeOK,
       ObjectsAssumption
<1>6. CASE UNCHANGED objectVars
  BY <1>6 DEF objectVars, Alive
<1> QED BY <1>1, <1>2, <1>3, <1>4, <1>5, <1>6

-----------------------------------------------------------------------------
(* Where a script is: at a package, and what it read of the object's tree  *)
(* is what the object's first components are still called.                 *)
Located ==
    \A s \in Script :
       /\ pc[s] \in FallibleLabel => done[s] \in DOMAIN Batch /\ cur[s] = Batch[done[s]]
       /\ pc[s] # "file" => page[s] = <<>> /\ left[s] = {}
       /\ \A i \in DOMAIN page[s] : i \in DOMAIN rows[cur[s]] /\ page[s][i] = rows[cur[s]][i].title
       /\ pc[s] \in {"idle"} \cup AnswerLabel => done[s] = 0

(* Components only change by the two posts that make them.                 *)
RowsPosted == \E s \in Script : \E f \in left[s] :
                 /\ CreateNewComponent(s, f) \/ UpdateExistingComponent(s, f)
                 /\ NextFile(s, f) \/ Fail(s)
                 /\ UNCHANGED <<uriTxt, files, object, crossed, reverted>>

(* Every step that changes a component is one of them. *)
LEMMA RowsChange == ASSUME [ObjectsNext]_objectVars PROVE rows' = rows \/ RowsPosted
<1>1. ASSUME NEW s \in Script, ScriptStep(s) PROVE rows' = rows \/ RowsPosted
  <2>1. CASE ProcessSingleFile(s)
    BY <2>1 DEF ProcessSingleFile, RowsPosted, batchDisk, history
  <2>2. CASE AnswerLost(s)
    BY <2>2 DEF AnswerLost, RowsPosted, LinkItem, batchDisk, Fail
  <2> QED
    BY <1>1, <2>1, <2>2 DEF ScriptStep, Finish, Answer, CheckUriTxt, UriFails, SearchItem,
       NoSingleItem,
       WriteUriTxt, CheckDigitalObject, TooManyObjects, WriteDigitalObject, IdentifierTaken, PostLink,
       LinkItem, FetchTree, NoFiles, PostRefused, RequestFails, aspace
<1> QED
  BY <1>1 DEF ObjectsNext, MakeDigitalObjects, Timeout, KillWaiter, Revert, Prepare, objectVars,
     aspace

(* No component goes, is renamed or loses its id. *)
RowsGrow ==
    \A p \in Package : \A i \in DOMAIN rows[p] :
          /\ i \in DOMAIN rows'[p]
          /\ rows'[p][i].title = rows[p][i].title
          /\ rows[p][i].id # NoId => rows'[p][i] = rows[p][i]

(* A post adds a component, or an id to one that has none. *)
LEMMA RowsOnlyGrow ==
    ASSUME ObjectsTypeOK, Located, [ObjectsNext]_objectVars PROVE RowsGrow
<1>1. CASE rows' = rows
  BY <1>1 DEF RowsGrow
<1>2. CASE RowsPosted
  <2>0. PICK s \in Script : \E f \in left[s] : CreateNewComponent(s, f) \/ UpdateExistingComponent(s, f)
    BY <1>2 DEF RowsPosted
  <2>1. PICK f \in left[s] : CreateNewComponent(s, f) \/ UpdateExistingComponent(s, f)
    BY <2>0
  <2> DEFINE p == cur[s]
  <2>2. pc[s] = "file" /\ p \in Package
    BY <2>1 DEF CreateNewComponent, UpdateExistingComponent, Located, FallibleLabel, Package
  <2>3. rows[p] \in Seq(Row) /\ DOMAIN rows = Package
    BY <2>2 DEF ObjectsTypeOK
  <2>4. CASE CreateNewComponent(s, f)
    <3>1. PICK k \in KalturaId(mapping[s], p, f) : rows' = [rows EXCEPT ![p] = Append(@, [title |-> f, id |-> k])]
      BY <2>4 DEF CreateNewComponent
    <3>2. \A i \in DOMAIN rows[p] : i \in DOMAIN rows'[p] /\ rows'[p][i] = rows[p][i]
      BY <2>2, <2>3, <3>1
    <3> QED BY <2>3, <3>1, <3>2 DEF RowsGrow
  <2>5. CASE UpdateExistingComponent(s, f)
    <3> DEFINE bare == {i \in Same(s, f) : rows[p][i].id = NoId}
    <3>1. PICK k \in KalturaId(mapping[s], p, f) :
               rows' = [rows EXCEPT ![p] = [i \in DOMAIN @ |-> IF i \in bare THEN [@[i] EXCEPT !.id = k]
                                                               ELSE @[i]]]
      BY <2>5 DEF UpdateExistingComponent
    <3>2. rows'[p] = [i \in DOMAIN rows[p] |-> IF i \in bare THEN [rows[p][i] EXCEPT !.id = k]
                                               ELSE rows[p][i]]
      BY <2>2, <2>3, <3>1
    <3>3. \A i \in DOMAIN rows[p] : rows[p][i] \in Row
      BY <2>3
    <3>4. \A r \in Row : [r EXCEPT !.id = k].title = r.title
      BY DEF Row
    <3>5. ASSUME NEW i \in DOMAIN rows[p]
          PROVE  /\ i \in DOMAIN rows'[p] /\ rows'[p][i].title = rows[p][i].title
                 /\ rows[p][i].id # NoId => rows'[p][i] = rows[p][i]
      BY <3>2, <3>3, <3>4
    <3>6. \A q \in Package \ {p} : rows'[q] = rows[q]
      BY <2>3, <3>1
    <3> QED BY <3>5, <3>6 DEF RowsGrow
  <2> QED BY <2>1, <2>4, <2>5
<1> QED BY <1>1, <1>2, RowsChange

(* What one script does is nothing to the local variables of another. *)
Unmoved(q) ==
    /\ pc'[q] = pc[q] /\ done'[q] = done[q] /\ cur'[q] = cur[q] /\ page'[q] = page[q]
    /\ left'[q] = left[q] /\ failures'[q] = failures[q] /\ mapping'[q] = mapping[q]
    /\ (q \in refused' <=> q \in refused) /\ (q \in reverted' <=> q \in reverted)

(* No action of a script changes those of another. *)
LEMMA OthersUnmoved ==
    ASSUME ObjectsTypeOK, NEW s \in Script, NEW q \in Script \ {s},
           ScriptStep(s) \/ MakeDigitalObjects(s) \/ Timeout(s) \/ KillWaiter(s)
    PROVE  Unmoved(q)
<1> USE DEF ObjectsTypeOK, Unmoved
<1>1. CASE Finish(s) \/ Answer(s) \/ Timeout(s) \/ KillWaiter(s) \/ MakeDigitalObjects(s)
  BY <1>1 DEF Finish, Answer, Timeout, KillWaiter, MakeDigitalObjects, Vanishes, DropPackage, Step,
     cursor, history
<1>2. CASE CheckUriTxt(s) \/ UriFails(s) \/ SearchItem(s) \/ WriteUriTxt(s)
  BY <1>2 DEF CheckUriTxt, UriFails, SearchItem, WriteUriTxt, Step, cursor, request, history
<1>3. CASE NoSingleItem(s) \/ TooManyObjects(s) \/ IdentifierTaken(s) \/ RequestFails(s) \/ AnswerLost(s)
  BY <1>3 DEF NoSingleItem, TooManyObjects, IdentifierTaken, RequestFails, AnswerLost, Fail,
     DropPackage, Step
<1>4. CASE CheckDigitalObject(s) \/ WriteDigitalObject(s) \/ FetchTree(s) \/ NoFiles(s)
  BY <1>4 DEF CheckDigitalObject, WriteDigitalObject, FetchTree, NoFiles, DropPackage, Step, cursor,
     request, history
<1>5. CASE PostLink(s) \/ ProcessSingleFile(s) \/ PostRefused(s)
  <2>1. FilesFollow(s) \/ \E f \in left[s] : NextFile(s, f)
    BY <1>5 DEF PostLink, ProcessSingleFile, PostRefused
  <2>2. pc'[q] = pc[q] /\ cur'[q] = cur[q] /\ page'[q] = page[q] /\ left'[q] = left[q]
    BY <2>1 DEF FilesFollow, NextFile, DropPackage, Step, cursor
  <2> QED
    BY <1>5, <2>2 DEF PostLink, ProcessSingleFile, PostRefused, request, history
<1> QED
  BY <1>1, <1>2, <1>3, <1>4, <1>5 DEF ScriptStep

(* Every step leaves the scripts located. *)
LEMMA LocatedStep ==
    ASSUME ObjectsAssumption, ObjectsTypeOK, Located, [ObjectsNext]_objectVars PROVE Located'
<1>0. RowsGrow
  BY RowsOnlyGrow
<1> DEFINE At(q) ==
      /\ pc[q] \in FallibleLabel => done[q] \in DOMAIN Batch /\ cur[q] = Batch[done[q]]
      /\ pc[q] # "file" => page[q] = <<>> /\ left[q] = {}
      /\ \A i \in DOMAIN page[q] : i \in DOMAIN rows[cur[q]] /\ page[q][i] = rows[cur[q]][i].title
      /\ pc[q] \in {"idle"} \cup AnswerLabel => done[q] = 0
<1>1. ASSUME NEW q \in Script, pc'[q] = pc[q], done'[q] = done[q], cur'[q] = cur[q], page'[q] = page[q],
             left'[q] \subseteq left[q]
      PROVE  At(q)'
  <2>1. At(q)
    BY DEF Located
  <2>2. page[q] # <<>> => cur[q] \in Package
    BY <2>1 DEF FallibleLabel, Package
  <2>3. ASSUME NEW i \in DOMAIN page[q] PROVE i \in DOMAIN rows'[cur[q]] /\ page[q][i] = rows'[cur[q]][i].title
    BY <2>1, <2>2, <2>3, <1>0 DEF RowsGrow
  <2> QED BY <1>1, <2>1, <2>3
<1>2. ASSUME NEW s \in Script, page'[s] = <<>>, left'[s] = {}, pc'[s] # "file",
             pc'[s] \in {"idle"} \cup AnswerLabel => done'[s] = 0,
             pc'[s] \in FallibleLabel => done'[s] \in DOMAIN Batch /\ cur'[s] = Batch[done'[s]]
      PROVE  At(s)'
  BY <1>2
<1>3. ASSUME NEW s \in Script, DropPackage(s), Step(s, "next") PROVE At(s)'
  BY <1>3 DEF DropPackage, Step, ObjectsTypeOK, FallibleLabel, AnswerLabel
<1>4. ASSUME NEW s \in Script, ScriptStep(s) \/ MakeDigitalObjects(s) \/ Timeout(s) \/ KillWaiter(s)
      PROVE  At(s)'
  <2>0. At(s)
    BY DEF Located
  <2>1. CASE Finish(s) \/ Timeout(s) \/ KillWaiter(s) \/ Answer(s) \/ MakeDigitalObjects(s)
    <3>1. CASE Vanishes(s) /\ pc'[s] \in {"idle"} \cup AnswerLabel
      BY <3>1, <1>2 DEF Vanishes, DropPackage, ObjectsTypeOK, FallibleLabel, AnswerLabel
    <3>2. CASE UNCHANGED <<pc, done, cursor>>
      BY <3>2, <1>1 DEF cursor
    <3>3. CASE Answer(s) \/ MakeDigitalObjects(s)
      BY <3>3, <2>0, <1>2 DEF Answer, MakeDigitalObjects, Step, cursor, ObjectsTypeOK,
         FallibleLabel,
         AnswerLabel
    <3> QED
      BY <2>1, <3>1, <3>2, <3>3 DEF Finish, Timeout, KillWaiter, Step, ObjectsTypeOK, AnswerLabel
  <2>2. CASE CheckUriTxt(s)
    <3>1. done[s] + 1 \in DOMAIN Batch
      BY <2>2 DEF CheckUriTxt, ObjectsTypeOK, ObjectsAssumption
    <3> QED
      BY <2>2, <2>0, <1>2, <3>1 DEF CheckUriTxt, Step, ObjectsTypeOK, FallibleLabel, AnswerLabel
  <2>3. CASE UriFails(s)
    BY <2>3, <2>0, <1>2 DEF UriFails, cursor, FallibleLabel, AnswerLabel
  <2>4. CASE SearchItem(s) \/ WriteUriTxt(s) \/ CheckDigitalObject(s) \/ WriteDigitalObject(s)
    BY <2>4, <2>0, <1>2 DEF SearchItem, WriteUriTxt, CheckDigitalObject, WriteDigitalObject, Step,
       cursor,
       ObjectsTypeOK, FallibleLabel, AnswerLabel
  <2>5. CASE NoSingleItem(s) \/ TooManyObjects(s) \/ IdentifierTaken(s) \/ RequestFails(s)
             \/ AnswerLost(s) \/ NoFiles(s)
    BY <2>5, <1>3 DEF NoSingleItem, TooManyObjects, IdentifierTaken, RequestFails, AnswerLost,
       NoFiles, Fail
  <2>6. CASE FetchTree(s)
    <3>1. rows'[cur[s]] = rows[cur[s]]
      BY <2>6 DEF FetchTree, aspace
    <3> QED
      BY <2>6, <2>0, <3>1 DEF FetchTree, FirstPage, Step, ObjectsTypeOK, FallibleLabel, AnswerLabel
  <2>7. CASE PostLink(s) \/ ProcessSingleFile(s) \/ PostRefused(s)
    <3>1. CASE FilesFollow(s)
      BY <2>7, <3>1, <2>0, <1>2 DEF PostLink, ProcessSingleFile, PostRefused, FilesFollow, Step,
         cursor,
         ObjectsTypeOK, FallibleLabel, AnswerLabel
    <3>2. ASSUME NEW f \in left[s], NextFile(s, f) PROVE At(s)'
      <4>1. done'[s] = done[s]
        BY <2>7 DEF PostLink, ProcessSingleFile, PostRefused
      <4>2. CASE left[s] = {f}
        BY <1>3, <3>2, <4>2 DEF NextFile
      <4>3. CASE left[s] # {f}
        BY <1>1, <3>2, <4>1, <4>3 DEF NextFile, ObjectsTypeOK
      <4> QED BY <4>2, <4>3
    <3> QED BY <2>7, <3>1, <3>2 DEF PostLink, ProcessSingleFile, PostRefused
  <2> QED
    BY <1>4, <2>1, <2>2, <2>3, <2>4, <2>5, <2>6, <2>7 DEF ScriptStep
<1>5. ASSUME NEW s \in Script, ScriptStep(s) \/ MakeDigitalObjects(s) \/ Timeout(s) \/ KillWaiter(s)
      PROVE  Located'
  <2>1. \A q \in Script \ {s} : At(q)'
    BY <1>1, <1>5, OthersUnmoved DEF Unmoved
  <2> QED BY <1>4, <1>5, <2>1 DEF Located
<1>6. CASE UNCHANGED <<pc, done, cursor>>
  BY <1>1, <1>6 DEF Located, cursor
<1> QED
  BY <1>5, <1>6 DEF ObjectsNext, objectVars, Revert, Prepare, cursor

(* The types, and where the scripts are. *)
THEOREM ObjectsTypeCorrect ==
    ASSUME ObjectsAssumption PROVE ObjectsSpec => [](ObjectsTypeOK /\ Located)
<1>1. ASSUME ObjectsInit PROVE ObjectsTypeOK /\ Located
  <2>1. /\ uriTxt \in [Package -> {"none", "empty", "item", "wrong"}] /\ catalog \in [Package -> 0..2]
        /\ object \subseteq Package /\ instances \in [Package -> 0..2]
        /\ files \in [Package -> SUBSET Title]
    BY <1>1, ObjectsAssumption DEF ObjectsAssumption, ObjectsInit
  <2>2. rows \in [Package -> Seq(Row)] /\ page \in [Script -> Seq(Title)]
    BY <1>1 DEF ObjectsInit
  <2>3. /\ pc \in [Script -> ScriptLabel] /\ waiting \subseteq Alive
        /\ done \in [Script -> 0..Len(Batch)] /\ cur \in [Script -> Package \cup {NoPackage}]
        /\ left \in [Script -> SUBSET Title] /\ mapping \in [Script -> Mappings \cup {{}}]
        /\ failures \in [Script -> SUBSET Package]
    BY <1>1, ObjectsAssumption DEF ObjectsAssumption, ObjectsInit, ScriptLabel
  <2>4. refused \subseteq Script /\ reverted \subseteq Script /\ crossed \in BOOLEAN
    BY <1>1 DEF ObjectsInit
  <2>5. trouble \in 0..MaxTrouble /\ edits \in 0..MaxEdits
    BY <1>1, ObjectsAssumption DEF ObjectsAssumption, ObjectsInit
  <2>6. Located
    BY <1>1 DEF ObjectsInit, Located, FallibleLabel
  <2> QED BY <2>1, <2>2, <2>3, <2>4, <2>5, <2>6 DEF ObjectsTypeOK
<1>2. ASSUME ObjectsTypeOK, Located, [ObjectsNext]_objectVars PROVE ObjectsTypeOK'
  <2>1. ASSUME NEW s \in Script, ScriptStep(s) PROVE ObjectsTypeOK'
    BY <1>2, <2>1, RunTypes, ObjectsAssumption DEF Located, Package
  <2> QED
    BY <1>2, <2>1, AroundTypes, ObjectsAssumption DEF ObjectsNext
<1>3. ObjectsTypeOK /\ Located /\ [ObjectsNext]_objectVars => ObjectsTypeOK' /\ Located'
  BY <1>2, LocatedStep, ObjectsAssumption
<1> QED
  BY <1>1, <1>3, PTL DEF ObjectsSpec

(* No run, of whatever mapping, takes a component or its entry id away. *)
THEOREM ComponentsKept == ASSUME ObjectsAssumption PROVE ObjectsSpec => RowsKept
<1>1. ObjectsTypeOK /\ Located /\ [ObjectsNext]_objectVars =>
        [\A p \in Package : \A i \in DOMAIN rows[p] :
            /\ i \in DOMAIN rows'[p]
            /\ rows'[p][i].title = rows[p][i].title
            /\ rows[p][i].id # NoId => rows'[p][i] = rows[p][i]]_objectVars
  BY RowsOnlyGrow DEF RowsGrow
<1> QED
  BY <1>1, ObjectsTypeCorrect, ObjectsAssumption, PTL DEF ObjectsSpec, RowsKept

-----------------------------------------------------------------------------
(* A post writes an entry id of its own package and file. *)
LEMMA KalturaStep ==
    ASSUME ObjectsTypeOK, Located, KalturaOwn, [ObjectsNext]_objectVars PROVE KalturaOwn'
<1> DEFINE Own(p, t) == {NoId} \cup {e.entry_id : e \in {e \in UNION Mappings : e.package = p /\ e.file = t}}
<1>1. CASE rows' = rows
  BY <1>1 DEF KalturaOwn
<1>2. CASE RowsPosted
  <2>0. PICK s \in Script : \E f \in left[s] : CreateNewComponent(s, f) \/ UpdateExistingComponent(s, f)
    BY <1>2 DEF RowsPosted
  <2>1. PICK f \in left[s] : CreateNewComponent(s, f) \/ UpdateExistingComponent(s, f)
    BY <2>0
  <2> DEFINE p == cur[s]
  <2>2. pc[s] = "file" /\ p \in Package
    BY <2>1 DEF CreateNewComponent, UpdateExistingComponent, Located, FallibleLabel, Package
  <2>3. rows[p] \in Seq(Row) /\ DOMAIN rows = Package /\ mapping[s] \in Mappings \cup {{}}
    BY <2>2 DEF ObjectsTypeOK
  <2>4. KalturaId(mapping[s], p, f) \subseteq Own(p, f)
    BY <2>3 DEF KalturaId
  <2>5. \A i \in DOMAIN rows[p] : rows[p][i].id \in Own(p, rows[p][i].title)
    BY <2>2 DEF KalturaOwn
  <2>6. \A q \in Package \ {p} : rows'[q] = rows[q]
    BY <2>1, <2>3 DEF CreateNewComponent, UpdateExistingComponent
  <2>7. ASSUME NEW i \in DOMAIN rows'[p] PROVE rows'[p][i].id \in Own(p, rows'[p][i].title)
    <3>1. CASE CreateNewComponent(s, f)
      <4>1. PICK k \in KalturaId(mapping[s], p, f) :
                 rows' = [rows EXCEPT ![p] = Append(@, [title |-> f, id |-> k])]
        BY <3>1 DEF CreateNewComponent
      <4>2. rows'[p] = Append(rows[p], [title |-> f, id |-> k])
        BY <2>2, <2>3, <4>1
      <4> HIDE DEF Own
      <4>3. CASE i \in DOMAIN rows[p]
        BY <2>3, <2>5, <4>2, <4>3
      <4>4. CASE i \notin DOMAIN rows[p]
        BY <2>3, <2>4, <2>7, <4>2, <4>4
      <4> QED BY <4>3, <4>4
    <3>2. CASE UpdateExistingComponent(s, f)
      <4> DEFINE bare == {j \in Same(s, f) : rows[p][j].id = NoId}
      <4>1. PICK k \in KalturaId(mapping[s], p, f) :
                 rows' = [rows EXCEPT ![p] = [j \in DOMAIN @ |-> IF j \in bare THEN [@[j] EXCEPT !.id = k]
                                                                 ELSE @[j]]]
        BY <3>2 DEF UpdateExistingComponent
      <4>2. rows'[p] = [j \in DOMAIN rows[p] |-> IF j \in bare THEN [rows[p][j] EXCEPT !.id = k]
                                                 ELSE rows[p][j]]
        BY <2>2, <2>3, <4>1
      <4>3. i \in DOMAIN rows[p] /\ rows[p][i] \in Row
        BY <2>3, <2>7, <4>2
      <4>4. i \in bare => rows[p][i].title = f
        BY DEF Same, Located
      <4> HIDE DEF Own, bare
      <4>5. CASE i \in bare
        <5>1. rows'[p][i].title = f /\ rows'[p][i].id = k
          BY <4>2, <4>3, <4>4, <4>5 DEF Row
        <5> QED BY <2>4, <5>1
      <4>6. CASE i \notin bare
        BY <2>5, <4>2, <4>3, <4>6
      <4> QED BY <4>5, <4>6
    <3> QED BY <2>1, <3>1, <3>2
  <2> QED BY <2>2, <2>3, <2>6, <2>7 DEF KalturaOwn
<1> QED BY <1>1, <1>2, RowsChange

(* Every entry id is one that a client sent for the package and the file. *)
THEOREM EntryIdsOwn == ASSUME ObjectsAssumption PROVE ObjectsSpec => []KalturaOwn
<1>1. ObjectsInit => KalturaOwn
  BY DEF ObjectsInit, KalturaOwn
<1>2. ObjectsTypeOK /\ Located /\ KalturaOwn /\ [ObjectsNext]_objectVars => KalturaOwn'
  BY KalturaStep
<1> QED
  BY <1>1, <1>2, ObjectsTypeCorrect, ObjectsAssumption, PTL DEF ObjectsSpec

-----------------------------------------------------------------------------
(* Scripts that never overlapped: at most one is at work. *)
Alone == ~crossed => \A s, q \in Alive : s = q

(* A script that does something has begun, and its own steps do not make   *)
(* scripts overlap.                                                        *)
LEMMA AtWork ==
    ASSUME ObjectsTypeOK, Located, NEW s \in Script, ScriptStep(s) \/ Timeout(s) \/ KillWaiter(s)
    PROVE  pc[s] # "idle" /\ crossed' = crossed
<1>1. CASE Timeout(s) \/ KillWaiter(s)
  BY <1>1 DEF Timeout, KillWaiter, ObjectsTypeOK, Alive
<1>2. CASE Finish(s) \/ Answer(s) \/ CheckUriTxt(s) \/ UriFails(s) \/ SearchItem(s) \/ WriteUriTxt(s)
  BY <1>2 DEF Finish, Answer, CheckUriTxt, UriFails, SearchItem, WriteUriTxt, AnswerLabel, history
<1>3. CASE NoSingleItem(s) \/ TooManyObjects(s) \/ IdentifierTaken(s) \/ RequestFails(s)
  BY <1>3 DEF NoSingleItem, TooManyObjects, IdentifierTaken, RequestFails, Fail, FallibleLabel
<1>4. CASE CheckDigitalObject(s) \/ WriteDigitalObject(s) \/ FetchTree(s) \/ NoFiles(s) \/ PostLink(s)
  BY <1>4 DEF CheckDigitalObject, WriteDigitalObject, FetchTree, NoFiles, PostLink, LinkItem,
     history
<1>5. CASE ProcessSingleFile(s)
  BY <1>5 DEF ProcessSingleFile, CreateNewComponent, UpdateExistingComponent, NoUpdate, history
<1>6. CASE AnswerLost(s)
  BY <1>6 DEF AnswerLost, LinkItem, CreateNewComponent, UpdateExistingComponent, Fail
<1>7. CASE PostRefused(s)
  BY <1>7 DEF PostRefused, FilesFollow, Located
<1> QED
  BY <1>1, <1>2, <1>3, <1>4, <1>5, <1>6, <1>7 DEF ScriptStep

(* Only a run that begins makes scripts overlap.                           *)
LEMMA AloneStep ==
    ASSUME ObjectsTypeOK, Located, Alone, [ObjectsNext]_objectVars PROVE Alone' /\ (~crossed' => ~crossed)
<1>1. ASSUME NEW s \in Script, MakeDigitalObjects(s) PROVE Alone' /\ (~crossed' => ~crossed)
  <2>1. ~crossed' => ~crossed /\ Alive = {}
    BY <1>1 DEF MakeDigitalObjects
  <2>2. \A q \in Alive' : q \in Alive \/ q = s
    BY <1>1 DEF MakeDigitalObjects, Step, Alive, ObjectsTypeOK
  <2> QED BY <2>1, <2>2 DEF Alone
<1>2. ASSUME NEW s \in Script, ScriptStep(s) \/ Timeout(s) \/ KillWaiter(s)
      PROVE  crossed' = crossed /\ Alive' \subseteq Alive
  BY <1>2, AtWork, OthersUnmoved DEF Unmoved, Alive
<1>3. CASE UNCHANGED <<pc, crossed>>
  BY <1>3 DEF Alone, Alive
<1>4. ASSUME crossed' = crossed, Alive' \subseteq Alive PROVE Alone' /\ (~crossed' => ~crossed)
  BY <1>4 DEF Alone
<1> QED
  BY <1>1, <1>2, <1>3, <1>4 DEF ObjectsNext, objectVars, Revert, Prepare

(* What a script is going to look at next has no component that it missed, *)
(* but for those beyond the page.                                          *)
Fresh ==
    ~crossed => \A s \in Script : pc[s] = "file" =>
        \A i \in DOMAIN rows[cur[s]] :
           i <= PageSize => i \in DOMAIN page[s] \/ rows[cur[s]][i].title \notin left[s]

(* A script at its files was there before, or has just read the tree. *)
LEMMA AtFile ==
    ASSUME ObjectsTypeOK, Located, [ObjectsNext]_objectVars, NEW q \in Script, pc'[q] = "file"
    PROVE  \/ pc[q] = "file" /\ cur'[q] = cur[q] /\ page'[q] = page[q] /\ left'[q] \subseteq left[q]
           \/ FetchTree(q)
<1> USE DEF ObjectsTypeOK
<1> DEFINE Stays == pc[q] = "file" /\ cur'[q] = cur[q] /\ page'[q] = page[q] /\ left'[q] \subseteq left[q]
<1>1. ASSUME NEW s \in Script \ {q},
             ScriptStep(s) \/ MakeDigitalObjects(s) \/ Timeout(s) \/ KillWaiter(s)
      PROVE  Stays
  BY <1>1, OthersUnmoved DEF Unmoved
<1>2. CASE MakeDigitalObjects(q) \/ Timeout(q) \/ KillWaiter(q)
  BY <1>2 DEF MakeDigitalObjects, Timeout, KillWaiter, Step, cursor
<1>3. CASE ScriptStep(q)
  <2>1. CASE Finish(q) \/ Answer(q) \/ CheckUriTxt(q) \/ UriFails(q) \/ SearchItem(q) \/ WriteUriTxt(q)
    BY <2>1 DEF Finish, Answer, CheckUriTxt, UriFails, SearchItem, WriteUriTxt, Step
  <2>2. CASE NoSingleItem(q) \/ TooManyObjects(q) \/ IdentifierTaken(q) \/ RequestFails(q) \/ AnswerLost(q)
    BY <2>2 DEF NoSingleItem, TooManyObjects, IdentifierTaken, RequestFails, AnswerLost, Fail, Step
  <2>3. CASE CheckDigitalObject(q) \/ WriteDigitalObject(q) \/ NoFiles(q)
    BY <2>3 DEF CheckDigitalObject, WriteDigitalObject, NoFiles, Step
  <2>4. CASE PostLink(q) \/ ProcessSingleFile(q) \/ PostRefused(q)
    <3>1. ASSUME NEW f \in left[q], NextFile(q, f) PROVE Stays
      BY <3>1 DEF NextFile, Step, Located
    <3>2. ~FilesFollow(q)
      BY DEF FilesFollow, Step
    <3> QED BY <2>4, <3>1, <3>2 DEF PostLink, ProcessSingleFile, PostRefused
  <2>5. CASE UriFails(q)
    BY <2>5 DEF UriFails
  <2> QED BY <1>3, <2>1, <2>2, <2>3, <2>4, <2>5 DEF ScriptStep
<1>4. CASE UNCHANGED <<pc, cursor>>
  BY <1>4 DEF cursor
<1> QED
  BY <1>1, <1>2, <1>3, <1>4 DEF ObjectsNext, objectVars, Revert, Prepare, cursor

(* A component is made only for a file that has none on the page. *)
LEMMA FreshStep ==
    ASSUME ObjectsAssumption, ObjectsTypeOK, Located, Alone, Fresh, NoDuplicates,
           [ObjectsNext]_objectVars
    PROVE  Fresh' /\ NoDuplicates'
<1> SUFFICES ASSUME ~crossed' PROVE Fresh' /\ NoDuplicates'
  BY DEF Fresh, NoDuplicates
<1>0. ~crossed
  BY AloneStep
<1>1. CASE rows' = rows
  <2>1. NoDuplicates'
    BY <1>0, <1>1 DEF NoDuplicates
  <2>2. ASSUME NEW q \in Script, pc'[q] = "file", NEW i \in DOMAIN rows[cur'[q]], i <= PageSize
        PROVE  i \in DOMAIN page'[q] \/ rows[cur'[q]][i].title \notin left'[q]
    <3>1. CASE pc[q] = "file" /\ cur'[q] = cur[q] /\ page'[q] = page[q] /\ left'[q] \subseteq left[q]
      BY <1>0, <2>2, <3>1 DEF Fresh
    <3>2. CASE FetchTree(q)
      <4>1. cur[q] \in Package /\ cur'[q] = cur[q] /\ page'[q] = FirstPage(cur[q])
        BY <3>2 DEF FetchTree, ObjectsTypeOK, Located, FallibleLabel, Package
      <4>2. rows[cur[q]] \in Seq(Row)
        BY <4>1 DEF ObjectsTypeOK
      <4>3. i \in 1..PageSize
        BY <2>2, <4>1, <4>2
      <4> QED BY <2>2, <4>1, <4>3 DEF FirstPage
    <3> QED BY <2>2, <3>1, <3>2, AtFile
  <2> QED BY <1>1, <2>1, <2>2 DEF Fresh
<1>2. CASE rows' # rows /\ RowsPosted
  <2>0. PICK s \in Script : \E f \in left[s] :
                 /\ CreateNewComponent(s, f) \/ UpdateExistingComponent(s, f)
                 /\ NextFile(s, f) \/ Fail(s)
    BY <1>2 DEF RowsPosted
  <2>1. PICK f \in left[s] : /\ CreateNewComponent(s, f) \/ UpdateExistingComponent(s, f)
                             /\ NextFile(s, f) \/ Fail(s)
    BY <2>0
  <2> DEFINE p == cur[s]
  <2>2. pc[s] = "file" /\ p \in Package
    BY <2>1 DEF CreateNewComponent, UpdateExistingComponent, Located, FallibleLabel, Package
  <2>3. rows[p] \in Seq(Row) /\ rows \in [Package -> Seq(Row)]
    BY <2>2 DEF ObjectsTypeOK
  <2>4. \A q \in Package \ {p} : rows'[q] = rows[q]
    BY <2>1, <2>3 DEF CreateNewComponent, UpdateExistingComponent
  <2>5. RowsGrow
    BY RowsOnlyGrow
  <2>6. \A j \in DOMAIN rows'[p] :
           \/ j \in DOMAIN rows[p]
           \/ j = Len(rows[p]) + 1 /\ rows'[p][j].title = f /\ Same(s, f) = {}
    <3>1. CASE CreateNewComponent(s, f)
      <4>1. PICK k \in KalturaId(mapping[s], p, f) :
                 rows' = [rows EXCEPT ![p] = Append(@, [title |-> f, id |-> k])]
        BY <3>1 DEF CreateNewComponent
      <4>2. rows'[p] = Append(rows[p], [title |-> f, id |-> k])
        BY <2>2, <2>3, <4>1
      <4> QED BY <2>3, <3>1, <4>2 DEF CreateNewComponent
    <3>2. CASE UpdateExistingComponent(s, f)
      <4>1. DOMAIN rows'[p] = DOMAIN rows[p]
        BY <2>2, <2>3, <3>2 DEF UpdateExistingComponent
      <4> QED BY <4>1
    <3> QED BY <2>1, <3>1, <3>2
  <2>7. \A i \in DOMAIN rows[p] : i <= PageSize => i \in DOMAIN page[s] \/ rows[p][i].title \notin left[s]
    BY <1>0, <2>2 DEF Fresh
  <2>8. ASSUME NEW i \in DOMAIN rows'[p], NEW j \in DOMAIN rows'[p], i < j,
               rows'[p][i].title = rows'[p][j].title
        PROVE  i > PageSize
    <3>0. rows'[p][i].title = rows[p][i].title /\ i \in DOMAIN rows[p]
      <4>1. i \in DOMAIN rows[p]
        BY <2>3, <2>6, <2>8
      <4> QED BY <2>2, <2>5, <4>1 DEF RowsGrow
    <3>1. CASE j \in DOMAIN rows[p]
      <4>1. rows'[p][j].title = rows[p][j].title
        BY <2>2, <2>5, <3>1 DEF RowsGrow
      <4> QED BY <1>0, <2>2, <2>8, <3>0, <3>1, <4>1 DEF NoDuplicates
    <3>2. CASE j \notin DOMAIN rows[p]
      <4>1. rows[p][i].title = f /\ Same(s, f) = {}
        BY <2>6, <2>8, <3>0, <3>2
      <4>2. i \notin DOMAIN page[s]
        BY <4>1 DEF Same, Located
      <4>3. i \in Nat /\ PageSize \in Nat /\ ~(i <= PageSize)
        BY <2>3, <2>7, <3>0, <4>1, <4>2, ObjectsAssumption DEF ObjectsAssumption
      <4> QED BY <4>3
    <3> QED BY <3>1, <3>2
  <2>9. NoDuplicates'
    <3>1. ASSUME NEW q \in Package, q # p, NEW i \in DOMAIN rows'[q], NEW j \in DOMAIN rows'[q], i < j,
                 rows'[q][i].title = rows'[q][j].title
          PROVE  i > PageSize
      BY <1>0, <2>4, <3>1 DEF NoDuplicates
    <3> QED BY <2>8, <3>1 DEF NoDuplicates
  <2>10. ASSUME NEW q \in Script, pc'[q] = "file", NEW i \in DOMAIN rows'[cur'[q]], i <= PageSize
         PROVE  i \in DOMAIN page'[q] \/ rows'[cur'[q]][i].title \notin left'[q]
    <3>1. pc[q] = "file" /\ cur'[q] = cur[q] /\ page'[q] = page[q] /\ left'[q] \subseteq left[q]
      BY <1>2, <2>10, AtFile DEF FetchTree, aspace
    <3>2. q = s
      BY <1>0, <2>2, <3>1 DEF Alone, Alive
    <3>3. f \notin left'[q]
      BY <2>1, <2>10, <3>2 DEF NextFile, Fail, Step, ObjectsTypeOK
    <3>4. CASE i \in DOMAIN rows[p]
      <4>1. rows'[p][i].title = rows[p][i].title
        BY <2>2, <2>5, <3>4 DEF RowsGrow
      <4> QED BY <2>7, <2>10, <3>1, <3>2, <3>4, <4>1
    <3>5. CASE i \notin DOMAIN rows[p]
      BY <2>6, <2>10, <3>1, <3>2, <3>3, <3>5
    <3> QED BY <3>4, <3>5
  <2> QED BY <2>9, <2>10 DEF Fresh
<1> QED BY <1>1, <1>2, RowsChange

(* No file gets a second component while runs do not overlap. *)
THEOREM ComponentsOnce == ASSUME ObjectsAssumption PROVE ObjectsSpec => []NoDuplicates
<1>1. ObjectsInit => Alone /\ Fresh /\ NoDuplicates
  BY DEF ObjectsInit, Alone, Alive, Fresh, NoDuplicates
<1>2. /\ ObjectsTypeOK /\ Located /\ Alone /\ Fresh /\ NoDuplicates /\ [ObjectsNext]_objectVars
      => Alone' /\ Fresh' /\ NoDuplicates'
  BY AloneStep, FreshStep, ObjectsAssumption
<1> QED
  BY <1>1, <1>2, ObjectsTypeCorrect, ObjectsAssumption, PTL DEF ObjectsSpec

-----------------------------------------------------------------------------
(* Without a failed request no step leaves anything half done. *)
LEMMA HalfDoneStep ==
    ASSUME ObjectsAssumption, ObjectsTypeOK, Located, HalfDoneHasCause, [ObjectsNext]_objectVars
    PROVE  HalfDoneHasCause'
<1> SUFFICES ASSUME trouble' = 0 PROVE HalfDoneHasCause'
  BY DEF HalfDoneHasCause
<1>0. ~Trouble
  BY DEF Trouble, ObjectsTypeOK, ObjectsAssumption
<1> DEFINE Linked(p) == instances[p] # 0 \/ \E s \in Script : pc[s] = "link" /\ cur[s] = p
           Writing(p) == \E s \in Script : pc[s] = "write" /\ cur[s] = p
<1>1. ASSUME NEW s \in Script, \A q \in Script \ {s} : pc'[q] = pc[q] /\ cur'[q] = cur[q],
             trouble' = trouble, object' = object, instances' = instances, uriTxt' = uriTxt,
             pc[s] \notin {"link", "write"}
      PROVE  HalfDoneHasCause'
  BY <1>1 DEF HalfDoneHasCause
<1>2. ASSUME NEW s \in Script, ScriptStep(s) \/ MakeDigitalObjects(s) \/ Timeout(s) \/ KillWaiter(s)
      PROVE  HalfDoneHasCause'
  <2>0. \A q \in Script \ {s} : pc'[q] = pc[q] /\ cur'[q] = cur[q]
    BY <1>2, OthersUnmoved DEF Unmoved
  <2>1. CASE Finish(s) \/ Answer(s) \/ MakeDigitalObjects(s)
    BY <1>1, <2>0, <2>1 DEF Finish, Answer, MakeDigitalObjects, AnswerLabel, history, aspace,
       batchDisk
  <2>2. CASE CheckUriTxt(s) \/ UriFails(s)
    BY <1>0, <1>1, <2>0, <2>2 DEF CheckUriTxt, UriFails, NoTrouble, history, aspace, batchDisk
  <2>3. CASE NoSingleItem(s) \/ TooManyObjects(s) \/ IdentifierTaken(s)
    BY <1>1, <2>0, <2>3 DEF NoSingleItem, TooManyObjects, IdentifierTaken, aspace, batchDisk
  <2>4. CASE CheckDigitalObject(s) \/ FetchTree(s) \/ NoFiles(s)
    BY <1>1, <2>0, <2>4 DEF CheckDigitalObject, FetchTree, NoFiles, history, aspace, batchDisk
  <2>5. CASE SearchItem(s)
    <3>1. pc'[s] = "write" /\ cur'[s] = cur[s] /\ pc[s] = "search"
      BY <2>5 DEF SearchItem, Step, cursor, ObjectsTypeOK
    <3>2. /\ trouble' = trouble /\ object' = object /\ instances' = instances
          /\ \A p \in Package : p # cur[s] => uriTxt'[p] = uriTxt[p]
      BY <2>5 DEF SearchItem, history, aspace, ObjectsTypeOK
    <3> QED BY <2>0, <3>1, <3>2 DEF HalfDoneHasCause
  <2>6. CASE WriteUriTxt(s)
    <3>1. pc[s] = "write" /\ trouble' = trouble /\ object' = object /\ instances' = instances
      BY <2>6 DEF WriteUriTxt, history, aspace
    <3>2. \A p \in Package : uriTxt'[p] = "empty" => p # cur[s] /\ uriTxt[p] = "empty"
      BY <2>6 DEF WriteUriTxt, ObjectsTypeOK
    <3> QED BY <2>0, <3>1, <3>2 DEF HalfDoneHasCause
  <2>7. CASE WriteDigitalObject(s)
    <3>1. /\ pc[s] = "create" /\ pc'[s] = "link" /\ cur'[s] = cur[s]
          /\ trouble' = trouble /\ object' = object \cup {cur[s]}
          /\ instances' = instances /\ uriTxt' = uriTxt
      BY <2>7 DEF WriteDigitalObject, Step, cursor, history, batchDisk, ObjectsTypeOK
    <3> QED BY <2>0, <3>1 DEF HalfDoneHasCause
  <2>8. CASE PostLink(s)
    <3>1. /\ pc[s] = "link" /\ cur[s] \in Package
          /\ trouble' = trouble /\ object' = object /\ uriTxt' = uriTxt
      BY <2>8 DEF PostLink, LinkItem, history, batchDisk, Located, FallibleLabel, Package
    <3>2. \A p \in Package : instances'[p] = IF p = cur[s] THEN 1 ELSE instances[p]
      BY <2>8 DEF PostLink, LinkItem, ObjectsTypeOK
    <3>3. \A p \in object : p \in Package
      BY DEF ObjectsTypeOK
    <3>4. trouble = 0 /\ (\A p \in object : Linked(p)) /\ \A p \in Package : uriTxt[p] = "empty" => Writing(p)
      BY <3>1 DEF HalfDoneHasCause
    <3>5. ASSUME NEW p \in object PROVE Linked(p)'
      <4>1. CASE p = cur[s]
        BY <3>2, <3>3, <4>1
      <4>2. CASE p # cur[s]
        BY <2>0, <3>2, <3>3, <3>4, <4>2
      <4> QED BY <4>1, <4>2
    <3>6. ASSUME NEW p \in Package, uriTxt[p] = "empty" PROVE Writing(p)'
      BY <2>0, <3>1, <3>4, <3>6
    <3> QED BY <3>1, <3>5, <3>6 DEF HalfDoneHasCause
  <2>9. CASE ProcessSingleFile(s)
    BY <1>1, <2>0, <2>9 DEF ProcessSingleFile, CreateNewComponent, UpdateExistingComponent,
       NoUpdate,
       history, batchDisk
  <2> QED
    BY <1>0, <1>2, <2>1, <2>2, <2>3, <2>4, <2>5, <2>6, <2>7, <2>8, <2>9
       DEF ScriptStep, PostRefused, RequestFails, AnswerLost, Timeout, KillWaiter
<1>3. ASSUME NEW p \in Package, Revert(p) PROVE HalfDoneHasCause'
  <2>1. /\ trouble' = trouble /\ object' = object /\ instances' = instances /\ pc' = pc /\ cur' = cur
        /\ \A q \in Package : uriTxt'[q] = "empty" => uriTxt[q] = "empty"
    BY <1>3 DEF Revert, cursor, aspace, ObjectsTypeOK
  <2> QED BY <2>1 DEF HalfDoneHasCause
<1>4. ASSUME NEW p \in Package, Prepare(p) PROVE HalfDoneHasCause'
  <2>1. trouble' = trouble /\ object' = object /\ pc' = pc /\ cur' = cur
    BY <1>4 DEF Prepare, cursor
  <2>2. \A q \in Package : uriTxt'[q] = "empty" => uriTxt[q] = "empty"
    BY <1>4 DEF Prepare, ObjectsTypeOK
  <2>3. \A q \in Package : instances[q] # 0 => instances'[q] # 0
    <3>1. instances' = instances \/ instances' = [instances EXCEPT ![p] = @ + 1]
      BY <1>4 DEF Prepare
    <3> QED BY <3>1 DEF ObjectsTypeOK
  <2>4. \A q \in object : q \in Package
    BY DEF ObjectsTypeOK
  <2> QED BY <2>1, <2>2, <2>3, <2>4 DEF HalfDoneHasCause
<1>5. CASE UNCHANGED objectVars
  BY <1>5 DEF objectVars, HalfDoneHasCause
<1> QED
  BY <1>2, <1>3, <1>4, <1>5 DEF ObjectsNext

(* What is half done is being worked on, or a request failed. *)
THEOREM HalfDoneExplained == ASSUME ObjectsAssumption PROVE ObjectsSpec => []HalfDoneHasCause
<1>1. ObjectsInit => HalfDoneHasCause
  BY DEF ObjectsInit, HalfDoneHasCause
<1>2. ObjectsTypeOK /\ Located /\ HalfDoneHasCause /\ [ObjectsNext]_objectVars => HalfDoneHasCause'
  BY HalfDoneStep, ObjectsAssumption
<1> QED
  BY <1>1, <1>2, ObjectsTypeCorrect, ObjectsAssumption, PTL DEF ObjectsSpec

-----------------------------------------------------------------------------
AtItem == {"item", "create", "link", "tree", "file"}

(* A script that has gone on from uri.txt has left the item's URI in it,   *)
(* and every package behind it has one or has failed, unless runs overlap  *)
(* or a revert came in between.                                            *)
UriAt(s) ==
    /\ pc[s] = "search" => uriTxt[cur[s]] # "item"
    /\ s \notin reverted =>
         /\ pc[s] = "write" => uriTxt[cur[s]] = "empty"
         /\ pc[s] \in AtItem => uriTxt[cur[s]] = "item"
         /\ \A k \in 1..done[s] :
               \/ Batch[k] \in failures[s] \/ uriTxt[Batch[k]] = "item"
               \/ k = done[s] /\ pc[s] \in FallibleLabel
         /\ pc[s] = "success" => \A p \in Package : uriTxt[p] = "item"
UriKept == ~crossed => \A s \in Script : UriAt(s)

(* The step of a script that is at work alone. *)
LEMMA UriOwnStep ==
    ASSUME ObjectsAssumption, ObjectsTypeOK, Located, NEW s \in Script, UriAt(s),
           ScriptStep(s) \/ Timeout(s) \/ KillWaiter(s)
    PROVE  UriAt(s)'
<1>0. /\ pc[s] \in FallibleLabel => done[s] \in 1..Len(Batch) /\ cur[s] = Batch[done[s]]
      /\ Batch \in Seq(Package) /\ done[s] \in 0..Len(Batch)
      /\ \A k \in 1..Len(Batch) : Batch[k] \in Package
  BY DEF Located, ObjectsAssumption, ObjectsTypeOK
<1> USE DEF FallibleLabel, AtItem
<1>1. ASSUME done'[s] = 0, pc'[s] \in {"idle", "failed", "timeout"} PROVE UriAt(s)'
  BY <1>1 DEF UriAt
<1>2. CASE Finish(s)
  <2>1. /\ done'[s] = 0 /\ uriTxt' = uriTxt /\ reverted' = reverted
        /\ pc'[s] \in {"idle", "failed"} \/ (pc'[s] = "success" /\ failures[s] = {})
        /\ pc[s] = "next" /\ done[s] = Len(Batch)
    BY <1>2 DEF Finish, Step, Vanishes, history, batchDisk, ObjectsTypeOK
  <2>2. \A p \in Package : \E k \in 1..Len(Batch) : p = Batch[k]
    BY <1>0 DEF Package
  <2>3. CASE pc'[s] = "success"
    <3>1. s \notin reverted => \A k \in 1..Len(Batch) : uriTxt[Batch[k]] = "item"
      BY <2>1, <2>3 DEF UriAt
    <3> QED BY <2>1, <2>2, <2>3, <3>1 DEF UriAt
  <2> QED BY <1>1, <2>1, <2>3
<1>3. CASE Answer(s)
  BY <1>1, <1>3 DEF Answer, Step, ObjectsTypeOK, Located
<1>4. CASE Timeout(s)
  BY <1>1, <1>4 DEF Timeout, Step, Vanishes, ObjectsTypeOK
<1>5. CASE KillWaiter(s)
  <2>1. CASE UNCHANGED <<pc, done, cursor, mapping, failures>>
    BY <1>5, <2>1 DEF KillWaiter, cursor, batchDisk, UriAt
  <2>2. CASE Step(s, "idle") /\ Vanishes(s)
    BY <1>1, <2>2 DEF Step, Vanishes, ObjectsTypeOK
  <2> QED BY <1>5, <2>1, <2>2 DEF KillWaiter
<1>6. ASSUME Fail(s), uriTxt' = uriTxt, pc[s] \in FallibleLabel PROVE UriAt(s)'
  <2>1. /\ failures'[s] = failures[s] \cup {cur[s]} /\ pc'[s] = "next"
        /\ done'[s] = done[s] /\ reverted' = reverted
    BY <1>6 DEF Fail, Step, ObjectsTypeOK
  <2> QED BY <1>0, <1>6, <2>1 DEF UriAt
<1>7. CASE NoSingleItem(s) \/ TooManyObjects(s) \/ IdentifierTaken(s) \/ RequestFails(s) \/ AnswerLost(s)
  BY <1>6, <1>7 DEF NoSingleItem, TooManyObjects, IdentifierTaken, RequestFails, AnswerLost,
     LinkItem,
     CreateNewComponent, UpdateExistingComponent, batchDisk
<1>8. CASE CheckUriTxt(s)
  <2> DEFINE n == done[s] + 1
  <2>1. /\ pc[s] = "next" /\ cur'[s] = Batch[n] /\ done'[s] = n /\ failures' = failures
        /\ pc'[s] = (IF uriTxt[Batch[n]] = "item" THEN "item" ELSE "search")
        /\ uriTxt' = uriTxt /\ reverted' = reverted
    BY <1>8 DEF CheckUriTxt, Step, request, history, batchDisk, ObjectsTypeOK
  <2> QED BY <1>0, <2>1 DEF UriAt
<1>9. CASE UriFails(s)
  <2> DEFINE n == done[s] + 1
  <2>1. /\ pc[s] = "next" /\ pc' = pc /\ done'[s] = n /\ failures'[s] = failures[s] \cup {Batch[n]}
        /\ uriTxt' = uriTxt /\ reverted' = reverted
    BY <1>9 DEF UriFails, batchDisk, ObjectsTypeOK
  <2> QED BY <1>0, <2>1 DEF UriAt
<1>10. CASE SearchItem(s)
  <2>1. /\ pc[s] = "search" /\ pc'[s] = "write" /\ cur' = cur /\ done' = done /\ failures' = failures
        /\ uriTxt' = [uriTxt EXCEPT ![cur[s]] = "empty"] /\ reverted' = reverted
        /\ uriTxt[cur[s]] # "item"
    BY <1>10 DEF SearchItem, Step, cursor, request, history, ObjectsTypeOK, UriAt
  <2>2. \A p \in Package : uriTxt[p] = "item" => uriTxt'[p] = "item"
    BY <2>1 DEF ObjectsTypeOK
  <2> QED BY <1>0, <2>1, <2>2 DEF UriAt, ObjectsTypeOK
<1>11. CASE WriteUriTxt(s)
  <2>1. /\ pc[s] = "write" /\ pc'[s] = "item" /\ cur' = cur /\ done' = done /\ failures' = failures
        /\ uriTxt' = [uriTxt EXCEPT ![cur[s]] = IF @ = "none" THEN "none" ELSE "item"]
        /\ reverted' = reverted
    BY <1>11 DEF WriteUriTxt, Step, cursor, request, history, ObjectsTypeOK
  <2>2. \A p \in Package : uriTxt[p] = "item" => uriTxt'[p] = "item"
    BY <2>1 DEF ObjectsTypeOK
  <2>3. uriTxt[cur[s]] = "empty" => uriTxt'[cur[s]] = "item"
    BY <1>0, <2>1 DEF ObjectsTypeOK
  <2> QED BY <1>0, <2>1, <2>2, <2>3 DEF UriAt
<1>12. ASSUME pc[s] \in AtItem, pc'[s] \in AtItem, cur'[s] = cur[s], done' = done,
   failures' = failures,
              uriTxt' = uriTxt, reverted' = reverted
       PROVE  UriAt(s)'
  BY <1>0, <1>12 DEF UriAt
<1>13. ASSUME pc[s] \in AtItem, pc'[s] = "next", done' = done, failures' = failures,
              uriTxt' = uriTxt, reverted' = reverted
       PROVE  UriAt(s)'
  BY <1>0, <1>13 DEF UriAt
<1>14. CASE CheckDigitalObject(s) \/ WriteDigitalObject(s) \/ FetchTree(s)
  BY <1>12, <1>14 DEF CheckDigitalObject, WriteDigitalObject, FetchTree, Step, cursor, request,
     history,
     batchDisk, ObjectsTypeOK
<1>15. CASE NoFiles(s)
  BY <1>13, <1>15 DEF NoFiles, Step, request, history, batchDisk, ObjectsTypeOK
<1>16. CASE PostLink(s) \/ ProcessSingleFile(s) \/ PostRefused(s)
  <2>1. done' = done /\ failures' = failures /\ uriTxt' = uriTxt /\ reverted' = reverted
    BY <1>16 DEF PostLink, ProcessSingleFile, PostRefused, request, history, batchDisk
  <2>2. CASE FilesFollow(s)
    BY <1>12, <2>1, <2>2 DEF FilesFollow, Step, cursor, ObjectsTypeOK
  <2>3. ASSUME NEW f \in left[s], NextFile(s, f) PROVE UriAt(s)'
    <3>1. pc[s] = "file"
      BY DEF Located
    <3> QED BY <1>12, <1>13, <2>1, <2>3, <3>1 DEF NextFile, Step, ObjectsTypeOK
  <2> QED BY <1>16, <2>2, <2>3 DEF PostLink, ProcessSingleFile, PostRefused
<1> QED
  BY <1>2, <1>3, <1>4, <1>5, <1>7, <1>8, <1>9, <1>10, <1>11, <1>14, <1>15, <1>16 DEF ScriptStep

(* A script that has not begun knows nothing of uri.txt.                   *)
LEMMA UriStep ==
    ASSUME ObjectsAssumption, ObjectsTypeOK, Located, Alone, UriKept, [ObjectsNext]_objectVars
    PROVE  UriKept'
<1> SUFFICES ASSUME ~crossed', NEW q \in Script PROVE UriAt(q)'
  BY DEF UriKept
<1>0. ~crossed /\ UriAt(q)
  BY AloneStep DEF UriKept
<1>1. Located'
  BY LocatedStep
<1>2. CASE pc'[q] = "idle"
  BY <1>1, <1>2 DEF UriAt, Located, FallibleLabel, AtItem
<1>3. ASSUME NEW s \in Script, ScriptStep(s) \/ Timeout(s) \/ KillWaiter(s) PROVE UriAt(q)'
  <2>1. CASE q = s
    BY <1>0, <1>3, <2>1, UriOwnStep
  <2>2. CASE q # s
    <3>1. pc[s] # "idle"
      BY <1>3, AtWork
    <3>2. pc[q] = "idle" /\ pc'[q] = pc[q]
      BY <1>0, <1>3, <2>2, <3>1, OthersUnmoved DEF Alone, Alive, Unmoved
    <3> QED BY <1>2, <3>2
  <2> QED BY <2>1, <2>2
<1>4. ASSUME NEW s \in Script, MakeDigitalObjects(s) PROVE UriAt(q)'
  <2>1. CASE q = s
    BY <1>4, <2>1 DEF MakeDigitalObjects, Step, UriAt, Located, ObjectsTypeOK, FallibleLabel, AtItem
  <2>2. CASE q # s
    <3>1. pc'[q] = "idle"
      BY <1>4, <2>2 DEF MakeDigitalObjects, Step, Alive, ObjectsTypeOK
    <3> QED BY <1>2, <3>1
  <2> QED BY <2>1, <2>2
<1>5. ASSUME NEW p \in Package, Revert(p) PROVE UriAt(q)'
  <2>1. pc' = pc /\ done' = done /\ cur' = cur /\ failures' = failures
    BY <1>5 DEF Revert, cursor, request
  <2>2. CASE uriTxt' = uriTxt /\ reverted' = reverted
    BY <1>0, <2>1, <2>2 DEF UriAt
  <2>3. CASE uriTxt' = [uriTxt EXCEPT ![p] = "none"] /\ reverted' = reverted \cup Alive
    <3>1. pc[q] = "search" => cur[q] \in Package
      BY DEF Located, FallibleLabel, Package
    <3>2. pc[q] # "idle" => q \in reverted'
      BY <2>3 DEF Alive
    <3> QED BY <1>0, <1>2, <2>1, <2>3, <3>1, <3>2 DEF UriAt, ObjectsTypeOK
  <2> QED BY <1>5, <2>2, <2>3 DEF Revert
<1>6. ASSUME NEW p \in Package, Prepare(p) PROVE UriAt(q)'
  BY <1>2, <1>6 DEF Prepare, Alive
<1>7. CASE UNCHANGED objectVars
  BY <1>0, <1>7 DEF objectVars, UriAt
<1> QED
  BY <1>3, <1>4, <1>5, <1>6, <1>7 DEF ObjectsNext

(* A script that had no post refused has attached the object of every      *)
(* package behind it, and made a component for every file, or recorded the *)
(* package as failed.                                                      *)
DoneAt(s) ==
    s \notin refused =>
      /\ pc[s] \in {"tree", "file"} => Attached(cur[s])
      /\ pc[s] = "file" =>
            \A f \in files[cur[s]] \ left[s] : \E i \in DOMAIN rows[cur[s]] : rows[cur[s]][i].title = f
      /\ \A k \in 1..done[s] :
            \/ Batch[k] \in failures[s] \/ (Attached(Batch[k]) /\ Described(Batch[k]))
            \/ k = done[s] /\ pc[s] \in FallibleLabel
      /\ pc[s] = "success" => \A p \in Package : Attached(p) /\ Described(p)
WorkDone == \A s \in Script : DoneAt(s)

(* What is attached and described stays so while a script is at work.      *)
LEMMA WorkStays ==
    ASSUME ObjectsAssumption, ObjectsTypeOK, Located, [ObjectsNext]_objectVars,
           Alive # {}
    PROVE  /\ files' = files
           /\ \A p \in Package : Attached(p) => Attached(p)'
           /\ \A p \in Package, f \in Title : (\E i \in DOMAIN rows[p] : rows[p][i].title = f)
                                              => \E i \in DOMAIN rows'[p] : rows'[p][i].title = f
           /\ \A p \in Package : Described(p) => Described(p)'
<1>1. files' = files
  <2>1. ASSUME NEW s \in Script, ScriptStep(s) PROVE files' = files
    BY <2>1 DEF ScriptStep, Finish, Answer, CheckUriTxt, UriFails, SearchItem, NoSingleItem,
       WriteUriTxt,
       CheckDigitalObject, TooManyObjects, WriteDigitalObject, IdentifierTaken, PostLink, FetchTree,
       NoFiles, ProcessSingleFile, PostRefused, RequestFails, AnswerLost, batchDisk
  <2> QED
    BY <2>1 DEF ObjectsNext, MakeDigitalObjects, Timeout, KillWaiter, Revert, Prepare, objectVars,
       batchDisk
<1>2. \/ instances' = instances
      \/ \E s \in Script : cur[s] \in Package /\ instances' = [instances EXCEPT ![cur[s]] = 1]
  <2>1. ASSUME NEW s \in Script, LinkItem(s)
        PROVE  cur[s] \in Package /\ instances' = [instances EXCEPT ![cur[s]] = 1]
    BY <2>1 DEF LinkItem, Located, FallibleLabel, Package
  <2>2. ASSUME NEW s \in Script, ScriptStep(s) PROVE instances' = instances \/ LinkItem(s)
    <3>1. CASE AnswerLost(s)
      BY <3>1 DEF AnswerLost, CreateNewComponent, UpdateExistingComponent
    <3>2. CASE ProcessSingleFile(s)
      BY <3>2 DEF ProcessSingleFile, CreateNewComponent, UpdateExistingComponent
    <3> QED
      BY <2>2, <3>1, <3>2 DEF ScriptStep, Finish, Answer, CheckUriTxt, UriFails, SearchItem,
         NoSingleItem,
         WriteUriTxt, CheckDigitalObject, TooManyObjects, WriteDigitalObject, IdentifierTaken, PostLink,
         FetchTree, NoFiles, PostRefused, RequestFails, aspace
  <2> QED
    BY <2>1, <2>2 DEF ObjectsNext, MakeDigitalObjects, Timeout, KillWaiter, Revert, Prepare,
       objectVars,
       aspace
<1>3. \A p \in Package : Attached(p) => Attached(p)'
  BY <1>2 DEF Attached, ObjectsTypeOK
<1>4. RowsGrow
  BY RowsOnlyGrow
<1>5. \A p \in Package, f \in Title : (\E i \in DOMAIN rows[p] : rows[p][i].title = f)
                                      => \E i \in DOMAIN rows'[p] : rows'[p][i].title = f
  BY <1>4 DEF RowsGrow
<1>6. \A p \in Package : Described(p) => Described(p)'
  <2> SUFFICES ASSUME NEW p \in Package, Described(p), NEW f \in files[p]
               PROVE  \E i \in DOMAIN rows'[p] : rows'[p][i].title = f
    BY <1>1 DEF Described
  <2>1. f \in Title
    BY DEF ObjectsTypeOK
  <2> QED BY <1>5, <2>1 DEF Described
<1> QED BY <1>1, <1>3, <1>5, <1>6

(* A file that the script leaves behind has a component. *)
LEMMA FileDescribed ==
    ASSUME ObjectsTypeOK, Located, NEW s \in Script, NEW f \in left[s], pc[s] = "file",
           \/ CreateNewComponent(s, f) \/ UpdateExistingComponent(s, f)
           \/ NoUpdate(s, f) /\ UNCHANGED <<instances, rows>>,
           RowsGrow
    PROVE  \E i \in DOMAIN rows'[cur[s]] : rows'[cur[s]][i].title = f
<1>1. cur[s] \in Package /\ rows[cur[s]] \in Seq(Row) /\ DOMAIN rows = Package
  BY DEF Located, FallibleLabel, Package, ObjectsTypeOK
<1>2. CASE Same(s, f) # {}
  <2>1. PICK i \in DOMAIN page[s] : page[s][i] = f
    BY <1>2 DEF Same
  <2>2. i \in DOMAIN rows[cur[s]] /\ rows[cur[s]][i].title = f
    BY <2>1 DEF Located
  <2> QED BY <1>1, <2>2 DEF RowsGrow
<1>3. CASE Same(s, f) = {}
  <2>1. CreateNewComponent(s, f)
    BY <1>3 DEF UpdateExistingComponent, NoUpdate
  <2>2. PICK k \in KalturaId(mapping[s], cur[s], f) :
             rows' = [rows EXCEPT ![cur[s]] = Append(@, [title |-> f, id |-> k])]
    BY <2>1 DEF CreateNewComponent
  <2>3. rows'[cur[s]] = Append(rows[cur[s]], [title |-> f, id |-> k])
    BY <1>1, <2>2
  <2>4. Len(rows[cur[s]]) + 1 \in DOMAIN rows'[cur[s]]
        /\ rows'[cur[s]][Len(rows[cur[s]]) + 1].title = f
    BY <1>1, <2>3
  <2> QED BY <2>4
<1> QED BY <1>2, <1>3

(* The step of a script at work. *)
LEMMA DoneOwnStep ==
    ASSUME ObjectsAssumption, ObjectsTypeOK, Located, [ObjectsNext]_objectVars,
           NEW s \in Script, DoneAt(s), ScriptStep(s) \/ Timeout(s) \/ KillWaiter(s)
    PROVE  DoneAt(s)'
<1> SUFFICES ASSUME s \notin refused' PROVE DoneAt(s)'
  BY DEF DoneAt
<1> DEFINE Whole(p) == Attached(p) /\ Described(p)
           WholeThen(p) == /\ instances'[p] = 1
                           /\ \A f \in files'[p] : \E i \in DOMAIN rows'[p] : rows'[p][i].title = f
<1>0. /\ pc[s] \in FallibleLabel => /\ done[s] \in 1..Len(Batch) /\ cur[s] = Batch[done[s]]
                                    /\ cur[s] \in Package
      /\ Batch \in Seq(Package) /\ done[s] \in 0..Len(Batch)
      /\ \A k \in 1..Len(Batch) : Batch[k] \in Package
  BY DEF Located, ObjectsAssumption, ObjectsTypeOK, Package
<1>s. /\ files' = files
      /\ \A p \in Package : Attached(p) => Attached(p)'
      /\ \A p \in Package, f \in Title : (\E i \in DOMAIN rows[p] : rows[p][i].title = f)
                                         => \E i \in DOMAIN rows'[p] : rows'[p][i].title = f
      /\ \A p \in Package : Whole(p) => WholeThen(p)
  BY AtWork, WorkStays DEF Alive, Attached, Described
<1>w. DoneAt(s)' <=> /\ pc'[s] \in {"tree", "file"} => instances'[cur'[s]] = 1
                     /\ pc'[s] = "file" => \A f \in files'[cur'[s]] \ left'[s] :
                                   \E i \in DOMAIN rows'[cur'[s]] : rows'[cur'[s]][i].title = f
                     /\ \A k \in 1..done'[s] :
                           \/ Batch[k] \in failures'[s] \/ WholeThen(Batch[k])
                           \/ k = done'[s] /\ pc'[s] \in FallibleLabel
                     /\ pc'[s] = "success" => \A p \in Package : WholeThen(p)
  BY DEF DoneAt, Attached, Described
<1> USE DEF FallibleLabel
<1>1. ASSUME done'[s] = 0, pc'[s] \in {"idle", "failed", "timeout"} PROVE DoneAt(s)'
  BY <1>1 DEF DoneAt
<1>2. CASE Answer(s) \/ Timeout(s)
  BY <1>1, <1>2 DEF Answer, Timeout, Step, Vanishes, ObjectsTypeOK, Located
<1>3. ASSUME s \notin refused, done'[s] = done[s], failures[s] \subseteq failures'[s],
             pc[s] \in FallibleLabel =>
                pc'[s] \in FallibleLabel \/ cur[s] \in failures'[s] \/ WholeThen(cur[s])
      PROVE  \A k \in 1..done'[s] :
                \/ Batch[k] \in failures'[s] \/ WholeThen(Batch[k])
                \/ k = done'[s] /\ pc'[s] \in FallibleLabel
  <2> SUFFICES ASSUME NEW k \in 1..done[s]
               PROVE  \/ Batch[k] \in failures'[s] \/ WholeThen(Batch[k])
                      \/ k = done[s] /\ pc'[s] \in FallibleLabel
    BY <1>3
  <2>1. Batch[k] \in Package
    BY <1>0
  <2>2. \/ Batch[k] \in failures[s] \/ Whole(Batch[k])
        \/ k = done[s] /\ pc[s] \in FallibleLabel
    BY <1>3 DEF DoneAt
  <2> HIDE DEF Whole, WholeThen
  <2> QED BY <1>0, <1>3, <1>s, <2>1, <2>2
<1>4. CASE Finish(s)
  <2>1. /\ done'[s] = 0 /\ refused' = refused
        /\ pc'[s] \in {"idle", "failed"} \/ (pc'[s] = "success" /\ failures[s] = {})
        /\ pc[s] = "next" /\ done[s] = Len(Batch)
    BY <1>4 DEF Finish, Step, Vanishes, history, ObjectsTypeOK
  <2>2. \A p \in Package : \E k \in 1..Len(Batch) : p = Batch[k]
    BY <1>0 DEF Package
  <2>3. CASE pc'[s] = "success"
    <3>1. \A k \in 1..Len(Batch) : Attached(Batch[k]) /\ Described(Batch[k])
      BY <2>1, <2>3 DEF DoneAt
    <3>2. \A p \in Package : WholeThen(p)
      BY <1>s, <2>2, <3>1
    <3> QED BY <1>w, <2>1, <2>3, <3>2
  <2> QED BY <1>1, <2>1, <2>3
<1>5. CASE KillWaiter(s)
  <2>1. CASE UNCHANGED <<pc, done, cursor, mapping, failures>>
    <3>1. refused' = refused /\ rows' = rows /\ instances' = instances
      BY <1>5 DEF KillWaiter, aspace
    <3> QED
      BY <1>s, <2>1, <3>1 DEF cursor, DoneAt, Attached, Described
  <2>2. CASE Step(s, "idle") /\ Vanishes(s)
    BY <1>1, <2>2 DEF Step, Vanishes, ObjectsTypeOK
  <2> QED BY <1>5, <2>1, <2>2 DEF KillWaiter
<1>6. ASSUME Fail(s), pc[s] \in FallibleLabel PROVE DoneAt(s)'
  <2>1. /\ failures'[s] = failures[s] \cup {cur[s]} /\ pc'[s] = "next"
        /\ done' = done /\ refused' = refused
    BY <1>6 DEF Fail, Step, ObjectsTypeOK
  <2> HIDE DEF WholeThen
  <2> QED BY <1>3, <1>w, <2>1
<1>7. CASE NoSingleItem(s) \/ TooManyObjects(s) \/ IdentifierTaken(s) \/ RequestFails(s) \/ AnswerLost(s)
  BY <1>6, <1>7 DEF NoSingleItem, TooManyObjects, IdentifierTaken, RequestFails, AnswerLost,
     LinkItem,
     CreateNewComponent, UpdateExistingComponent
<1>8. CASE CheckUriTxt(s) \/ UriFails(s)
  <2>1. /\ pc[s] = "next" /\ done'[s] = done[s] + 1 /\ refused' = refused /\ failures[s] \subseteq failures'[s]
        /\ \/ pc'[s] \in {"item", "search"}
           \/ pc'[s] = "next" /\ Batch[done[s] + 1] \in failures'[s]
    BY <1>8 DEF CheckUriTxt, UriFails, Step, request, history, ObjectsTypeOK
  <2>2. \A k \in 1..done[s] : Batch[k] \in failures'[s] \/ WholeThen(Batch[k])
    <3>1. \A k \in 1..done[s] : Batch[k] \in failures[s] \/ (Attached(Batch[k]) /\ Described(Batch[k]))
      BY <2>1 DEF DoneAt
    <3>2. \A k \in 1..done[s] : Batch[k] \in Package
      BY <1>0
    <3> QED BY <1>s, <2>1, <3>1, <3>2
  <2> QED BY <1>0, <1>w, <2>1, <2>2
<1>9. CASE SearchItem(s) \/ WriteUriTxt(s) \/ WriteDigitalObject(s)
  <2>1. /\ pc'[s] \in {"write", "item", "link"} /\ done' = done /\ failures' = failures /\ refused' = refused
    BY <1>9 DEF SearchItem, WriteUriTxt, WriteDigitalObject, Step, request, history, ObjectsTypeOK
  <2> QED BY <1>3, <1>w, <2>1
<1>10. CASE CheckDigitalObject(s) \/ PostLink(s)
  <2>1. /\ pc[s] \in FallibleLabel /\ pc'[s] \in {"tree", "create"} /\ cur'[s] = cur[s]
        /\ done' = done /\ failures' = failures /\ refused' = refused
    BY <1>10 DEF CheckDigitalObject, PostLink, LinkItem, FilesFollow, Step, cursor, request,
       history,
       ObjectsTypeOK
  <2>2. pc'[s] = "tree" => instances'[cur[s]] = 1
    <3>1. CASE CheckDigitalObject(s)
      <4>1. instances' = instances /\ pc'[s] = IF instances[cur[s]] = 1 THEN "tree" ELSE "create"
        BY <3>1 DEF CheckDigitalObject, Step, aspace, ObjectsTypeOK
      <4> QED BY <4>1
    <3>2. CASE PostLink(s)
      BY <1>0, <2>1, <3>2 DEF PostLink, LinkItem, ObjectsTypeOK
    <3> QED BY <1>10, <3>1, <3>2
  <2> HIDE DEF WholeThen
  <2>3. \A k \in 1..done'[s] : \/ Batch[k] \in failures'[s] \/ WholeThen(Batch[k])
                               \/ k = done'[s] /\ pc'[s] \in FallibleLabel
    BY <1>3, <2>1
  <2> QED BY <1>w, <2>1, <2>2, <2>3
<1>11. CASE FetchTree(s)
  <2>1. /\ pc[s] = "tree" /\ pc'[s] = "file" /\ cur'[s] = cur[s] /\ left'[s] = files[cur[s]]
        /\ done' = done /\ failures' = failures /\ refused' = refused /\ instances' = instances
    BY <1>11 DEF FetchTree, Step, request, history, aspace, ObjectsTypeOK
  <2>2. instances'[cur[s]] = 1
    BY <2>1 DEF DoneAt, Attached
  <2> QED BY <1>s, <1>3, <1>w, <2>1, <2>2
<1>12. CASE NoFiles(s)
  <2>1. /\ pc[s] = "tree" /\ pc'[s] = "next" /\ files[cur[s]] = {}
        /\ done' = done /\ failures' = failures /\ refused' = refused /\ instances' = instances
    BY <1>12 DEF NoFiles, Step, request, history, aspace, ObjectsTypeOK
  <2>2. WholeThen(cur[s])
    BY <1>s, <2>1 DEF DoneAt, Attached
  <2> QED BY <1>3, <1>w, <2>1, <2>2
<1>13. CASE PostRefused(s)
  BY <1>13 DEF PostRefused
<1>14. CASE ProcessSingleFile(s)
  <2>1. PICK f \in left[s] : /\ NextFile(s, f)
                             /\ \/ CreateNewComponent(s, f) \/ UpdateExistingComponent(s, f)
                                \/ NoUpdate(s, f) /\ UNCHANGED <<instances, rows>>
    BY <1>14 DEF ProcessSingleFile
  <2>2. /\ done' = done /\ failures' = failures /\ refused' = refused /\ pc[s] = "file"
        /\ instances' = instances
    BY <1>14, <2>1 DEF ProcessSingleFile, request, history, CreateNewComponent,
       UpdateExistingComponent,
       NoUpdate
  <2>3. \E i \in DOMAIN rows'[cur[s]] : rows'[cur[s]][i].title = f
    BY <2>1, <2>2, FileDescribed, RowsOnlyGrow
  <2>4. \A g \in files'[cur[s]] \ (left[s] \ {f}) : \E i \in DOMAIN rows'[cur[s]] : rows'[cur[s]][i].title = g
    <3>1. SUFFICES ASSUME NEW g \in files[cur[s]] \ left[s]
                   PROVE  \E i \in DOMAIN rows'[cur[s]] : rows'[cur[s]][i].title = g
      BY <1>s, <2>3
    <3>2. cur[s] \in Package /\ g \in Title
      BY <1>0, <2>2 DEF ObjectsTypeOK
    <3>3. \E i \in DOMAIN rows[cur[s]] : rows[cur[s]][i].title = g
      BY <2>2 DEF DoneAt
    <3> QED BY <1>s, <3>2, <3>3
  <2>5. instances'[cur[s]] = 1
    BY <2>2 DEF DoneAt, Attached
  <2>6. CASE left[s] = {f}
    <3>1. pc'[s] = "next"
      BY <2>1, <2>6 DEF NextFile, Step, ObjectsTypeOK
    <3>2. WholeThen(cur[s])
      BY <2>4, <2>5, <2>6
    <3> QED BY <1>3, <1>w, <2>2, <3>1, <3>2
  <2>7. CASE left[s] # {f}
    <3>1. pc'[s] = "file" /\ cur'[s] = cur[s] /\ left'[s] = left[s] \ {f}
      BY <2>1, <2>2, <2>7 DEF NextFile, ObjectsTypeOK
    <3> QED BY <1>3, <1>w, <2>2, <2>4, <2>5, <3>1
  <2> QED BY <2>6, <2>7
<1> QED
  BY <1>2, <1>4, <1>5, <1>7, <1>8, <1>9, <1>10, <1>11, <1>12, <1>13, <1>14 DEF ScriptStep

(* A script that has not begun has nothing behind it.                      *)
LEMMA DoneStep ==
    ASSUME ObjectsAssumption, ObjectsTypeOK, Located, WorkDone, [ObjectsNext]_objectVars
    PROVE  WorkDone'
<1> SUFFICES ASSUME NEW q \in Script PROVE DoneAt(q)'
  BY DEF WorkDone
<1>0. DoneAt(q) /\ Located'
  BY LocatedStep DEF WorkDone
<1>1. CASE pc'[q] \in {"idle", "next"} /\ done'[q] = 0
  BY <1>1 DEF DoneAt
<1>2. CASE pc'[q] = "idle"
  BY <1>0, <1>1, <1>2 DEF Located
<1>3. ASSUME pc[q] # "idle", pc'[q] = pc[q], done'[q] = done[q], cur'[q] = cur[q],
   left'[q] = left[q],
             failures'[q] = failures[q], q \in refused' <=> q \in refused
      PROVE  DoneAt(q)'
  <2>1. /\ files' = files
        /\ \A p \in Package : Attached(p) => Attached(p)'
        /\ \A p \in Package, f \in Title : (\E i \in DOMAIN rows[p] : rows[p][i].title = f)
                                           => \E i \in DOMAIN rows'[p] : rows'[p][i].title = f
        /\ \A p \in Package : Described(p) => Described(p)'
    BY <1>3, WorkStays DEF Alive
  <2>2. pc[q] \in FallibleLabel => cur[q] \in Package
    BY DEF Located, Package
  <2>3. \A p \in Package : Attached(p) => instances'[p] = 1
    BY <2>1 DEF Attached
  <2>4. \A p \in Package : Described(p) =>
            \A f \in files'[p] : \E i \in DOMAIN rows'[p] : rows'[p][i].title = f
    BY <2>1 DEF Described
  <2>5. done[q] \in 0..Len(Batch) /\ \A k \in 1..Len(Batch) : Batch[k] \in Package
    BY DEF ObjectsAssumption, ObjectsTypeOK, Package
  <2>6. q \notin refused => (pc[q] \in {"tree", "file"} => instances'[cur[q]] = 1)
    BY <1>0, <2>2, <2>3 DEF DoneAt, FallibleLabel
  <2>7. q \notin refused => (pc[q] = "file" => \A f \in files'[cur[q]] \ left[q] :
            \E i \in DOMAIN rows'[cur[q]] : rows'[cur[q]][i].title = f)
    <3> SUFFICES ASSUME q \notin refused, pc[q] = "file", NEW f \in files[cur[q]] \ left[q]
                 PROVE  \E i \in DOMAIN rows'[cur[q]] : rows'[cur[q]][i].title = f
      BY <2>1
    <3>1. cur[q] \in Package /\ f \in Title
      BY <2>2 DEF FallibleLabel, ObjectsTypeOK
    <3>2. \E i \in DOMAIN rows[cur[q]] : rows[cur[q]][i].title = f
      BY <1>0 DEF DoneAt
    <3> QED BY <2>1, <3>1, <3>2
  <2>8. q \notin refused => \A k \in 1..done[q] :
            \/ Batch[k] \in failures[q]
            \/ instances'[Batch[k]] = 1 /\ \A f \in files'[Batch[k]] :
                  \E i \in DOMAIN rows'[Batch[k]] : rows'[Batch[k]][i].title = f
            \/ k = done[q] /\ pc[q] \in FallibleLabel
    BY <1>0, <2>3, <2>4, <2>5 DEF DoneAt
  <2>9. q \notin refused => (pc[q] = "success" => \A p \in Package : instances'[p] = 1
            /\ \A f \in files'[p] : \E i \in DOMAIN rows'[p] : rows'[p][i].title = f)
    BY <1>0, <2>3, <2>4 DEF DoneAt
  <2> QED BY <1>3, <2>6, <2>7, <2>8, <2>9 DEF DoneAt, Attached, Described
<1>4. ASSUME NEW s \in Script, ScriptStep(s) \/ MakeDigitalObjects(s) \/ Timeout(s) \/ KillWaiter(s)
      PROVE  DoneAt(q)'
  <2>1. CASE q # s
    <3>1. Unmoved(q)
      BY <1>4, <2>1, OthersUnmoved
    <3> QED BY <1>2, <1>3, <3>1 DEF Unmoved
  <2>2. CASE q = s /\ ~MakeDigitalObjects(s)
    BY <1>0, <1>4, <2>2, DoneOwnStep
  <2>3. CASE q = s /\ MakeDigitalObjects(s)
    BY <1>1, <2>3 DEF MakeDigitalObjects, Step, Located, ObjectsTypeOK
  <2> QED BY <2>1, <2>2, <2>3
<1>5. ASSUME NEW p \in Package, Revert(p) PROVE DoneAt(q)'
  BY <1>2, <1>3, <1>5 DEF Revert, cursor, request
<1>6. ASSUME NEW p \in Package, Prepare(p) PROVE DoneAt(q)'
  BY <1>2, <1>6 DEF Prepare, Alive
<1>7. CASE UNCHANGED objectVars
  BY <1>2, <1>3, <1>7 DEF objectVars
<1> QED
  BY <1>4, <1>5, <1>6, <1>7 DEF ObjectsNext

(* A run that is answered with success has done everything. *)
THEOREM SuccessIsDone == ASSUME ObjectsAssumption PROVE ObjectsSpec => []SuccessMeansDone
<1>1. ObjectsInit => Alone /\ UriKept /\ WorkDone
  BY DEF ObjectsInit, Alone, Alive, UriKept, UriAt, WorkDone, DoneAt, FallibleLabel, AtItem
<1>2. /\ ObjectsTypeOK /\ Located /\ Alone /\ UriKept /\ WorkDone /\ [ObjectsNext]_objectVars
      => Alone' /\ UriKept' /\ WorkDone'
  BY AloneStep, UriStep, DoneStep, ObjectsAssumption
<1>3. UriKept /\ WorkDone => SuccessMeansDone
  BY DEF UriKept, UriAt, WorkDone, DoneAt, SuccessMeansDone
<1> QED
  BY <1>1, <1>2, <1>3, ObjectsTypeCorrect, ObjectsAssumption, PTL DEF ObjectsSpec
=============================================================================
