----------------------------- MODULE ReadyProofs -----------------------------
(***************************************************************************)
(* Proofs about the work on a batch before it is packaged: the file        *)
(* 'collection' for any number of clients, the views of a batch of any     *)
(* size, the renames of any number of requests and threads, and all of     *)
(* them and Make Digital Objects (ObjectsProofs) side by side.             *)
(***************************************************************************)
EXTENDS ReadyStage, ObjectsProofs, TLAPS

-----------------------------------------------------------------------------
(* CollectionFile.  A client that nobody has met has the file to itself.   *)
OwnFolder ==
    \A c \in Client \ overtaken :
       /\ client[c] \in {"opened", "set"} => \A q \in Client \ {c} : client[q] # "opened"
       /\ client[c] = "opened" => collection = Empty
       /\ client[c] = "set" => collection = c
       /\ client[c] \notin {"foreign", "refused"}

(* No step of a client meets it who is not met by it. *)
LEMMA OwnFolderStep ==
    ASSUME CollectionAssumption, FolderTypeOK, OwnFolder, [FolderNext]_folderVars
    PROVE  FolderTypeOK' /\ OwnFolder'
<1> USE CollectionAssumption DEF CollectionAssumption, FolderTypeOK, OwnFolder, Comes
<1>1. ASSUME NEW c \in Client, OpenCollection(c) PROVE FolderTypeOK' /\ OwnFolder'
  BY <1>1 DEF OpenCollection
<1>2. ASSUME NEW c \in Client, WriteCollection(c) PROVE FolderTypeOK' /\ OwnFolder'
  BY <1>2 DEF WriteCollection
<1>3. ASSUME NEW c \in Client, ReadCollection(c) PROVE FolderTypeOK' /\ OwnFolder'
  BY <1>3 DEF ReadCollection
<1>4. ASSUME NEW c \in Client, StartAgain(c) PROVE FolderTypeOK' /\ OwnFolder'
  BY <1>4 DEF StartAgain
<1>5. CASE UNCHANGED folderVars
  BY <1>5 DEF folderVars
<1> QED
  BY <1>1, <1>2, <1>3, <1>4, <1>5 DEF FolderNext

(* Both hold throughout. *)
LEMMA FolderInvariant ==
    ASSUME CollectionAssumption PROVE FolderSpec => [](FolderTypeOK /\ OwnFolder)
<1>1. FolderInit => FolderTypeOK /\ OwnFolder
  BY DEF FolderInit, FolderTypeOK, OwnFolder
<1>2. FolderTypeOK /\ OwnFolder /\ [FolderNext]_folderVars => FolderTypeOK' /\ OwnFolder'
  BY CollectionAssumption, OwnFolderStep
<1> QED
  BY <1>1, <1>2, PTL DEF FolderSpec

(* The file and its clients keep their types, for any clients              *)
(* (lib/archivematica_ops.py:545-576).                                     *)
THEOREM FolderTypeCorrect == ASSUME CollectionAssumption PROVE FolderSpec => []FolderTypeOK
BY FolderInvariant, CollectionAssumption, PTL

(* Only clients that cross are given another's folder, or none. *)
THEOREM SentinelKept == ASSUME CollectionAssumption PROVE FolderSpec => []SentinelIsOwn
<1>1. OwnFolder => SentinelIsOwn
  BY DEF OwnFolder, SentinelIsOwn
<1> QED
  BY <1>1, FolderInvariant, CollectionAssumption, PTL

-----------------------------------------------------------------------------
(* BatchScan.  After a revert that is answered with 200 no package has a   *)
(* uri.txt.                                                                *)
RevertedAll ==
    answered = "200" => tree.readable /\ \A i \in Visible(tree) : tree.dirs[i].uri = "none"

(* Types and RevertedAll through a package that is processed and a revert. *)
LEMMA ScanStep ==
    ASSUME ScanTypeOK, [ScanNext]_scanVars PROVE ScanTypeOK' /\ (RevertedAll => RevertedAll')
<1> DEFINE B == tree.dirs
<1>0. tree \in Tree /\ B \in Seq(Directory) /\ DOMAIN B = 1..Len(B) /\ Len(B) \in Nat
  BY DEF ScanTypeOK, Tree
<1>1. CASE PackageProcessed
  <2>1. PICK i \in DOMAIN B : tree' = [tree EXCEPT !.dirs[i].uri = "file"]
    BY <1>1 DEF PackageProcessed, MissingUri, Visible
  <2>2. [B EXCEPT ![i].uri = "file"] \in Seq(Directory)
    <3>1. B[i] \in Directory
      BY <1>0
    <3>2. [B[i] EXCEPT !.uri = "file"] \in Directory
      BY <3>1 DEF Directory
    <3>3. [B EXCEPT ![i] = [B[i] EXCEPT !.uri = "file"]] \in Seq(Directory)
      BY <1>0, <3>2
    <3> QED BY <3>3
  <2>3. tree' = [tree EXCEPT !.dirs = [B EXCEPT ![i].uri = "file"]]
    BY <1>0, <2>1 DEF Tree
  <2>4. tree' \in Tree
    BY <1>0, <2>2, <2>3 DEF Tree
  <2> QED
    BY <1>1, <2>4 DEF PackageProcessed, ScanTypeOK, RevertedAll
<1>2. CASE RevertBatch
  <2> DEFINE kept == [i \in DOMAIN B |-> IF i \in Visible(tree) \ Failed(tree)
                                         THEN [B[i] EXCEPT !.uri = "none"] ELSE B[i]]
  <2>1. tree' = IF ~tree.readable THEN tree ELSE [tree EXCEPT !.dirs = kept]
    BY <1>2 DEF RevertBatch
  <2>2. kept \in Seq(Directory) /\ DOMAIN kept = DOMAIN B
    <3>1. \A i \in 1..Len(B) : B[i] \in Directory
      BY <1>0
    <3>2. \A d \in Directory : [d EXCEPT !.uri = "none"] \in Directory
      BY DEF Directory
    <3>3. \A i \in 1..Len(B) : kept[i] \in Directory
      BY <1>0, <3>1, <3>2
    <3>4. kept \in [1..Len(B) -> Directory]
      BY <1>0, <3>3
    <3> QED BY <1>0, <3>4
  <2>3. tree' \in Tree
    BY <1>0, <2>1, <2>2 DEF Tree
  <2>4. answered' \in {"200", "207", "500"}
    BY <1>2 DEF RevertBatch
  <2>5. RevertedAll'
    <3> SUFFICES ASSUME answered' = "200"
                 PROVE  tree'.readable /\ \A i \in Visible(tree') : tree'.dirs[i].uri = "none"
      BY DEF RevertedAll, Visible
    <3>1. tree.readable /\ Failed(tree) = {}
      BY <1>2 DEF RevertBatch
    <3>2. tree' = [tree EXCEPT !.dirs = kept] /\ tree'.dirs = kept /\ tree'.readable
      BY <1>0, <2>1, <3>1 DEF Tree
    <3>3. ASSUME NEW i \in Visible(tree') PROVE kept[i].uri = "none"
      <4>1. i \in DOMAIN B /\ kept[i].name # "dot"
        BY <2>2, <3>2, <3>3 DEF Visible
      <4>2. B[i] \in Directory
        BY <1>0, <4>1
      <4>3. kept[i].name = B[i].name
        BY <4>1, <4>2 DEF Directory
      <4>4. i \in Visible(tree)
        BY <4>1, <4>3 DEF Visible
      <4> QED
        BY <3>1, <4>1, <4>2, <4>4 DEF Directory
    <3> QED BY <3>2, <3>3
  <2> QED
    BY <2>3, <2>4, <2>5 DEF ScanTypeOK
<1>3. CASE UNCHANGED scanVars
  BY <1>3 DEF scanVars, ScanTypeOK, RevertedAll, Visible
<1> QED
  BY <1>1, <1>2, <1>3 DEF ScanNext

(* A batch, its answer and what a revert leaves, for batches of any size. *)
THEOREM ScanTypeCorrect == ASSUME ScanAssumption PROVE ScanSpec => [](ScanTypeOK /\ RevertedAll)
<1>1. ScanInit => ScanTypeOK /\ RevertedAll
  BY ScanAssumption DEF ScanAssumption, ScanInit, ScanTypeOK, RevertedAll
<1>2. ScanTypeOK /\ RevertedAll /\ [ScanNext]_scanVars => ScanTypeOK' /\ RevertedAll'
  BY ScanStep
<1> QED
  BY <1>1, <1>2, PTL DEF ScanSpec

(* A batch with a package or a loose file is in the view that its packages *)
(* call for, with the one exception that NeverOutOfSight names, however    *)
(* many packages it has.                                                   *)
THEOREM BatchesStayInSight == ASSUME ScanAssumption PROVE ScanSpec => []NeverOutOfSight
<1>1. ASSUME ScanTypeOK, RevertedAll PROVE NeverOutOfSight
  <2> SUFFICES ASSUME tree.place = "plain", HasContent(tree)
               PROVE  /\ ~FullyProcessed(tree) => InWorkspace(tree)
                      /\ FullyProcessed(tree) =>
                           ~InWorkspace(tree) /\ (InProcessed(tree) \/ BlindedByJunk(tree))
                      /\ answered = "200" => InWorkspace(tree) /\ ~InProcessed(tree)
    BY DEF NeverOutOfSight
  <2>1. CASE ~tree.readable
    BY <1>1, <2>1 DEF InWorkspace, Flags, FullyProcessed, RevertedAll
  <2>2. CASE tree.readable
    <3>1. "unreadable" \notin Flags(tree) /\ ("loose_files" \in Flags(tree) <=> tree.loose)
      BY <2>2 DEF Flags
    <3>2. Packages(tree) \subseteq Visible(tree)
      BY DEF Packages, Visible
    <3>3. CASE ~FullyProcessed(tree)
      <4>1. InWorkspace(tree)
        BY <2>2, <3>1, <3>3 DEF InWorkspace, HasContent, FullyProcessed
      <4>2. answered = "200" => ~InProcessed(tree)
        BY <1>1 DEF RevertedAll, InProcessed
      <4> QED BY <3>3, <4>1, <4>2
    <3>4. CASE FullyProcessed(tree)
      <4>1. PICK i \in Packages(tree) : tree.dirs[i].readable /\ tree.dirs[i].uri = "file"
        BY <3>4 DEF FullyProcessed, Processed
      <4>2. \A j \in Packages(tree) : tree.dirs[j].readable
        BY <3>4 DEF FullyProcessed, Processed
      <4>3. ~InWorkspace(tree)
        BY <2>2, <3>1, <3>4 DEF InWorkspace, FullyProcessed
      <4>4. answered # "200"
        BY <1>1, <3>2, <4>1 DEF RevertedAll
      <4>5. InProcessed(tree) \/ BlindedByJunk(tree)
        <5>1. SUFFICES ASSUME ~InProcessed(tree), NEW k \in Packages(tree)
                       PROVE  \E j \in Visible(tree) \ Packages(tree) :
                                 j < k /\ ~tree.dirs[j].readable
          BY DEF BlindedByJunk
        <5>2. tree.dirs[k].readable /\ tree.dirs[k].uri = "file"
          BY <3>4 DEF FullyProcessed, Processed
        <5>3. PICK j \in Visible(tree) : j < k /\ ~tree.dirs[j].readable
          BY <2>2, <3>2, <5>1, <5>2 DEF InProcessed
        <5> QED BY <4>2, <5>3
      <4> QED BY <3>4, <4>3, <4>4, <4>5
    <3> QED BY <3>3, <3>4
  <2> QED BY <2>1, <2>2
<1> QED
  BY <1>1, ScanTypeCorrect, ScanAssumption, PTL

(* The sweeps agree on what a package is and which ones lack uri.txt. *)
THEOREM SweepsAlwaysAgree == ASSUME ScanAssumption PROVE ScanSpec => []SweepsAgree
<1>1. ASSUME ScanTypeOK PROVE SweepsAgree
  <2> SUFFICES ASSUME tree.readable
               PROVE  /\ Packages(tree) = Visible(tree)
                            => MissingUri(tree) = Packages(tree) \ Processed(tree)
                      /\ ~QaRaises(tree) => MissingUri(tree) \ Failed(tree) = MissingUriQa(tree)
                      /\ ~HasBlockingErrors(tree) =>
                           /\ ~BadFolderNameQa(tree) \/ tree.tail = "archival_objects"
                           /\ \A i \in Packages(tree) :
                                 i \in Listed(tree) \/ tree.dirs[i].content = "text"
    BY DEF SweepsAgree
  <2>0. tree \in Tree /\ \A i \in DOMAIN tree.dirs : tree.dirs[i] \in Directory
    BY <1>1 DEF ScanTypeOK, Tree
  <2>1. Packages(tree) = Visible(tree) => MissingUri(tree) = Packages(tree) \ Processed(tree)
    BY DEF MissingUri, Processed, Visible, Packages
  <2>2. ~QaRaises(tree) => MissingUri(tree) \ Failed(tree) = MissingUriQa(tree)
    BY <2>0 DEF QaRaises, MissingUri, Failed, MissingUriQa, Visible, Directory
  <2>3. ASSUME ~HasBlockingErrors(tree)
        PROVE  /\ ~BadFolderNameQa(tree) \/ tree.tail = "archival_objects"
               /\ \A i \in Packages(tree) : i \in Listed(tree) \/ tree.dirs[i].content = "text"
    <3>1. Flags(tree) \subseteq {"partially_processed", "name_hygiene"}
      BY <2>3 DEF HasBlockingErrors
    <3>2. ~BadFolderName(tree)
      <4>1. BadFolderName(tree) => "bad_folder_name" \in Flags(tree)
        BY DEF Flags
      <4> QED BY <3>1, <4>1
    <3>3. \A i \in Packages(tree) : ~EmptyPackage(tree.dirs[i]) /\ ~Nested(tree.dirs[i])
      <4>1. (\E i \in Packages(tree) : EmptyPackage(tree.dirs[i])) => "empty_package" \in Flags(tree)
        BY DEF Flags
      <4>2. (\E i \in Packages(tree) : Nested(tree.dirs[i])) => "nested_dirs" \in Flags(tree)
        BY DEF Flags
      <4> QED BY <3>1, <4>1, <4>2
    <3>4. ~BadFolderNameQa(tree) \/ tree.tail = "archival_objects"
      BY <2>0, <3>2 DEF BadFolderName, BadFolderNameQa, Tree
    <3>5. ASSUME NEW i \in Packages(tree) PROVE i \in Listed(tree) \/ tree.dirs[i].content = "text"
      BY <2>0, <3>3 DEF EmptyPackage, Nested, Listed, Visible, Packages, Directory
    <3> QED BY <3>4, <3>5
  <2> QED BY <2>1, <2>2, <2>3
<1> QED
  BY <1>1, ScanTypeCorrect, ScanAssumption, PTL

-----------------------------------------------------------------------------
(* ReadyNames.  Names in a directory differ, and a file's name stays alike *)
(* its first one; so a file that is overwritten leaves a namesake behind.  *)
ListedNames ==
    /\ listed \in [Check -> SUBSET Name]
    /\ \A t \in threads : t \in Thread
NamesKept ==
    /\ parcelName \in [Parcel -> Name \cup {Gone}]
    /\ itemName \in [Item -> Name \cup {Gone}]
    /\ original.item \in [Item -> Name]
    /\ \A f \in Item : itemName[f] # Gone => Alike(original.item[f], itemName[f])
NamesInv == ListedNames /\ NamesKept /\ LostOnlyToAlike

(* What a renamed file is called is alike what it was called.              *)
LEMMA TargetAlike ==
    ASSUME NEW n \in Name PROVE Target(n) \in Name /\ Alike(n, Target(n))
BY DEF Name, Target, Alike

(* Alike is an equivalence.                                                *)
LEMMA AlikeEquivalence ==
    /\ \A m \in Name : Alike(m, m)
    /\ \A m, n \in Name : Alike(m, n) => Alike(n, m)
    /\ \A m, n, o \in Name : Alike(m, n) /\ Alike(n, o) => Alike(m, o)
BY DEF Name, Alike

(* A directory is moved onto nothing, or onto an empty one.                *)
LEMMA RenameParcelKeeps ==
    ASSUME NamesAssumption, NamesKept, LostOnlyToAlike, NEW n \in Name, RenameParcel(n),
           itemName' = itemName, original' = original
    PROVE  NamesKept' /\ LostOnlyToAlike'
<1> DEFINE t == Target(n)
<1>1. t \in Name /\ n # Gone /\ t # Gone
  BY TargetAlike DEF NamesAssumption
<1>2. CASE parcelName' = parcelName
  BY <1>2 DEF NamesKept, LostOnlyToAlike, ItemsIn
<1>3. CASE parcelName' # parcelName
  <2>1. /\ t # n
        /\ \A q \in ParcelAt(t) : ItemsIn(q) = {}
        /\ parcelName' = [p \in Parcel |-> IF parcelName[p] = t THEN Gone
                                           ELSE IF parcelName[p] = n THEN t
                                           ELSE parcelName[p]]
    BY <1>3 DEF RenameParcel
  <2> HIDE DEF t
  <2>2. NamesKept'
    BY <2>1, <1>1 DEF NamesKept
  <2>3. \A p, q \in Parcel : parcelName'[p] = parcelName'[q] /\ p # q => parcelName'[p] = Gone
    BY <2>1, <1>1 DEF LostOnlyToAlike, NamesKept
  <2>4. \A p \in Parcel : parcelName'[p] = Gone => ItemsIn(p)' = {}
    BY <2>1, <1>1 DEF LostOnlyToAlike, ItemsIn, ParcelAt
  <2> QED
    BY <2>2, <2>3, <2>4 DEF LostOnlyToAlike
<1> QED
  BY <1>2, <1>3

(* A file is moved onto nothing, or onto a file that had its name but for  *)
(* case and blanks.                                                        *)
LEMMA RenameItemKeeps ==
    ASSUME NamesAssumption, NamesKept, LostOnlyToAlike, NEW n \in Name, NEW j \in Name,
           ItemAt(n, j) # {}, RenameItem(n, j), parcelName' = parcelName, original' = original
    PROVE  NamesKept' /\ LostOnlyToAlike'
<1> DEFINE t == Target(j)
<1>1. t \in Name /\ j # Gone /\ t # Gone /\ n # Gone /\ Alike(j, t)
  BY TargetAlike DEF NamesAssumption
<1>2. CASE t = j
  BY <1>2 DEF RenameItem, NamesKept, LostOnlyToAlike, ItemsIn
<1>3. CASE t # j
  <2>1. itemName' = [f \in Item |-> IF f \in ItemAt(n, j) THEN t
                                    ELSE IF f \in ItemAt(n, t) THEN Gone ELSE itemName[f]]
    BY <1>3 DEF RenameItem
  <2> HIDE DEF t
  <2>2. PICK e \in Item : e \in ItemAt(n, j)
    BY DEF ItemAt
  <2>3. /\ Home[e] \in ParcelAt(n) /\ itemName[e] = j /\ Home \in [Item -> Parcel]
        /\ \A f \in Item : f \in ItemAt(n, j) <=> f = e
        /\ \A f \in Item : f \in ItemAt(n, t) <=> Home[f] = Home[e] /\ itemName[f] = t
    BY <2>2, <1>1 DEF ItemAt, ParcelAt, NamesAssumption, LostOnlyToAlike
  <2>4. \A f \in Item : itemName'[f] = IF f = e THEN t
                                       ELSE IF Home[f] = Home[e] /\ itemName[f] = t THEN Gone
                                       ELSE itemName[f]
    BY <2>1, <2>3
  <2>5. NamesKept'
    <3>1. Alike(original.item[e], t)
      BY <2>3, <1>1, AlikeEquivalence DEF NamesKept
    <3>2. itemName' \in [Item -> Name \cup {Gone}]
      BY <2>1, <1>1 DEF NamesKept
    <3> QED
      BY <2>4, <3>1, <3>2 DEF NamesKept
  <2>6. \A f, g \in Item : Home[f] = Home[g] /\ itemName'[f] = itemName'[g] /\ f # g
                             => itemName'[f] = Gone
    BY <2>4 DEF LostOnlyToAlike
  <2>7. \A p \in Parcel : parcelName'[p] = Gone => ItemsIn(p)' = {}
    BY <2>4, <2>3, <1>1 DEF LostOnlyToAlike, ItemsIn
  <2>8. ASSUME NEW f \in Item, itemName'[f] = Gone
        PROVE  \E g \in Item : /\ Home[g] = Home[f] /\ itemName'[g] # Gone
                               /\ Alike(original.item[f], original.item[g])
    <3>1. \A g \in Item : Home[g] = Home[e] /\ itemName[g] = t
              => Alike(original.item[g], original.item[e])
      BY <2>3, <1>1, AlikeEquivalence DEF NamesKept
    <3>2. CASE itemName[f] # Gone
      BY <2>4, <2>8, <3>1, <3>2, <1>1
    <3>3. CASE itemName[f] = Gone
      <4>1. PICK g \in Item : /\ Home[g] = Home[f] /\ itemName[g] # Gone
                              /\ Alike(original.item[f], original.item[g])
        BY <3>3 DEF LostOnlyToAlike
      <4>2. CASE itemName'[g] = Gone
        <5>1. Home[g] = Home[e] /\ itemName[g] = t
          BY <4>1, <4>2, <2>4, <1>1
        <5>2. Alike(original.item[f], original.item[e])
          BY <5>1, <3>1, <4>1, AlikeEquivalence DEF NamesKept
        <5> QED
          BY <5>1, <5>2, <4>1, <2>4, <1>1
      <4> QED
        BY <4>1, <4>2
    <3> QED
      BY <3>2, <3>3
  <2> QED
    BY <2>5, <2>6, <2>7, <2>8 DEF LostOnlyToAlike
<1> QED
  BY <1>2, <1>3

(* Steps that rename nothing.                                              *)
LEMMA NamesStay ==
    ASSUME NamesKept, LostOnlyToAlike, parcelName' = parcelName, itemName' = itemName,
           original' = original
    PROVE  NamesKept' /\ LostOnlyToAlike'
BY DEF NamesKept, LostOnlyToAlike, ItemsIn

(* Requests and threads handle names.                                      *)
LEMMA ListedStep ==
    ASSUME NamesAssumption, ListedNames, NamesKept, [NamesNext]_nameVars PROVE ListedNames'
<1> USE DEF ListedNames
<1>1. ASSUME NEW r \in Check, NEW k \in Kind \ {"none"}, BeginCheck(r, k) PROVE ListedNames'
  BY <1>1 DEF BeginCheck, ParcelNames, NamesKept
<1>2. ASSUME NEW r \in Check, Look(r) \/ Sweep(r) \/ MainList(r) \/ MainSweep(r) \/ EndCheck(r)
      PROVE  ListedNames'
  BY <1>2 DEF Look, Sweep, MainList, MainSweep, EndCheck
<1>3. ASSUME NEW r \in Check, SweepRaises(r) \/ MainRaises(r) \/ Answered(r) \/ KillCheck(r)
      PROVE  ListedNames'
  BY <1>3 DEF SweepRaises, MainRaises, Answered, KillCheck, Raise
<1>4. ASSUME NEW r \in Check, PackageTurn(r) PROVE ListedNames'
  BY <1>4 DEF PackageTurn
<1>5. ASSUME NEW r \in Check, FileTurn(r) PROVE ListedNames'
  BY <1>5 DEF FileTurn, Thread
<1>6. ASSUME NEW t \in threads, ThreadStep(t) PROVE ListedNames'
  <2>1. listed' = listed /\ \A u \in threads' : u \in threads \/
            \E l \in {"list", "sweep", "rename"}, rest \in SUBSET Name :
               u = [t EXCEPT !.step = l, !.left = rest]
    <3>1. CASE ThreadList(t)
      <4> DEFINE found == {itemName[f] : f \in UNION {ItemsIn(p) : p \in ParcelAt(t.dir)}}
      <4>1. found \subseteq Name
        BY DEF ItemsIn, NamesKept
      <4> QED
        BY <3>1, <4>1 DEF ThreadList, Goes, mains
    <3>2. CASE ThreadSweep(t)
      BY <3>2 DEF ThreadSweep, Goes, mains, Thread
    <3>3. CASE ThreadRename(t)
      BY <3>3 DEF ThreadRename, Goes, mains, Thread
    <3>4. CASE ThreadDies(t)
      BY <3>4 DEF ThreadDies, mains
    <3> QED
      BY <1>6, <3>1, <3>2, <3>3, <3>4 DEF ThreadStep
  <2>2. ASSUME NEW l \in {"list", "sweep", "rename"}, NEW rest \in SUBSET Name
        PROVE  [t EXCEPT !.step = l, !.left = rest] \in Thread
    BY DEF Thread
  <2>3. ASSUME NEW u \in threads' PROVE u \in Thread
    <3>1. CASE u \in threads
      BY <3>1
    <3>2. ASSUME NEW l \in {"list", "sweep", "rename"}, NEW rest \in SUBSET Name,
                 u = [t EXCEPT !.step = l, !.left = rest]
          PROVE  u \in Thread
      <4> HIDE DEF ListedNames
      <4> QED
        BY <2>2, <3>2
    <3> QED
      BY <2>1, <3>1, <3>2
  <2> QED
    BY <2>1, <2>3
<1>7. ASSUME NEW p \in Parcel, HiddenAppears(p) PROVE ListedNames'
  BY <1>7 DEF HiddenAppears, mains
<1>8. CASE UNCHANGED nameVars
  BY <1>8 DEF nameVars
<1> QED
  BY <1>1, <1>2, <1>3, <1>4, <1>5, <1>6, <1>7, <1>8 DEF NamesNext, CheckStep

(* Only two steps rename.                                                  *)
LEMMA NamesStep ==
    ASSUME NamesAssumption, NamesInv, [NamesNext]_nameVars PROVE NamesInv'
<1> USE DEF NamesInv
<1> DEFINE Kept == NamesKept' /\ LostOnlyToAlike'
<1>1. ASSUME NEW r \in Check, PackageTurn(r) PROVE Kept
  <2>1. PICK n \in listed[r] : RenameParcel(n)
    BY <1>1 DEF PackageTurn
  <2>2. n \in Name /\ itemName' = itemName /\ original' = original
    BY <1>1, <2>1 DEF PackageTurn, ListedNames
  <2> QED
    BY <2>1, <2>2, RenameParcelKeeps
<1>2. ASSUME NEW t \in threads, ThreadRename(t) PROVE Kept
  <2>1. PICK j \in t.left : ItemAt(t.dir, j) # {} /\ RenameItem(t.dir, j)
    BY <1>2 DEF ThreadRename
  <2>2. t.dir \in Name /\ j \in Name /\ parcelName' = parcelName /\ original' = original
    BY <1>2, <2>1 DEF ThreadRename, ListedNames, Thread
  <2> QED
    BY <2>1, <2>2, RenameItemKeeps
<1>3. ASSUME NEW r \in Check,
             \/ \E k \in Kind \ {"none"} : BeginCheck(r, k)
             \/ Look(r) \/ Sweep(r) \/ SweepRaises(r) \/ FileTurn(r) \/ MainList(r) \/ MainSweep(r)
             \/ MainRaises(r) \/ EndCheck(r) \/ Answered(r) \/ KillCheck(r)
      PROVE  Kept
  <2>1. parcelName' = parcelName /\ itemName' = itemName /\ original' = original
    BY <1>3 DEF BeginCheck, Look, Sweep, SweepRaises, FileTurn, MainList, MainSweep, MainRaises,
                EndCheck, Answered, KillCheck, names
  <2> QED
    BY <2>1, NamesStay
<1>4. ASSUME NEW t \in threads, ThreadList(t) \/ ThreadSweep(t) \/ ThreadDies(t) PROVE Kept
  BY <1>4, NamesStay DEF ThreadList, ThreadSweep, ThreadDies, names
<1>5. ASSUME NEW p \in Parcel, HiddenAppears(p) PROVE Kept
  BY <1>5, NamesStay DEF HiddenAppears
<1>6. ASSUME UNCHANGED nameVars PROVE Kept
  <2>1. parcelName' = parcelName /\ itemName' = itemName /\ original' = original
    BY <1>6 DEF nameVars
  <2> QED
    BY <2>1, NamesStay
<1>7. Kept
  BY <1>1, <1>2, <1>3, <1>4, <1>5, <1>6 DEF NamesNext, CheckStep, ThreadStep
<1> QED
  BY <1>7, ListedStep

(* The invariant of names holds throughout. *)
LEMMA NamesInvHolds == ASSUME NamesAssumption PROVE NamesSpec => []NamesInv
<1>1. NamesInit => NamesInv
  <2> SUFFICES ASSUME NamesInit PROVE NamesInv
    OBVIOUS
  <2>1. PICK start \in NameStart :
            original = start /\ parcelName = start.parcel /\ itemName = start.item
    BY DEF NamesInit
  <2>2. NamesKept
    BY <2>1, AlikeEquivalence DEF NamesAssumption, NamesKept
  <2>3. LostOnlyToAlike
    BY <2>1, <2>2 DEF NamesAssumption, NamesKept, LostOnlyToAlike
  <2> QED
    BY <2>2, <2>3 DEF NamesInit, NamesInv, ListedNames
<1>2. NamesInv /\ [NamesNext]_nameVars => NamesInv'
  BY NamesAssumption, NamesStep
<1> QED
  BY <1>1, <1>2, PTL DEF NamesSpec

(* However requests and threads interleave, die or are killed, no          *)
(* directory with files goes and a file is lost only to a namesake of its  *)
(* package (lib/archivematica_ops.py:744-749).                             *)
THEOREM LostFilesHaveNamesakes ==
    ASSUME NamesAssumption PROVE NamesSpec => []LostOnlyToAlike
<1>1. NamesInv => LostOnlyToAlike
  BY DEF NamesInv
<1> QED
  BY <1>1, NamesInvHolds, NamesAssumption, PTL

(* Every variable keeps its type, for any requests, packages and files;    *)
(* hidden files are in packages that are there.                            *)
LEMMA NamesTypeStep ==
    ASSUME NamesAssumption, NamesInv, NamesTypeOK, [NamesNext]_nameVars PROVE NamesTypeOK'
<1> USE DEF NamesTypeOK
<1>1. NamesInv'
  BY NamesStep
<1>2. /\ parcelName' \in [Parcel -> Name \cup {Gone}]
      /\ itemName' \in [Item -> Name \cup {Gone}]
      /\ listed' \in [Check -> SUBSET Name]
      /\ threads' \subseteq Thread
  BY <1>1 DEF NamesInv, NamesKept, ListedNames
<1>3. ASSUME NEW r \in Check, Raise(r)
      PROVE  /\ kind' \in [Check -> Kind] /\ cpc' \in [Check -> CheckLabel]
             /\ at' \in [Check -> Name \cup {Gone}] /\ seen' \in [Check -> BOOLEAN]
             /\ disturbed' \subseteq Check
  BY <1>3 DEF Raise, GoTo, Kind, CheckLabel
<1>4. ASSUME NEW r \in Check,
             SweepRaises(r) \/ MainRaises(r) \/ Answered(r) \/ KillCheck(r)
      PROVE  NamesTypeOK'
  <2>1. Raise(r) /\ UNCHANGED names
    BY <1>4 DEF SweepRaises, MainRaises, Answered, KillCheck
  <2> QED
    BY <2>1, <1>2, <1>3 DEF names
<1>5. ASSUME NEW r \in Check, NEW k \in Kind \ {"none"}, BeginCheck(r, k) PROVE NamesTypeOK'
  <2>1. Busy \subseteq Check
    BY DEF Busy
  <2> QED
    BY <1>2, <1>5, <2>1 DEF BeginCheck, GoTo, CheckLabel, names
<1>6. ASSUME NEW r \in Check, Look(r) \/ Sweep(r) PROVE NamesTypeOK'
  <2>1. cpc' \in [Check -> CheckLabel]
    BY <1>6 DEF Look, Sweep, GoTo, CheckLabel
  <2>2. CASE Look(r)
    BY <1>2, <2>1, <2>2 DEF Look, names
  <2>3. CASE Sweep(r)
    <3>1. seen' \in [Check -> BOOLEAN]
      BY <2>3 DEF Sweep
    <3>2. junk' \in BOOLEAN
      BY <2>3, Zenon DEF Sweep
    <3> QED
      BY <1>2, <2>1, <2>3, <3>1, <3>2 DEF Sweep
  <2> QED
    BY <1>6, <2>2, <2>3
<1>7. ASSUME NEW r \in Check, PackageTurn(r) PROVE NamesTypeOK'
  <2>1. PICK n \in listed[r] : RenameParcel(n)
    BY <1>7 DEF PackageTurn
  <2>2. n \in Name /\ n # Gone /\ Target(n) # Gone
    BY <2>1, TargetAlike DEF NamesAssumption
  <2>3. \A p \in Parcel : p \in hidden => parcelName'[p] # Gone
    <3>1. CASE parcelName' = parcelName
      BY <3>1
    <3>2. CASE parcelName' # parcelName
      <4> DEFINE t == Target(n)
      <4>1. /\ \A q \in ParcelAt(t) : q \notin hidden
            /\ parcelName' = [p \in Parcel |-> IF parcelName[p] = t THEN Gone
                                               ELSE IF parcelName[p] = n THEN t
                                               ELSE parcelName[p]]
        BY <2>1, <3>2 DEF RenameParcel
      <4> HIDE DEF t
      <4> QED
        BY <4>1, <2>2 DEF ParcelAt, t
    <3> QED
      BY <3>1, <3>2
  <2> QED
    BY <1>2, <1>7, <2>3 DEF PackageTurn
<1>8. ASSUME NEW r \in Check, FileTurn(r) PROVE NamesTypeOK'
  BY <1>2, <1>8 DEF FileTurn, GoTo, CheckLabel, names
<1>9. ASSUME NEW r \in Check, MainList(r) \/ MainSweep(r) \/ EndCheck(r) PROVE NamesTypeOK'
  BY <1>2, <1>9 DEF MainList, MainSweep, EndCheck, GoTo, CheckLabel, names
<1>10. ASSUME NEW t \in threads, ThreadStep(t) PROVE NamesTypeOK'
  BY <1>2, <1>10 DEF ThreadStep, ThreadList, ThreadSweep, ThreadRename, ThreadDies, mains, names
<1>11. ASSUME NEW p \in Parcel, HiddenAppears(p) PROVE NamesTypeOK'
  BY <1>2, <1>11, NamesAssumption DEF NamesAssumption, HiddenAppears, mains
<1>12. CASE UNCHANGED nameVars
  BY <1>12 DEF nameVars
<1>13. CASE \E r \in Check : CheckStep(r)
  BY <1>13, <1>4, <1>5, <1>6, <1>7, <1>8, <1>9 DEF CheckStep
<1> QED
  BY <1>10, <1>11, <1>12, <1>13 DEF NamesNext

-----------------------------------------------------------------------------
(* ReadyNames.  A request that met nobody and no hidden file is alone with *)
(* the batch; what it has passed is normalised, and the rest is on its     *)
(* list, or on that of the one thread of the package.                      *)
Quiet(r) == cpc[r] # "idle" /\ r \notin disturbed
Normal(f) == itemName[f] # Gone => Target(itemName[f]) = itemName[f]

AloneThere(r) ==
    /\ hidden = {}
    /\ \A q \in Check \ {r} : cpc[q] = "idle"
    /\ \A t \in threads : t.check = r
Stage(r) ==
    /\ cpc[r] \in {"look", "sweep"} => kind[r] # "files"
    /\ kind[r] # "files" => threads = {}
    /\ cpc[r] \in {"main_list", "main_sweep"} => kind[r] = "files"
    /\ cpc[r] = "answered" /\ kind[r] # "list" => listed[r] = {} /\ threads = {}
PackagesDone(r) ==
    kind[r] = "packages" =>
        \A n \in ParcelNames : n \in listed[r] \/ n.dotted \/ Target(n) \in ParcelNames
Handles(t, f) ==
    /\ t.dir = parcelName[Home[f]]
    /\ t.step = "list" \/ itemName[f] \in t.left
FilesDone(r) ==
    kind[r] = "files" =>
        \A f \in Item : \/ Normal(f)
                        \/ parcelName[Home[f]] \in listed[r]
                        \/ \E t \in threads : Handles(t, f)
OwnThreads(r) ==
    /\ \A t, u \in threads : t.dir = u.dir => t = u
    /\ \A t \in threads :
          /\ t.dir \notin listed[r]
          /\ t.step # "sweep"
          /\ t.step = "rename" => \A j \in t.left : ItemAt(t.dir, j) # {}
QuietNow(r) ==
    AloneThere(r) /\ Stage(r) /\ PackagesDone(r) /\ FilesDone(r) /\ OwnThreads(r)
QuietInv == \A r \in Check : Quiet(r) => QuietNow(r)

(* A normalised name stays as it is. *)
LEMMA TargetOnce == ASSUME NEW n \in Name PROVE Target(Target(n)) = Target(n)
BY DEF Name, Target

(* Where a quiet request may come from: it has just begun, alone and with  *)
(* no hidden file, or it was quiet before and nobody else has moved.       *)
LEMMA QuietBefore ==
    ASSUME NamesTypeOK, QuietInv, NEW r \in Check, Quiet(r)', NamesNext
    PROVE  \/ \E k \in Kind \ {"none"} : BeginCheck(r, k) /\ Busy = {} /\ hidden = {}
           \/ /\ Quiet(r) /\ QuietNow(r)
              /\ \/ Look(r) \/ Sweep(r) \/ PackageTurn(r) \/ FileTurn(r) \/ MainList(r)
                 \/ MainSweep(r) \/ EndCheck(r)
                 \/ \E t \in threads : ThreadStep(t)
<1>1. ASSUME NEW q \in Check, NEW k \in Kind \ {"none"}, BeginCheck(q, k)
      PROVE  q = r /\ Busy = {} /\ hidden = {}
  <2>1. CASE q = r
    BY <1>1, <2>1 DEF BeginCheck, Quiet
  <2>2. CASE q # r
    <3>1. cpc'[r] = cpc[r]
      BY <1>1, <2>2 DEF BeginCheck, GoTo, NamesTypeOK
    <3>2. r \in Busy
      BY <3>1 DEF Quiet, Busy
    <3> QED
      BY <1>1, <3>2 DEF BeginCheck, Quiet
  <2> QED
    BY <2>1, <2>2
<1>2. ASSUME NEW q \in Check,
             \/ Look(q) \/ Sweep(q) \/ SweepRaises(q) \/ PackageTurn(q) \/ FileTurn(q)
             \/ MainList(q) \/ MainSweep(q) \/ MainRaises(q) \/ EndCheck(q) \/ Answered(q)
             \/ KillCheck(q)
      PROVE  /\ q = r
             /\ Quiet(r)
             /\ \/ Look(r) \/ Sweep(r) \/ PackageTurn(r) \/ FileTurn(r) \/ MainList(r)
                \/ MainSweep(r) \/ EndCheck(r)
  <2>1. CASE SweepRaises(q) \/ MainRaises(q) \/ Answered(q) \/ KillCheck(q)
    <3>1. Raise(q) /\ q \in Busy
      BY <2>1 DEF SweepRaises, MainRaises, Answered, KillCheck, Busy
    <3>2. q # r
      BY <3>1 DEF NamesTypeOK, Raise, GoTo, Quiet
    <3>3. Quiet(r)
      BY <3>1, <3>2 DEF NamesTypeOK, Raise, GoTo, Quiet
    <3>4. AloneThere(r)
      BY <3>3 DEF QuietInv, QuietNow
    <3> QED
      BY <3>1, <3>2, <3>4 DEF AloneThere, Busy, Threads
  <2>2. CASE \/ Look(q) \/ Sweep(q) \/ PackageTurn(q) \/ FileTurn(q) \/ MainList(q)
             \/ MainSweep(q) \/ EndCheck(q)
    <3>1. cpc[q] # "idle" /\ disturbed' = disturbed
      BY <2>2 DEF Look, Sweep, PackageTurn, FileTurn, MainList, MainSweep, EndCheck
    <3>2. q # r => cpc'[r] = cpc[r]
      BY <2>2 DEF Look, Sweep, PackageTurn, FileTurn, MainList, MainSweep, EndCheck, GoTo,
                  NamesTypeOK
    <3>3. Quiet(r)
      BY <3>1, <3>2 DEF Quiet
    <3>4. AloneThere(r)
      BY <3>3 DEF QuietInv, QuietNow
    <3> QED
      BY <2>2, <3>1, <3>3, <3>4 DEF AloneThere
  <2> QED
    BY <1>2, <2>1, <2>2
<1>3. ASSUME NEW t \in threads, ThreadStep(t) PROVE Quiet(r)
  BY <1>3 DEF ThreadStep, ThreadList, ThreadSweep, ThreadRename, ThreadDies, mains, Quiet
<1>4. ASSUME NEW p \in Parcel, HiddenAppears(p) PROVE FALSE
  BY <1>4 DEF HiddenAppears, mains, Quiet, Busy
<1>5. CASE \E q \in Check : CheckStep(q)
  BY <1>1, <1>2, <1>5 DEF CheckStep, QuietInv
<1>6. CASE \E t \in threads : ThreadStep(t)
  BY <1>3, <1>6 DEF QuietInv
<1> QED
  BY <1>4, <1>5, <1>6 DEF NamesNext

(* check_package_names: the name that goes leaves its target behind. *)
LEMMA QuietPackage ==
    ASSUME NamesAssumption, NamesInv, NamesTypeOK, NEW r \in Check, QuietNow(r), PackageTurn(r)
    PROVE  QuietNow(r)'
<1>1. PICK n \in listed[r] : RenameParcel(n) /\ listed' = [listed EXCEPT ![r] = @ \ {n}]
  BY DEF PackageTurn
<1>2. n \in Name /\ n # Gone /\ Target(n) \in Name /\ Target(n) # Gone
  BY <1>1, TargetAlike DEF NamesTypeOK, NamesAssumption
<1>3. /\ kind[r] = "packages" /\ cpc[r] = "turn" /\ kind' = kind /\ cpc' = cpc
      /\ hidden' = hidden /\ threads' = threads /\ listed'[r] = listed[r] \ {n}
  BY <1>1 DEF PackageTurn, NamesTypeOK
<1>4. AloneThere(r)' /\ Stage(r)' /\ FilesDone(r)' /\ threads = {}
  BY <1>3 DEF QuietNow, AloneThere, Stage, FilesDone
<1>5. PackagesDone(r)'
  <2>1. CASE parcelName' = parcelName
    <3>1. n.dotted \/ Target(n) = n \/ Target(n) \in ParcelNames \/ n \notin ParcelNames
      <4>1. CASE n.dotted \/ Target(n) = n \/ ParcelAt(n) = {}
        BY <4>1 DEF ParcelAt, ParcelNames
      <4>2. CASE \E q \in ParcelAt(Target(n)) : ItemsIn(q) # {} \/ q \in hidden
        BY <4>2, <1>2 DEF ParcelAt, ParcelNames
      <4>3. CASE ~(n.dotted \/ Target(n) = n \/ ParcelAt(n) = {})
                 /\ ~(\E q \in ParcelAt(Target(n)) : ItemsIn(q) # {} \/ q \in hidden)
        <5> DEFINE t == Target(n)
        <5>1. parcelName = [p \in Parcel |-> IF parcelName[p] = t THEN Gone
                                             ELSE IF parcelName[p] = n THEN t
                                             ELSE parcelName[p]]
          BY <1>1, <2>1, <4>3 DEF RenameParcel
        <5>2. PICK p \in Parcel : parcelName[p] = n
          BY <4>3 DEF ParcelAt
        <5> HIDE DEF t
        <5>3. t # n
          BY <4>3 DEF t
        <5>4. parcelName[p] = t
          BY <5>1, <5>2, <5>3
        <5> QED
          BY <5>2, <5>3, <5>4
      <4> QED
        BY <4>1, <4>2, <4>3
    <3>2. ParcelNames' = ParcelNames
      BY <2>1 DEF ParcelNames
    <3> QED
      BY <1>3, <3>1, <3>2 DEF QuietNow, PackagesDone
  <2>2. CASE parcelName' # parcelName
    <3> DEFINE t == Target(n)
    <3>1. /\ t # n
          /\ ParcelAt(n) # {}
          /\ parcelName' = [p \in Parcel |-> IF parcelName[p] = t THEN Gone
                                             ELSE IF parcelName[p] = n THEN t
                                             ELSE parcelName[p]]
      BY <1>1, <2>2 DEF RenameParcel
    <3>2. Target(t) = t /\ t \in Name /\ t # Gone
      BY <1>2, TargetOnce
    <3> HIDE DEF t
    <3>3. ParcelNames' = (ParcelNames \ {n}) \cup {t}
      BY <3>1, <3>2, <1>2 DEF ParcelNames, ParcelAt
    <3>4. ASSUME NEW m \in ParcelNames'
          PROVE  m \in listed'[r] \/ m.dotted \/ Target(m) \in ParcelNames'
      <4>1. CASE m = t
        BY <4>1, <3>2, <3>3
      <4>2. CASE m # t
        <5>1. m \in ParcelNames /\ (m # n \/ n = t)
          BY <4>2, <3>3, <3>4
        <5>2. m \in Name /\ m # n
          BY <5>1, <3>1 DEF ParcelNames, NamesTypeOK
        <5>3. m \in listed[r] \/ m.dotted \/ Target(m) \in ParcelNames
          BY <5>1, <1>3 DEF QuietNow, PackagesDone
        <5>4. Target(m) # n
          <6>1. Target(Target(m)) = Target(m)
            BY <5>2, TargetOnce
          <6> QED
            BY <6>1, <3>1 DEF t
        <5> QED
          BY <5>2, <5>3, <5>4, <1>3, <3>3
      <4> QED
        BY <4>1, <4>2
    <3> QED
      BY <3>4 DEF PackagesDone
  <2> QED
    BY <2>1, <2>2
<1>6. OwnThreads(r)'
  BY <1>3, <1>4 DEF OwnThreads
<1> QED
  BY <1>4, <1>5, <1>6 DEF QuietNow

(* A thread of a quiet request ends with every file of its package         *)
(* normalised: none of the names it has listed goes before it comes.       *)
LEMMA QuietRename ==
    ASSUME NamesAssumption, NamesInv, NamesTypeOK, NEW r \in Check, QuietNow(r),
           NEW t \in threads, ThreadRename(t)
    PROVE  FilesDone(r)' /\ OwnThreads(r)'
<1>1. PICK j \in t.left : /\ ItemAt(t.dir, j) # {} /\ RenameItem(t.dir, j)
                          /\ Goes(t, "rename", t.left \ {j})
  BY DEF ThreadRename
<1> DEFINE k == Target(j)
           u == [t EXCEPT !.step = "rename", !.left = t.left \ {j}]
<1>2. /\ t \in Thread /\ j \in Name /\ j # Gone /\ k \in Name /\ k # Gone /\ Target(k) = k
      /\ t.dir \in Name /\ t.dir # Gone /\ t.step = "rename"
  BY <1>1, TargetAlike, TargetOnce DEF ThreadRename, NamesTypeOK, Thread, NamesAssumption
<1>3. parcelName' = parcelName /\ listed' = listed /\ kind' = kind
  BY DEF ThreadRename, mains
<1>4. /\ u.dir = t.dir /\ u.step = "rename" /\ u.left = t.left \ {j} /\ u.check = t.check
      /\ threads' = (threads \ {t}) \cup (IF t.left \ {j} = {} THEN {} ELSE {u})
  BY <1>1, <1>2 DEF Goes, Thread
<1>5. \A f \in Item : itemName'[f] = IF f \in ItemAt(t.dir, j) THEN k
                                     ELSE IF f \in ItemAt(t.dir, k) THEN Gone
                                     ELSE itemName[f]
  <2>1. CASE k = j
    BY <1>1, <2>1 DEF RenameItem, ItemAt
  <2>2. CASE k # j
    BY <1>1, <2>2 DEF RenameItem
  <2> QED
    BY <2>1, <2>2
<1> HIDE DEF k, u
<1>6. ASSUME NEW f \in Item
      PROVE  f \in ItemAt(t.dir, j) <=> parcelName[Home[f]] = t.dir /\ itemName[f] = j
  BY DEF ItemAt, ParcelAt, NamesAssumption
<1>7. ASSUME NEW f \in Item
      PROVE  f \in ItemAt(t.dir, k) <=> parcelName[Home[f]] = t.dir /\ itemName[f] = k
  BY DEF ItemAt, ParcelAt, NamesAssumption
<1>8. \A v \in threads' : (v \in threads /\ v # t) \/ (v = u /\ t.left \ {j} # {})
  BY <1>4
<1>9. FilesDone(r)'
  <2> SUFFICES ASSUME kind[r] = "files", NEW f \in Item
               PROVE  \/ Normal(f)'
                      \/ parcelName[Home[f]] \in listed[r]
                      \/ \E v \in threads' : Handles(v, f)'
    BY <1>3 DEF FilesDone
  <2>1. CASE f \in ItemAt(t.dir, j)
    BY <2>1, <1>5, <1>2 DEF Normal
  <2>2. CASE f \notin ItemAt(t.dir, j) /\ f \in ItemAt(t.dir, k)
    BY <2>2, <1>5 DEF Normal
  <2>3. CASE f \notin ItemAt(t.dir, j) /\ f \notin ItemAt(t.dir, k)
    <3>1. itemName'[f] = itemName[f]
      BY <2>3, <1>5
    <3>2. CASE Normal(f) \/ parcelName[Home[f]] \in listed[r]
      BY <3>1, <3>2 DEF Normal
    <3>3. ASSUME NEW v \in threads, Handles(v, f) PROVE \E w \in threads' : Handles(w, f)'
      <4>1. CASE v = t
        <5>1. itemName[f] \in t.left \ {j} /\ parcelName[Home[f]] = t.dir
          BY <3>3, <4>1, <1>2, <2>3, <1>6 DEF Handles
        <5> QED
          BY <5>1, <1>3, <1>4, <3>1 DEF Handles
      <4>2. CASE v # t
        BY <4>2, <3>3, <1>3, <1>4, <3>1 DEF Handles
      <4> QED
        BY <4>1, <4>2
    <3> QED
      BY <3>2, <3>3 DEF QuietNow, FilesDone
  <2> QED
    BY <2>1, <2>2, <2>3
<1>10. OwnThreads(r)'
  <2>1. \A v, w \in threads' : v.dir = w.dir => v = w
    BY <1>4, <1>8 DEF QuietNow, OwnThreads
  <2>2. \A v \in threads' : v.dir \notin listed'[r] /\ v.step # "sweep"
    BY <1>3, <1>4, <1>8 DEF QuietNow, OwnThreads
  <2>3. ASSUME NEW v \in threads', v.step = "rename", NEW i \in v.left
        PROVE  \E f \in Item : f \in ItemAt(v.dir, i)'
    <3>1. PICK f \in Item : parcelName[Home[f]] = v.dir /\ itemName[f] = i
      <4>1. ItemAt(v.dir, i) # {}
        BY <2>3, <1>2, <1>4, <1>8 DEF QuietNow, OwnThreads
      <4> QED
        BY <4>1 DEF ItemAt, ParcelAt
    <3>2. \A g \in Item : g \in ItemAt(v.dir, i)' <=> parcelName[Home[g]] = v.dir /\ itemName'[g] = i
      BY <1>3 DEF ItemAt, ParcelAt, NamesAssumption
    <3>3. CASE v # u
      <4>1. v.dir # t.dir
        BY <3>3, <1>8 DEF QuietNow, OwnThreads
      <4> QED
        BY <4>1, <3>1, <3>2, <1>5, <1>6, <1>7
    <3>4. CASE v = u
      <4>1. v.dir = t.dir /\ i # j
        BY <3>4, <2>3, <1>4
      <4>2. CASE i = k
        <5>1. PICK g \in Item : g \in ItemAt(t.dir, j)
          BY <1>1 DEF ItemAt
        <5>2. parcelName[Home[g]] = t.dir /\ itemName'[g] = k
          BY <5>1, <1>5, <1>6
        <5> QED
          BY <5>2, <4>1, <4>2, <3>2
      <4>3. CASE i # k
        BY <4>1, <4>3, <3>1, <3>2, <1>5, <1>6, <1>7
      <4> QED
        BY <4>2, <4>3
    <3> QED
      BY <3>3, <3>4
  <2>4. \A v \in threads' : v.step = "rename" => \A i \in v.left : ItemAt(v.dir, i)' # {}
    BY <2>3
  <2> QED
    BY <2>1, <2>2, <2>4 DEF OwnThreads
<1> QED
  BY <1>9, <1>10

(* The threads of a quiet request list and rename; none dies. *)
LEMMA QuietThread ==
    ASSUME NamesAssumption, NamesInv, NamesTypeOK, NEW r \in Check, QuietNow(r),
           NEW t \in threads, ThreadStep(t)
    PROVE  QuietNow(r)'
<1>1. CASE ThreadSweep(t) \/ ThreadDies(t)
  BY <1>1 DEF ThreadSweep, ThreadDies, QuietNow, AloneThere, OwnThreads
<1>2. /\ ThreadList(t) \/ ThreadRename(t)
      /\ t \in Thread
  BY <1>1 DEF ThreadStep, NamesTypeOK, ThreadSweep, ThreadDies, QuietNow, AloneThere, OwnThreads
<1>3. UNCHANGED <<mains, hidden, parcelName, disturbed>>
  BY <1>2 DEF ThreadList, ThreadRename, names
<1>4. \A v \in threads' : v.check = r
  <2>1. \A l, rest : [t EXCEPT !.step = l, !.left = rest].check = t.check
    BY <1>2 DEF Thread
  <2>2. PICK l, rest : Goes(t, l, rest)
    BY <1>2 DEF ThreadList, ThreadRename
  <2> DEFINE u == [t EXCEPT !.step = l, !.left = rest]
  <2>3. u.check = t.check
    BY <2>1
  <2> HIDE DEF u
  <2>4. threads' \subseteq threads \cup {u}
    BY <2>2 DEF Goes, u
  <2> QED
    BY <2>3, <2>4 DEF QuietNow, AloneThere
<1>5. AloneThere(r)' /\ Stage(r)'
  BY <1>3, <1>4 DEF QuietNow, AloneThere, Stage, mains
<1>6. PackagesDone(r)'
  BY <1>3 DEF QuietNow, PackagesDone, ParcelNames, mains
<1>7. CASE ThreadRename(t)
  BY <1>5, <1>6, <1>7, QuietRename DEF QuietNow
<1>8. CASE ThreadList(t)
  <2> DEFINE found == {itemName[f] : f \in UNION {ItemsIn(p) : p \in ParcelAt(t.dir)}}
             u == [t EXCEPT !.step = "rename", !.left = found]
  <2>1. /\ t.step = "list" /\ itemName' = itemName
        /\ threads' = (threads \ {t}) \cup (IF found = {} THEN {} ELSE {u})
    BY <1>8 DEF ThreadList, Goes, QuietNow, AloneThere, names
  <2>2. u.dir = t.dir /\ u.step = "rename" /\ u.left = found
    BY <1>2 DEF Thread
  <2>3. \A f \in Item : itemName[f] # Gone /\ parcelName[Home[f]] = t.dir => itemName[f] \in found
    BY DEF ItemsIn, ParcelAt, NamesAssumption
  <2>4. ASSUME NEW j \in found PROVE ItemAt(t.dir, j) # {}
    BY DEF ItemAt, ItemsIn
  <2> HIDE DEF found, u
  <2>5. FilesDone(r)'
    <3> SUFFICES ASSUME kind[r] = "files", NEW f \in Item
                 PROVE  \/ Normal(f)
                        \/ parcelName[Home[f]] \in listed[r]
                        \/ \E v \in threads' : Handles(v, f)
      BY <1>3, <2>1 DEF FilesDone, Normal, Handles, mains
    <3>1. ASSUME NEW v \in threads, Handles(v, f), ~Normal(f)
          PROVE  \E w \in threads' : Handles(w, f)
      <4>1. CASE v = t
        BY <4>1, <3>1, <2>1, <2>2, <2>3 DEF Handles, Normal
      <4>2. CASE v # t
        BY <4>2, <3>1, <2>1
      <4> QED
        BY <4>1, <4>2
    <3> QED
      BY <3>1 DEF QuietNow, FilesDone
  <2>6. OwnThreads(r)'
    <3>1. \A v \in threads' : (v \in threads /\ v # t) \/ v = u
      BY <2>1
    <3>2. \A n, j : ItemAt(n, j)' = ItemAt(n, j)
      BY <1>3, <2>1 DEF ItemAt, ParcelAt
    <3>3. \A v, w \in threads' : v.dir = w.dir => v = w
      BY <3>1, <2>2 DEF QuietNow, OwnThreads
    <3>4. \A v \in threads' : v.dir \notin listed'[r] /\ v.step # "sweep"
      BY <3>1, <2>2, <1>3 DEF QuietNow, OwnThreads, mains
    <3>5. \A v \in threads' : v.step = "rename" => \A j \in v.left : ItemAt(v.dir, j)' # {}
      BY <3>1, <3>2, <2>2, <2>4 DEF QuietNow, OwnThreads
    <3> QED
      BY <3>3, <3>4, <3>5 DEF OwnThreads
  <2> QED
    BY <1>5, <1>6, <2>5, <2>6 DEF QuietNow
<1> QED
  BY <1>2, <1>7, <1>8

(* Every step of a quiet request, and its beginning. *)
LEMMA QuietStep ==
    ASSUME NamesAssumption, NamesInv, NamesTypeOK, QuietInv, [NamesNext]_nameVars
    PROVE  QuietInv'
<1>1. CASE UNCHANGED nameVars
  BY <1>1 DEF nameVars, QuietInv, Quiet, QuietNow, AloneThere, Stage, PackagesDone, FilesDone,
              OwnThreads, Normal, Handles, ParcelNames, ItemAt, ParcelAt
<1>2. ASSUME NamesNext, NEW r \in Check, Quiet(r)' PROVE QuietNow(r)'
  <2>1. ASSUME NEW k \in Kind \ {"none"}, BeginCheck(r, k), Busy = {}, hidden = {}
        PROVE  QuietNow(r)'
    <3>1. /\ kind'[r] = k /\ listed'[r] = IF k = "list" THEN {} ELSE ParcelNames
          /\ cpc'[r] = IF k = "files" THEN "turn" ELSE "look"
          /\ \A q \in Check \ {r} : cpc'[q] = cpc[q]
          /\ UNCHANGED <<threads, names>>
      BY <2>1 DEF BeginCheck, GoTo, NamesTypeOK
    <3>2. threads = {} /\ \A q \in Check : cpc[q] = "idle"
      BY <2>1 DEF Busy, Threads, NamesTypeOK, Thread
    <3>3. FilesDone(r)'
      <4> SUFFICES ASSUME k = "files", NEW f \in Item
                   PROVE  Normal(f) \/ parcelName[Home[f]] \in ParcelNames
        BY <3>1 DEF FilesDone, Normal, names
      <4>1. itemName[f] # Gone => parcelName[Home[f]] # Gone
        BY DEF NamesInv, LostOnlyToAlike, ItemsIn, NamesAssumption
      <4> QED
        BY <4>1 DEF Normal, ParcelNames, NamesAssumption
    <3>4. PackagesDone(r)'
      BY <3>1 DEF PackagesDone, ParcelNames, names
    <3>5. AloneThere(r)' /\ Stage(r)' /\ OwnThreads(r)'
      BY <2>1, <3>1, <3>2 DEF AloneThere, Stage, OwnThreads, names
    <3> QED
      BY <3>3, <3>4, <3>5 DEF QuietNow
  <2>2. ASSUME QuietNow(r), Look(r) \/ Sweep(r) PROVE QuietNow(r)'
    <3>1. /\ \/ cpc'[r] \in {"sweep", "turn"}
             \/ cpc'[r] = "answered" /\ kind[r] = "list"
          /\ cpc[r] \in {"look", "sweep"} /\ \A q \in Check \ {r} : cpc'[q] = cpc[q]
          /\ UNCHANGED <<kind, listed, threads, parcelName, itemName, hidden>>
      BY <2>2 DEF Look, Sweep, GoTo, NamesTypeOK, names
    <3> QED
      BY <2>2, <3>1 DEF QuietNow, AloneThere, Stage, PackagesDone, FilesDone, OwnThreads, Normal,
                        Handles, ParcelNames, ItemAt, ParcelAt
  <2>3. ASSUME QuietNow(r), MainList(r) \/ MainSweep(r) \/ EndCheck(r) PROVE QuietNow(r)'
    <3>1. /\ \/ cpc'[r] \in {"main_sweep", "turn"} /\ kind[r] = "files"
             \/ cpc'[r] = "answered" /\ listed[r] = {} /\ Threads(r) = {}
          /\ \A q \in Check \ {r} : cpc'[q] = cpc[q]
          /\ UNCHANGED <<kind, listed, threads, parcelName, itemName>>
          /\ hidden' \subseteq hidden
      BY <2>3 DEF MainList, MainSweep, EndCheck, GoTo, NamesTypeOK, names, QuietNow, Stage
    <3>2. Threads(r) = threads
      BY <2>3 DEF QuietNow, AloneThere, Threads
    <3> QED
      BY <2>3, <3>1, <3>2 DEF QuietNow, AloneThere, Stage, PackagesDone, FilesDone, OwnThreads,
                              Normal, Handles, ParcelNames, ItemAt, ParcelAt
  <2>4. ASSUME QuietNow(r), FileTurn(r) PROVE QuietNow(r)'
    <3>1. PICK n \in listed[r] :
              /\ threads' = threads \cup {[check |-> r, dir |-> n, step |-> "list", left |-> {}]}
              /\ listed' = [listed EXCEPT ![r] = @ \ {n}]
      BY <2>4 DEF FileTurn
    <3>2. /\ cpc'[r] = "main_list" /\ kind[r] = "files" /\ listed'[r] = listed[r] \ {n}
          /\ \A q \in Check \ {r} : cpc'[q] = cpc[q]
          /\ UNCHANGED <<kind, parcelName, itemName, hidden>>
      BY <2>4, <3>1 DEF FileTurn, GoTo, NamesTypeOK, names
    <3> DEFINE u == [check |-> r, dir |-> n, step |-> "list", left |-> {}]
    <3>3. u.check = r /\ u.dir = n /\ u.step = "list" /\ threads' = threads \cup {u}
      BY <3>1
    <3> HIDE DEF u
    <3>4. AloneThere(r)' /\ Stage(r)' /\ PackagesDone(r)'
      BY <2>4, <3>2, <3>3 DEF QuietNow, AloneThere, Stage, PackagesDone
    <3>5. FilesDone(r)'
      BY <2>4, <3>2, <3>3 DEF QuietNow, FilesDone, Normal, Handles
    <3>6. OwnThreads(r)'
      BY <2>4, <3>2, <3>3 DEF QuietNow, OwnThreads, ItemAt, ParcelAt
    <3> QED
      BY <3>4, <3>5, <3>6 DEF QuietNow
  <2> QED
    BY <1>2, <2>1, <2>2, <2>3, <2>4, QuietBefore, QuietPackage, QuietThread
<1> QED
  BY <1>1, <1>2 DEF QuietInv

(* All that the proofs about names keep. *)
LEMMA NamesInvariant ==
    ASSUME NamesAssumption PROVE NamesSpec => [](NamesInv /\ NamesTypeOK /\ QuietInv)
<1>1. NamesInit => NamesTypeOK /\ QuietInv
  BY NamesAssumption DEF NamesAssumption, NamesInit, NamesTypeOK, Kind, CheckLabel, QuietInv, Quiet
<1>2. NamesInv /\ NamesTypeOK /\ QuietInv /\ [NamesNext]_nameVars
          => (NamesTypeOK /\ QuietInv)'
  BY NamesAssumption, NamesTypeStep, QuietStep
<1> QED
  BY <1>1, <1>2, NamesInvHolds, NamesAssumption, PTL DEF NamesSpec

(* The variables of the name checks keep their types, whatever requests,   *)
(* threads and workers do (lib/archivematica_ops.py:501-761).              *)
THEOREM NamesTypeCorrect == ASSUME NamesAssumption PROVE NamesSpec => []NamesTypeOK
BY NamesInvariant, NamesAssumption, PTL

(* A check that is answered and met no other request and no hidden file    *)
(* has normalised all names it is about, for any number of packages, files *)
(* and requests: no thread dies and no name is passed over                 *)
(* (lib/archivematica_ops.py:620 and 670).                                 *)
THEOREM QuietChecksNormalise ==
    ASSUME NamesAssumption PROVE NamesSpec => []AnsweredIsNormal
<1>1. ASSUME NamesTypeOK, QuietInv PROVE AnsweredIsNormal
  <2> SUFFICES ASSUME NEW r \in Check, cpc[r] = "answered", r \notin disturbed
               PROVE  /\ kind[r] = "packages" =>
                            \A n \in ParcelNames : n.dotted \/ Target(n) \in ParcelNames
                      /\ kind[r] = "files" =>
                            \A f \in Item : itemName[f] # Gone => Target(itemName[f]) = itemName[f]
    BY DEF AnsweredIsNormal
  <2>1. QuietNow(r)
    BY <1>1 DEF QuietInv, Quiet
  <2> QED
    BY <2>1 DEF QuietNow, Stage, PackagesDone, FilesDone, Normal
<1> QED
  BY <1>1, NamesInvariant, NamesAssumption, PTL

-----------------------------------------------------------------------------
(* ReadyStage.  Side by side, each part is the component it is made of: a  *)
(* step of another part leaves it as it is.  So the theorems about the     *)
(* components are theorems about their composition.                        *)
THEOREM ReadyPartsApart ==
    ReadySpec => ObjectsSpec /\ NamesSpec /\ FolderSpec /\ ScanSpec
<1>1. ReadyInit => ObjectsInit /\ NamesInit /\ FolderInit /\ ScanInit
  BY DEF ReadyInit
<1>2. ASSUME [ReadyNext]_readyVars
      PROVE  /\ [ObjectsNext]_objectVars /\ [NamesNext]_nameVars
             /\ [FolderNext]_folderVars /\ [ScanNext]_scanVars
  BY <1>2 DEF ReadyNext, readyVars
<1> QED
  BY <1>1, <1>2, PTL DEF ReadySpec, ObjectsSpec, NamesSpec, FolderSpec, ScanSpec

(* All variables of the ready stage keep their types, whichever part moves.*)
THEOREM ReadyTypesCorrect ==
    ASSUME ObjectsAssumption, NamesAssumption, CollectionAssumption, ScanAssumption
    PROVE  ReadySpec => []ReadyTypesOK
<1>1. ObjectsTypeOK /\ NamesTypeOK /\ FolderTypeOK /\ ScanTypeOK => ReadyTypesOK
  BY DEF ReadyTypesOK
<1> QED
  BY <1>1, ReadyPartsApart, ObjectsTypeCorrect, NamesTypeCorrect, FolderTypeCorrect,
     ScanTypeCorrect, ObjectsAssumption, NamesAssumption, CollectionAssumption, ScanAssumption,
     PTL
=============================================================================
