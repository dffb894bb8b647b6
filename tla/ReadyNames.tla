----------------------------- MODULE ReadyNames -----------------------------
(***************************************************************************)
(* Quality assurance of a batch folder 001-ready/<folder>: requests sweep  *)
(* hidden files away and normalise the names of packages and files         *)
(* (lib/archivematica_ops.py:501-761, routes/qa.py).  Requests are served  *)
(* by different workers, the names of the files of each package by a       *)
(* thread of its own, and nothing is locked: a directory is listed, and    *)
(* then each name is taken for granted.                                    *)
(***************************************************************************)
EXTENDS Naturals, FiniteSets

CONSTANTS
    Check,        \* requests (a slot is used again when all of it has ended)
    Parcel,       \* package directories
    Item,         \* files
    Home,         \* the package of each file
    NameStart,    \* the names packages and files may have at first
    Gone,         \* "has no name any more"
    MaxHidden     \* bound on the hidden files left in packages

(* A name, by what the normalisation tells apart.                          *)
Name == [word : {"a", "b"}, upper : BOOLEAN, spaced : BOOLEAN, dotted : BOOLEAN]

ASSUME NamesAssumption ==
    /\ Home \in [Item -> Parcel]
    /\ Gone \notin Name
    /\ MaxHidden \in Nat
    /\ \A start \in NameStart :
          /\ start.parcel \in [Parcel -> Name] /\ start.item \in [Item -> Name]
          /\ \A p, q \in Parcel : start.parcel[p] = start.parcel[q] => p = q
          /\ \A f, g \in Item : Home[f] = Home[g] /\ start.item[f] = start.item[g] => f = g

VARIABLES
    original,     \* the names before any request
    parcelName,   \* the name of each package directory
    itemName,     \* the name of each file
    hidden,       \* packages that hold a hidden file
    junk,         \* does the batch folder itself hold a hidden file?
    kind, cpc,    \* per request: what it does, and its program point
    listed,       \* per request: listed packages it has not come to
    at,           \* per request: the package its main thread looks into
    seen,         \* per request: was a hidden file listed?
    threads,      \* threads of file checks, with the names they have not come to
    dropped,      \* hidden files left in packages so far
    disturbed     \* history: requests that met another one or a hidden file

names == <<original, parcelName, itemName, hidden, junk, dropped>>
mains == <<kind, cpc, listed, at, seen>>
nameVars == <<original, parcelName, itemName, hidden, junk, kind, cpc, listed, at, seen,
              threads, dropped, disturbed>>

Kind == {"none", "packages", "files", "list"}
CheckLabel == {"idle", "look", "sweep", "turn", "main_list", "main_sweep", "answered"}
Thread == [check : Check, dir : Name, step : {"list", "sweep", "rename"}, left : SUBSET Name]

NamesInit ==
    /\ \E start \in NameStart :
          /\ original = start
          /\ parcelName = start.parcel
          /\ itemName = start.item
    /\ hidden = {}
    /\ junk = TRUE
    /\ kind = [r \in Check |-> "none"]
    /\ cpc = [r \in Check |-> "idle"]
    /\ listed = [r \in Check |-> {}]
    /\ at = [r \in Check |-> Gone]
    /\ seen = [r \in Check |-> FALSE]
    /\ threads = {}
    /\ dropped = 0
    /\ disturbed = {}

-----------------------------------------------------------------------------
(* Mutant: every name is lower-cased.                                      *)
TargetLower(n) == [n EXCEPT !.spaced = FALSE, !.upper = FALSE]

(* The name a file gets: a name with a dot loses its blanks only.          *)
Target(n) == [n EXCEPT !.spaced = FALSE, !.upper = @ /\ n.dotted]

(* The directory and the file of a name, and the names in a directory.     *)
ParcelAt(n) == {p \in Parcel : parcelName[p] = n}
ItemsIn(p) == {f \in Item : Home[f] = p /\ itemName[f] # Gone}
ItemAt(n, j) == {f \in Item : Home[f] \in ParcelAt(n) /\ itemName[f] = j}
ParcelNames == {parcelName[p] : p \in Parcel} \ {Gone}

(* os.rename of a directory: onto a directory that holds something it      *)
(* fails, onto an empty one it replaces it.                                *)
RenameParcel(n) ==
    LET t == Target(n)
        full == \E q \in ParcelAt(t) : ItemsIn(q) # {} \/ q \in hidden
    IN  parcelName' = IF n.dotted \/ t = n \/ full \/ ParcelAt(n) = {} THEN parcelName
                      ELSE [p \in Parcel |-> IF parcelName[p] = t THEN Gone
                                             ELSE IF parcelName[p] = n THEN t
                                             ELSE parcelName[p]]

(* os.rename of a file takes the place of a file that has the name.        *)
RenameItem(n, j) ==
    LET t == Target(j)
    IN  itemName' = IF t = j THEN itemName
                    ELSE [f \in Item |-> IF f \in ItemAt(n, j) THEN t
                                         ELSE IF f \in ItemAt(n, t) THEN Gone
                                         ELSE itemName[f]]

(* Requests that are not over: a thread may outlive the request.           *)
Threads(r) == {t \in threads : t.check = r}
Busy == {r \in Check : cpc[r] # "idle" \/ Threads(r) # {}}

GoTo(r, l) == cpc' = [cpc EXCEPT ![r] = l]

(* An exception in the main thread: the request ends with status 500, and  *)
(* its threads go on.                                                      *)
Raise(r) ==
    /\ GoTo(r, "idle")
    /\ kind' = [kind EXCEPT ![r] = "none"]
    /\ listed' = [listed EXCEPT ![r] = {}]
    /\ at' = [at EXCEPT ![r] = Gone]
    /\ seen' = [seen EXCEPT ![r] = FALSE]
    /\ disturbed' = disturbed \ {r}

-----------------------------------------------------------------------------
(* The three requests that change names or sweep.  check_package_names and *)
(* check_file_names list the packages at once, get_package_names after it  *)
(* has swept the batch folder.                                             *)
BeginCheck(r, k) ==
    /\ r \notin Busy
    /\ kind' = [kind EXCEPT ![r] = k]
    /\ listed' = [listed EXCEPT ![r] = IF k = "list" THEN {} ELSE ParcelNames]
    /\ GoTo(r, IF k = "files" THEN "turn" ELSE "look")
    /\ disturbed' = (disturbed \ {r}) \cup (IF Busy # {} THEN Busy \cup {r} ELSE {})
                       \cup (IF hidden # {} THEN {r} ELSE {})
    /\ UNCHANGED <<at, seen, threads, names>>

(* Hidden files of the batch folder: listed, then removed.                 *)
Look(r) ==
    /\ cpc[r] = "look"
    /\ seen' = [seen EXCEPT ![r] = junk]
    /\ GoTo(r, "sweep")
    /\ UNCHANGED <<kind, listed, at, threads, names, disturbed>>
Sweep(r) ==
    /\ cpc[r] = "sweep"
    /\ seen[r] => junk
    /\ junk' = (junk /\ ~seen[r])
    /\ seen' = [seen EXCEPT ![r] = FALSE]
    /\ GoTo(r, IF kind[r] = "list" THEN "answered" ELSE "turn")
    /\ UNCHANGED <<kind, listed, at, threads, original, parcelName, itemName, hidden, dropped, disturbed>>

(* Another request has removed it first: os.remove raises.                 *)
SweepRaises(r) ==
    /\ cpc[r] = "sweep" /\ seen[r] /\ ~junk
    /\ Raise(r)
    /\ UNCHANGED <<threads, names>>

(* check_package_names: a thread per package, joined before the next one   *)
(* starts; an exception in it is lost.                                     *)
PackageTurn(r) ==
    /\ cpc[r] = "turn" /\ kind[r] = "packages"
    /\ \E n \in listed[r] :
          /\ RenameParcel(n)
          /\ listed' = [listed EXCEPT ![r] = @ \ {n}]
    /\ UNCHANGED <<kind, cpc, at, seen, threads, original, itemName, hidden, junk, dropped, disturbed>>

(* check_file_names starts the thread of a package, and looks into the     *)
(* package itself meanwhile.                                               *)
FileTurn(r) ==
    /\ cpc[r] = "turn" /\ kind[r] = "files"
    /\ \E n \in listed[r] :
          /\ threads' = threads \cup {[check |-> r, dir |-> n, step |-> "list", left |-> {}]}
          /\ listed' = [listed EXCEPT ![r] = @ \ {n}]
          /\ at' = [at EXCEPT ![r] = n]
    /\ GoTo(r, "main_list")
    /\ UNCHANGED <<kind, seen, names, disturbed>>
MainList(r) ==
    /\ cpc[r] = "main_list" /\ ParcelAt(at[r]) # {}
    /\ seen' = [seen EXCEPT ![r] = ParcelAt(at[r]) \cap hidden # {}]
    /\ GoTo(r, "main_sweep")
    /\ UNCHANGED <<kind, listed, at, threads, names, disturbed>>
MainSweep(r) ==
    /\ cpc[r] = "main_sweep"
    /\ seen[r] => ParcelAt(at[r]) \cap hidden # {}
    /\ hidden' = IF seen[r] THEN hidden \ ParcelAt(at[r]) ELSE hidden
    /\ seen' = [seen EXCEPT ![r] = FALSE]
    /\ at' = [at EXCEPT ![r] = Gone]
    /\ GoTo(r, "turn")
    /\ UNCHANGED <<kind, listed, threads, original, parcelName, itemName, junk, dropped, disturbed>>

(* The package has been renamed, or the hidden file removed, its own       *)
(* thread included.                                                        *)
MainRaises(r) ==
    /\ \/ cpc[r] = "main_list" /\ ParcelAt(at[r]) = {}
       \/ cpc[r] = "main_sweep" /\ seen[r] /\ ParcelAt(at[r]) \cap hidden = {}
    /\ Raise(r)
    /\ UNCHANGED <<threads, names>>

(* Mutant: the main thread does not wait for the others.                   *)
EndCheckUnjoined(r) ==
    /\ cpc[r] = "turn" /\ listed[r] = {}
    /\ GoTo(r, "answered")
    /\ UNCHANGED <<kind, listed, at, seen, threads, names, disturbed>>

(* All packages done and all threads joined: the request is answered.      *)
EndCheck(r) ==
    /\ cpc[r] = "turn" /\ listed[r] = {} /\ Threads(r) = {}
    /\ GoTo(r, "answered")
    /\ UNCHANGED <<kind, listed, at, seen, threads, names, disturbed>>
Answered(r) ==
    /\ cpc[r] = "answered"
    /\ Raise(r)
    /\ UNCHANGED <<threads, names>>

(* check_file_names_threads lists the files, removes the hidden ones and   *)
(* renames the others one by one.  An exception ends the thread, unheard.  *)
Goes(t, l, rest) ==
    threads' = (threads \ {t}) \cup
                  (IF l = "rename" /\ rest = {} THEN {} ELSE {[t EXCEPT !.step = l, !.left = rest]})
ThreadList(t) ==
    /\ t.step = "list"
    /\ Goes(t, IF ParcelAt(t.dir) \cap hidden # {} THEN "sweep" ELSE "rename",
            {itemName[f] : f \in UNION {ItemsIn(p) : p \in ParcelAt(t.dir)}})
    /\ UNCHANGED <<mains, names, disturbed>>
ThreadSweep(t) ==
    /\ t.step = "sweep" /\ ParcelAt(t.dir) \cap hidden # {}
    /\ hidden' = hidden \ ParcelAt(t.dir)
    /\ Goes(t, "rename", t.left)
    /\ UNCHANGED <<mains, original, parcelName, itemName, junk, dropped, disturbed>>
ThreadRename(t) ==
    /\ t.step = "rename"
    /\ \E j \in t.left :
          /\ ItemAt(t.dir, j) # {}
          /\ RenameItem(t.dir, j)
          /\ Goes(t, "rename", t.left \ {j})
    /\ UNCHANGED <<mains, original, parcelName, hidden, junk, dropped, disturbed>>
ThreadDies(t) ==
    /\ \/ t.step = "sweep" /\ ParcelAt(t.dir) \cap hidden = {}
       \/ t.step = "rename" /\ \E j \in t.left : ItemAt(t.dir, j) = {}
    /\ threads' = threads \ {t}
    /\ UNCHANGED <<mains, names, disturbed>>

(* A worker is killed, and its threads with it.                            *)
KillCheck(r) ==
    /\ r \in Busy
    /\ Raise(r)
    /\ threads' = threads \ Threads(r)
    /\ UNCHANGED names

(* A workstation leaves a hidden file in a package.  Bound: between        *)
(* requests, MaxHidden times.                                              *)
HiddenAppears(p) ==
    /\ Busy = {} /\ parcelName[p] # Gone
    /\ dropped < MaxHidden /\ dropped' = dropped + 1
    /\ hidden' = hidden \cup {p}
    /\ UNCHANGED <<mains, threads, original, parcelName, itemName, junk, disturbed>>

-----------------------------------------------------------------------------
CheckStep(r) ==
    \/ \E k \in Kind \ {"none"} : BeginCheck(r, k)
    \/ Look(r) \/ Sweep(r) \/ SweepRaises(r)
    \/ PackageTurn(r) \/ FileTurn(r) \/ MainList(r) \/ MainSweep(r) \/ MainRaises(r)
    \/ EndCheck(r) \/ Answered(r) \/ KillCheck(r)
ThreadStep(t) == ThreadList(t) \/ ThreadSweep(t) \/ ThreadRename(t) \/ ThreadDies(t)

NamesNext ==
    \/ \E r \in Check : CheckStep(r)
    \/ \E t \in threads : ThreadStep(t)
    \/ \E p \in Parcel : HiddenAppears(p)
NamesSpec == NamesInit /\ [][NamesNext]_nameVars

-----------------------------------------------------------------------------
(* The types of all variables.                                             *)
NamesTypeOK ==
    /\ parcelName \in [Parcel -> Name \cup {Gone}]
    /\ itemName \in [Item -> Name \cup {Gone}]
    /\ hidden \subseteq {p \in Parcel : parcelName[p] # Gone}
    /\ junk \in BOOLEAN
    /\ kind \in [Check -> Kind]
    /\ cpc \in [Check -> CheckLabel]
    /\ listed \in [Check -> SUBSET Name]
    /\ at \in [Check -> Name \cup {Gone}]
    /\ seen \in [Check -> BOOLEAN]
    /\ threads \subseteq Thread
    /\ dropped \in 0..MaxHidden
    /\ disturbed \subseteq Check

(* Names that differ in blanks only, or, without a dot, also in case.      *)
Alike(m, n) ==
    /\ m.word = n.word /\ m.dotted = n.dotted
    /\ m.dotted => m.upper = n.upper

(* Whatever requests and threads interleave, die or are killed: no         *)
(* directory that holds files goes, two directories or two files of one    *)
(* package never share a name, and a file is lost only to one of the same  *)
(* package that had its name but for blanks and, without a dot, case       *)
(* (lib/archivematica_ops.py:744-749).                                     *)
LostOnlyToAlike ==
    /\ \A p, q \in Parcel : parcelName[p] = parcelName[q] /\ p # q => parcelName[p] = Gone
    /\ \A p \in Parcel : parcelName[p] = Gone => ItemsIn(p) = {}
    /\ \A f, g \in Item : Home[f] = Home[g] /\ itemName[f] = itemName[g] /\ f # g
                             => itemName[f] = Gone
    /\ \A f \in Item : itemName[f] = Gone =>
          \E g \in Item : /\ Home[g] = Home[f] /\ itemName[g] # Gone
                          /\ Alike(original.item[f], original.item[g])

(* A check that is answered and met no other request and no hidden file    *)
(* has normalised every name it is about, except that a package stays      *)
(* whose new name another one has (:620 and :670, "fixes case issues and   *)
(* removes spaces").                                                       *)
AnsweredIsNormal ==
    \A r \in Check : cpc[r] = "answered" /\ r \notin disturbed =>
       /\ kind[r] = "packages" => \A n \in ParcelNames : n.dotted \/ Target(n) \in ParcelNames
       /\ kind[r] = "files" => \A f \in Item : itemName[f] # Gone => Target(itemName[f]) = itemName[f]

-----------------------------------------------------------------------------
(* What the code does not keep (see the README).                           *)

(* A file check that is answered although a thread lost the race for a     *)
(* hidden file (:706-708, :735) has not normalised its package.            *)
AnsweredIsNormalAlways ==
    \A r \in Check : cpc[r] = "answered" /\ kind[r] = "files" =>
        \A f \in Item : itemName[f] # Gone => Target(itemName[f]) = itemName[f]

(* Names that become the same: one file overwrites the other (:749).       *)
NothingLost == \A f \in Item : itemName[f] # Gone
=============================================================================
