--------------------------- MODULE CollectionFile ---------------------------
(***************************************************************************)
(* The file 'collection' in the service's directory.  A client names its   *)
(* batch folder with set-collection-folder; its later move-to-ingested may *)
(* say 'collection' instead of a folder (lib/archivematica_ops.py:545-576, *)
(* routes/qa.py:42-49 and 321-340).  There is one file for all clients.    *)
(***************************************************************************)
CONSTANTS
    Client,       \* clients, each with a batch folder of its own
    Empty,        \* the file holds nothing
    Mixture       \* the file holds parts of two names

ASSUME CollectionAssumption == Empty \notin Client /\ Mixture \notin Client

VARIABLES
    collection,   \* whose folder name the file holds
    client,       \* how far each client has come
    overtaken     \* history: clients that another one met on the way

folderVars == <<collection, client, overtaken>>

FolderInit ==
    /\ collection = Empty
    /\ client = [c \in Client |-> "away"]
    /\ overtaken = {}

Comes(c, l) == client' = [client EXCEPT ![c] = l]

(* set_collection_folder_name: open(.., 'w+') truncates the file; the name *)
(* is written when the file object is dropped.                             *)
OpenCollection(c) ==
    /\ client[c] = "away"
    /\ collection' = Empty
    /\ Comes(c, "opened")
    /\ overtaken' = (overtaken \ {c}) \cup {q \in Client : client[q] \in {"opened", "set"}}
                       \cup (IF \E q \in Client : client[q] = "opened" THEN {c} ELSE {})

(* Mutant: the name is appended to what the file holds.                    *)
WriteCollectionAfter(c) ==
    /\ client[c] = "opened"
    /\ collection' = Mixture
    /\ Comes(c, "set")
    /\ UNCHANGED overtaken

(* Both writers start at the beginning of the file: what the first wrote   *)
(* beyond the end of the second name stays.                                *)
WriteCollection(c) ==
    /\ client[c] = "opened"
    /\ collection' \in {c} \cup (IF collection = Empty THEN {} ELSE {Mixture})
    /\ Comes(c, "set")
    /\ UNCHANGED overtaken

(* The sentinel is resolved; a blank name is refused with status 400.      *)
ReadCollection(c) ==
    /\ client[c] = "set"
    /\ Comes(c, IF collection = c THEN "own" ELSE IF collection = Empty THEN "refused" ELSE "foreign")
    /\ UNCHANGED <<collection, overtaken>>

(* A client that has its answer, or whose worker was killed between the    *)
(* two steps, starts again.                                                *)
StartAgain(c) ==
    /\ client[c] \notin {"away", "set"}
    /\ Comes(c, "away")
    /\ UNCHANGED <<collection, overtaken>>

FolderNext ==
    \E c \in Client : OpenCollection(c) \/ WriteCollection(c) \/ ReadCollection(c) \/ StartAgain(c)
FolderSpec == FolderInit /\ [][FolderNext]_folderVars

-----------------------------------------------------------------------------
(* The types of all variables.                                             *)
FolderTypeOK ==
    /\ collection \in Client \cup {Empty, Mixture}
    /\ client \in [Client -> {"away", "opened", "set", "own", "refused", "foreign"}]
    /\ overtaken \subseteq Client

(* The sentinel stands for the folder the client itself has set, whatever  *)
(* is killed, unless another client had the file open in between           *)
(* (lib/archivematica_ops.py:552-554, routes/qa.py:326-328).               *)
SentinelIsOwn ==
    \A c \in Client : client[c] \in {"foreign", "refused"} => c \in overtaken

-----------------------------------------------------------------------------
(* What the code does not keep (see the README): two clients cross, and    *)
(* one archives into the other's folder.                                   *)
SentinelIsOwnAlways == \A c \in Client : client[c] # "foreign"
=============================================================================
