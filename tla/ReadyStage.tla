------------------------------ MODULE ReadyStage ------------------------------
(***************************************************************************)
(* The work on a batch before it is packaged: Make Digital Objects, the    *)
(* name checks of the ready stage, the file 'collection' and the batch     *)
(* views.  They share no state, so they are composed side by side: "part"  *)
(* says which of them a behaviour is about, and the variables of the       *)
(* others stay as they are.                                                *)
(***************************************************************************)
EXTENDS DigitalObjects, ReadyNames, CollectionFile, BatchScan

VARIABLE part

readyVars == <<objectVars, nameVars, folderVars, scanVars, part>>

ReadyInit ==
    /\ part \in {"objects", "names", "folder", "scan"}
    /\ ObjectsInit /\ NamesInit /\ FolderInit /\ ScanInit

ReadyNext ==
    /\ UNCHANGED part
    /\ \/ part = "objects" /\ ObjectsNext /\ UNCHANGED <<nameVars, folderVars, scanVars>>
       \/ part = "names" /\ NamesNext /\ UNCHANGED <<objectVars, folderVars, scanVars>>
       \/ part = "folder" /\ FolderNext /\ UNCHANGED <<objectVars, nameVars, scanVars>>
       \/ part = "scan" /\ ScanNext /\ UNCHANGED <<objectVars, nameVars, folderVars>>

ReadySpec == ReadyInit /\ [][ReadyNext]_readyVars

-----------------------------------------------------------------------------
(* The types of the variables of each part.                                *)
ReadyTypesOK ==
    /\ part = "objects" => ObjectsTypeOK
    /\ part = "names" => NamesTypeOK
    /\ part = "folder" => FolderTypeOK
    /\ part = "scan" => ScanTypeOK
=============================================================================
