----------------------------- MODULE MCTransfers -----------------------------
(***************************************************************************)
(* Transfers for TLC.                                                      *)
(***************************************************************************)
EXTENDS Transfers, TLC

CONSTANTS c1, c2, c3, k1, k2, mets, pdf, tif, q1, q2, i1, i2

(* Two callers of one worker and one of another.                           *)
MCWorker == c1 :> k1 @@ c2 :> k1 @@ c3 :> k2

(* What an earlier DIP left in Wasabi.                                     *)
MCOlder == [f \in DipFile |-> IF f \in Served THEN "older" ELSE "absent"]

(* A large image and, from another source of the same name, a small one.   *)
MCPieces == i1 :> 2 @@ i2 :> 1

MCInit ==
    /\ component \in {"chunks", "object", "slots", "usage", "dip", "images"}
    /\ IF component = "chunks" THEN chunks \in ChunkCounts /\ checked \in BOOLEAN
       ELSE chunks = 1 /\ checked = TRUE
    /\ IF component = "dip" THEN wasabi \in {Nothing, MCOlder} ELSE wasabi = Nothing
    /\ TransfersInit

MCSpec == MCInit /\ [][TransfersNext]_transferVars /\ TransfersFairness
=============================================================================
