------------------------------- MODULE Transfers -------------------------------
(***************************************************************************)
(* What moves bytes besides the SFTP upload and the AIP copy: the two      *)
(* verified readers, the SFTP session slots, the DIP copy, the cache of    *)
(* the buckets' usage and the derivative images.  They share no state, so  *)
(* they are composed side by side: "component" says which of them a        *)
(* behaviour is about; the variables of the others stay as they are.       *)
(***************************************************************************)
EXTENDS ChunkReader, DcpReader, SftpSlots, UsageCache, DipCopy, Derivatives

VARIABLE component

transferVars ==
    <<chunkVars, dcpReaderVars, slotVars, usageVars, dipVars, derivativeVars, component>>

TransfersInit ==
    /\ component \in {"chunks", "object", "slots", "usage", "dip", "images"}
    /\ ChunkInit /\ DcpInit /\ SlotsInit /\ UsageInit /\ DipInit /\ DerivativeInit

Chunks == component = "chunks" /\ ChunkNext
                /\ UNCHANGED <<dcpReaderVars, slotVars, usageVars, dipVars>>
                /\ UNCHANGED <<derivativeVars, component>>
DcpObject(A) == component = "object" /\ A
                /\ UNCHANGED <<chunkVars, slotVars, usageVars, dipVars, derivativeVars, component>>
Slots(A) == component = "slots" /\ A
                /\ UNCHANGED <<chunkVars, dcpReaderVars, usageVars, dipVars>>
                /\ UNCHANGED <<derivativeVars, component>>
Usage(A) == component = "usage" /\ A
                /\ UNCHANGED <<chunkVars, dcpReaderVars, slotVars, dipVars>>
                /\ UNCHANGED <<derivativeVars, component>>
Dips == component = "dip" /\ DipNext
                /\ UNCHANGED <<chunkVars, dcpReaderVars, slotVars, usageVars>>
                /\ UNCHANGED <<derivativeVars, component>>
Images == component = "images" /\ DerivativeNext
                /\ UNCHANGED <<chunkVars, dcpReaderVars, slotVars, usageVars, dipVars, component>>

TransfersNext ==
    Chunks \/ DcpObject(DcpNext) \/ Slots(SlotsNext) \/ Usage(UsageNext) \/ Dips \/ Images

(* The fairness of each, of its own steps.                                 *)
TransfersFairness ==
    /\ WF_transferVars(Chunks)
    /\ WF_transferVars(DcpObject(DcpStep))
    /\ \A c \in Caller :
          WF_transferVars(Slots(SlotWait(c))) /\ WF_transferVars(Slots(Deadline(c)))
    /\ \A r \in Poll : WF_transferVars(Usage(PollStep(r)))
    /\ \A w \in Walk : WF_transferVars(Usage(WalkStep(w)))
    /\ WF_transferVars(Usage(MarkerAges))

TransfersSpec == TransfersInit /\ [][TransfersNext]_transferVars /\ TransfersFairness

-----------------------------------------------------------------------------
(* The types of the variables of each.                                     *)
TransferTypesOK ==
    /\ component = "chunks" => ChunkTypeOK
    /\ component = "object" => DcpTypeOK
    /\ component = "slots" => SlotsTypeOK
    /\ component = "usage" => UsageTypeOK
    /\ component = "dip" => DipTypeOK
    /\ component = "images" => DerivativeTypeOK

(* Nothing hangs: a reader, retrying and resuming, comes to an end; a      *)
(* caller gets an SFTP session or is refused one; an unusable cache is     *)
(* computed again.                                                         *)
TransfersEnd ==
    /\ component = "chunks" => ChunkStreamEnds
    /\ component = "object" => DcpStreamEnds
    /\ component = "slots" => SlotWaitEnds
    /\ component = "usage" => CacheRefreshed
=============================================================================
