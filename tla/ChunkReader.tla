----------------------------- MODULE ChunkReader -----------------------------
(***************************************************************************)
(* ChunkStreamReader (lib/duracloud_ops.py:209-464): the chunks of an AIP  *)
(* are downloaded one by one into a temporary spool, verified there, and   *)
(* only then served, as one stream, to an upload that reads it in parts    *)
(* (lib/wasabi.py:453-549).  A download may be cut short, corrupted,       *)
(* refused or broken; it is resumed from the byte it stopped at, and a     *)
(* chunk that fails is downloaded again.                                   *)
(*                                                                         *)
(* Sizes are counted in units.  Unit i of the AIP is i; 0 is a wrong one.  *)
(***************************************************************************)
EXTENDS Naturals, Sequences

CONSTANTS
    ChunkSize,        \* units of a chunk
    ChunkCounts,      \* numbers of chunks an AIP may have
    MaxResumes,       \* max_resumes
    MaxChunkRetries,  \* max_chunk_retries
    MaxParts,         \* parts a multipart upload may have (_S3_MAX_PARTS)
    DefaultPart,      \* units of a part by default (_DEFAULT_CHUNKSIZE)
    Grain             \* units that part sizes are rounded to (_MIB)

ASSUME ChunkAssumption ==
    /\ ChunkSize \in Nat \ {0} /\ ChunkCounts \subseteq Nat \ {0}
    /\ MaxResumes \in Nat /\ MaxChunkRetries \in Nat \ {0}
    /\ MaxParts \in Nat \ {0} /\ DefaultPart \in Nat \ {0} /\ Grain \in Nat \ {0}

VARIABLES
    chunks,       \* how many chunks the AIP has
    checked,      \* are there MD5s (a manifest), or only a size?
    rpc,          \* program point of the reader
    chunkIndex,   \* the chunk at hand, from 1
    buffer,       \* what is left of the verified chunk
    spool,        \* the chunk being downloaded
    resumes,      \* resumes in this download
    attempt,      \* downloads of this chunk, this one included
    part,         \* units the read call at hand has
    parts,        \* the lengths of the parts handed over
    delivered     \* the units handed over, the call at hand included

aip == <<chunks, checked>>
chunkVars == <<chunks, checked, rpc, chunkIndex, buffer, spool, resumes, attempt, part,
               parts, delivered>>

Bytes == chunks * ChunkSize

CeilDiv(x, y) == (x + y - 1) \div y

(* Mutant: the share of a part is rounded down.                            *)
PartSizeFloor(n) ==
    LET least == n \div MaxParts
    IN  (CeilDiv(IF least > DefaultPart THEN least ELSE DefaultPart, Grain)) * Grain

(* _transfer_config_for.                                                   *)
PartSize(n) ==
    LET least == CeilDiv(n, MaxParts)
    IN  (CeilDiv(IF least > DefaultPart THEN least ELSE DefaultPart, Grain)) * Grain

ChunkInit ==
    /\ chunks \in ChunkCounts
    /\ checked \in BOOLEAN
    /\ checked \/ chunks = 1
    /\ rpc = "read"
    /\ chunkIndex = 0
    /\ buffer = <<>>
    /\ spool = <<>>
    /\ resumes = 0
    /\ attempt = 0
    /\ part = 0
    /\ parts = <<>>
    /\ delivered = <<>>

Reader(l) == rpc' = l
NewDownload == spool' = <<>> /\ resumes' = 0

-----------------------------------------------------------------------------
(* read(size) takes what the buffer has, up to the part.                   *)
TakeFrom(n) ==
    /\ buffer' = SubSeq(buffer, n + 1, Len(buffer))
    /\ delivered' = delivered \o SubSeq(buffer, 1, n)
    /\ part' = part + n
ReadBuffer ==
    /\ rpc = "read" /\ buffer # <<>> /\ part < PartSize(Bytes)
    /\ LET room == PartSize(Bytes) - part
       IN  TakeFrom(IF room < Len(buffer) THEN room ELSE Len(buffer))
    /\ UNCHANGED <<aip, rpc, chunkIndex, spool, resumes, attempt, parts>>

(* A read returns when the part is full, or at the end of the last chunk.  *)
FullPart ==
    /\ rpc = "read" /\ part = PartSize(Bytes)
    /\ parts' = Append(parts, part)
    /\ part' = 0
    /\ UNCHANGED <<aip, rpc, chunkIndex, buffer, spool, resumes, attempt, delivered>>

(* _load_next_chunk.                                                       *)
LoadNextChunk ==
    /\ rpc = "read" /\ buffer = <<>> /\ part < PartSize(Bytes) /\ chunkIndex < chunks
    /\ chunkIndex' = chunkIndex + 1
    /\ attempt' = 1
    /\ NewDownload
    /\ Reader("open")
    /\ UNCHANGED <<aip, buffer, part, parts, delivered>>
LastPart ==
    /\ rpc = "read" /\ buffer = <<>> /\ part < PartSize(Bytes) /\ chunkIndex = chunks
    /\ parts' = IF part = 0 THEN parts ELSE Append(parts, part)
    /\ part' = 0
    /\ Reader("eof")
    /\ UNCHANGED <<aip, chunkIndex, buffer, spool, resumes, attempt, delivered>>

(* Mutant: a chunk that keeps failing is downloaded for ever.              *)
DownloadFailsForEver ==
    /\ NewDownload /\ Reader("open")
    /\ UNCHANGED <<aip, chunkIndex, buffer, attempt, part, parts, delivered>>

(* Mutant: one download more than the retries allow.                       *)
DownloadFailsOnceMore ==
    /\ NewDownload
    /\ IF attempt <= MaxChunkRetries THEN attempt' = attempt + 1 /\ Reader("open")
       ELSE Reader("failed") /\ UNCHANGED attempt
    /\ UNCHANGED <<aip, chunkIndex, buffer, part, parts, delivered>>

(* A download that failed is started again, up to the retries.             *)
DownloadFails ==
    /\ NewDownload
    /\ IF attempt < MaxChunkRetries THEN attempt' = attempt + 1 /\ Reader("open")
       ELSE Reader("failed") /\ UNCHANGED attempt
    /\ UNCHANGED <<aip, chunkIndex, buffer, part, parts, delivered>>

(* _open_dc_stream: a GET from the end of the spool; a status, a range or  *)
(* an encoding other than the one asked for is refused.                    *)
OpenStream ==
    /\ rpc = "open"
    /\ Reader("stream")
    /\ UNCHANGED <<aip, chunkIndex, buffer, spool, resumes, attempt, part, parts, delivered>>
OpenFails == rpc = "open" /\ DownloadFails

(* The stream has another unit, right or wrong (or beyond the end).        *)
StreamUnit ==
    /\ rpc = "stream" /\ Len(spool) <= ChunkSize
    /\ \E good \in BOOLEAN :
          spool' = Append(spool, IF good /\ Len(spool) < ChunkSize
                                 THEN (chunkIndex - 1) * ChunkSize + Len(spool) + 1 ELSE 0)
    /\ UNCHANGED <<aip, rpc, chunkIndex, buffer, resumes, attempt, part, parts, delivered>>

(* An exception of urllib3 is none of those that are caught.               *)
StreamBreaks ==
    /\ rpc = "stream"
    /\ Reader("failed")
    /\ UNCHANGED <<aip, chunkIndex, buffer, spool, resumes, attempt, part, parts, delivered>>

(* The stream ends: short of the size it is resumed, up to the budget.     *)
Resume ==
    /\ rpc = "stream" /\ Len(spool) < ChunkSize /\ resumes < MaxResumes
    /\ resumes' = resumes + 1
    /\ Reader("open")
    /\ UNCHANGED <<aip, chunkIndex, buffer, spool, attempt, part, parts, delivered>>
StreamEnds ==
    /\ rpc = "stream" /\ (Len(spool) < ChunkSize => resumes = MaxResumes)
    /\ Reader("verify")
    /\ UNCHANGED <<aip, chunkIndex, buffer, spool, resumes, attempt, part, parts, delivered>>

(* Mutant: only the size of a chunk is compared.                           *)
ChunkPassesSizeOnly == Len(spool) = ChunkSize

(* The byte count, and the MD5 if there is one.                            *)
DigestAgrees(bytes) == checked => \A i \in DOMAIN bytes : bytes[i] # 0
ChunkPasses == Len(spool) = ChunkSize /\ DigestAgrees(spool)
VerifyChunk ==
    /\ rpc = "verify" /\ ChunkPasses
    /\ buffer' = spool
    /\ NewDownload
    /\ Reader("read")
    /\ UNCHANGED <<aip, chunkIndex, attempt, part, parts, delivered>>
ChunkIsWrong == rpc = "verify" /\ ~ChunkPasses /\ DownloadFails

(* verify_total, or the size of a single object.                           *)
VerifyTotal ==
    /\ rpc = "eof"
    /\ Reader(IF Len(delivered) = Bytes /\ DigestAgrees(delivered) THEN "complete" ELSE "failed")
    /\ UNCHANGED <<aip, chunkIndex, buffer, spool, resumes, attempt, part, parts, delivered>>

ChunkNext ==
    \/ ReadBuffer \/ FullPart \/ LoadNextChunk \/ LastPart
    \/ OpenStream \/ OpenFails \/ StreamUnit \/ StreamBreaks \/ Resume \/ StreamEnds
    \/ VerifyChunk \/ ChunkIsWrong \/ VerifyTotal
ChunkFairness == WF_chunkVars(ChunkNext)
ChunkSpec == ChunkInit /\ [][ChunkNext]_chunkVars /\ ChunkFairness

-----------------------------------------------------------------------------
(* The types of all variables.                                             *)
ChunkTypeOK ==
    /\ chunks \in ChunkCounts
    /\ checked \in BOOLEAN
    /\ rpc \in {"read", "open", "stream", "verify", "eof", "complete", "failed"}
    /\ chunkIndex \in 0..chunks
    /\ buffer \in Seq(0..Bytes) /\ spool \in Seq(0..Bytes) /\ delivered \in Seq(0..Bytes)
    /\ resumes \in 0..MaxResumes
    /\ attempt \in 0..MaxChunkRetries
    /\ part \in 0..PartSize(Bytes)
    /\ parts \in Seq(1..PartSize(Bytes))

(* Whatever is cut, corrupted, refused, resumed and downloaded again, the  *)
(* reader is a VerifiedStream: of an AIP with a manifest it hands over the *)
(* AIP's own bytes, of one without at least the right number (:213-238).   *)
Positions == [i \in DOMAIN delivered |-> IF checked THEN delivered[i] ELSE i]
Verified == INSTANCE VerifiedStream WITH
                Total <- Bytes, out <- Positions,
                end <- IF rpc \in {"complete", "failed"} THEN rpc ELSE "open"
ChunksVerified == Verified!StreamSpec

(* Every part but the last is full although chunks end anywhere, and there *)
(* are never more of them than S3 accepts (:263-271, lib/wasabi.py:453-463).*)
PartsFit ==
    /\ Len(parts) <= MaxParts
    /\ \A i \in DOMAIN parts : i < Len(parts) \/ rpc \notin {"eof", "complete"}
                                  => parts[i] = PartSize(Bytes)

(* Retries and resumes are bounded: the upload gets its end.               *)
ChunkStreamEnds == <>(rpc \in {"complete", "failed"})
=============================================================================
