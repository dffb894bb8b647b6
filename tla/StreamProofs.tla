---------------------------- MODULE StreamProofs ----------------------------
(***************************************************************************)
(* Proofs about what is copied byte by byte: that both readers are         *)
(* VerifiedStreams, for objects, chunks and budgets of any size, that a    *)
(* DIP reported as copied is there, for any files and requests, and about  *)
(* all transfers side by side.                                             *)
(***************************************************************************)
EXTENDS Transfers, HostProofs, SequenceTheorems, TLAPS

-----------------------------------------------------------------------------
(* DcpReader.  What it has handed over are the first bytes of the object   *)
(* it opened first, which every stream it opens is pinned to.              *)
DcpInv ==
    /\ DcpTypeOK
    /\ source = etag
    /\ Len(received) <= ObjectSize
    /\ \A i \in 1..Len(received) : received[i] = <<etag, i>>
    /\ dpc = "complete" => Len(received) = ObjectSize

(* Every step keeps that. *)
LEMMA DcpInvStep ==
    ASSUME DcpAssumption, DcpInv, [DcpNext]_dcpReaderVars PROVE DcpInv'
<1> USE DcpAssumption DEF DcpAssumption, DcpTypeOK, DcpInv
<1>1. CASE ReadBody
  <2>1. /\ Len(received) \in Nat /\ Len(received) + 1 \in 1..ObjectSize /\ 0 \in 0..MaxReplacements
        /\ received' = Append(received, <<0, Len(received) + 1>>)
    BY <1>1 DEF ReadBody
  <2>2. <<0, Len(received) + 1>> \in (0..MaxReplacements) \X (1..ObjectSize)
    BY <2>1
  <2>3. /\ received' \in Seq((0..MaxReplacements) \X (1..ObjectSize))
        /\ Len(received') = Len(received) + 1
    BY <2>1, <2>2
  <2>4. \A i \in 1..Len(received') : received'[i] = <<etag', i>>
    BY <1>1, <2>1, <2>2, <2>3 DEF ReadBody
  <2> QED
    BY <1>1, <2>1, <2>3, <2>4 DEF ReadBody
<1>2. CASE Finished
  BY <1>2 DEF Finished
<1>3. CASE Breaks
  <2>1. Len(received) \in 0..ObjectSize
    OBVIOUS
  <2>2. breaks' \in 0..MaxBreaks /\ dpc' \in {"resume", "failed"}
    BY <1>3 DEF Breaks
  <2> QED
    BY <1>3, <2>1, <2>2 DEF Breaks
<1>4. CASE OpenRange \/ OpenRangeFails \/ ObjectReplaced
  BY <1>4 DEF OpenRange, OpenRangeFails, ObjectReplaced
<1>5. CASE UNCHANGED dcpReaderVars
  BY <1>5 DEF dcpReaderVars
<1> QED
  BY <1>1, <1>2, <1>3, <1>4, <1>5 DEF DcpNext, DcpStep

(* Every step of the reader is one of the stream, or leaves it as it is.   *)
LEMMA DcpStepMaps ==
    ASSUME DcpAssumption, DcpInv, DcpInv', [DcpNext]_dcpReaderVars
    PROVE  [Pinned!StreamNext]_<<OwnPositions,
                                 IF dpc \in {"complete", "failed"} THEN dpc ELSE "open">>
<1> DEFINE End == IF dpc \in {"complete", "failed"} THEN dpc ELSE "open"
<1> USE DcpAssumption DEF DcpAssumption
<1>1. /\ Len(received) \in 0..ObjectSize
      /\ OwnPositions = [i \in 1..Len(received) |-> i]
      /\ OwnPositions' = [i \in 1..Len(received') |-> i]
  <2>1. Len(received) \in 0..ObjectSize /\ DOMAIN received = 1..Len(received)
        /\ DOMAIN received' = 1..Len(received')
    BY DEF DcpInv, DcpTypeOK
  <2>2. /\ \A i \in 1..Len(received) : received[i][1] = etag /\ received[i][2] = i
        /\ \A i \in 1..Len(received') : received'[i][1] = etag' /\ received'[i][2] = i
    BY DEF DcpInv
  <2> QED
    BY <2>1, <2>2 DEF OwnPositions
<1>2. CASE ReadBody
  <2>1. Len(received') = Len(received) + 1 /\ Len(received') \in 1..ObjectSize
    BY <1>2 DEF ReadBody, DcpInv, DcpTypeOK
  <2>2. OwnPositions' = SubSeq(Pinned!Object, 1, Len(received'))
    BY <1>1, <2>1 DEF Pinned!Object
  <2>3. Len(OwnPositions) = Len(received)
    BY <1>1
  <2> QED
    BY <1>2, <2>1, <2>2, <2>3 DEF ReadBody, Pinned!StreamNext, Pinned!Deliver
<1>3. CASE Finished
  BY <1>1, <1>3 DEF Finished, Pinned!StreamNext, Pinned!Complete, Pinned!Object
<1>4. CASE Breaks \/ OpenRangeFails
  <2>1. OwnPositions' = OwnPositions /\ End = "open" /\ End' \in {"open", "failed"}
    BY <1>1, <1>4 DEF Breaks, OpenRangeFails
  <2> QED
    BY <2>1 DEF Pinned!StreamNext, Pinned!GiveUp
<1>5. CASE OpenRange \/ ObjectReplaced \/ UNCHANGED dcpReaderVars
  BY <1>1, <1>5 DEF OpenRange, ObjectReplaced, dcpReaderVars
<1> QED
  BY <1>2, <1>3, <1>4, <1>5 DEF DcpNext, DcpStep

(* So it holds throughout. *)
LEMMA DcpInvariant ==
    ASSUME DcpAssumption PROVE DcpInit /\ [][DcpNext]_dcpReaderVars => []DcpInv
<1>1. DcpInit => DcpInv
  BY DcpAssumption DEF DcpAssumption, DcpInit, DcpTypeOK, DcpInv
<1>2. DcpInv /\ [DcpNext]_dcpReaderVars => DcpInv'
  BY DcpAssumption, DcpInvStep
<1> QED
  BY <1>1, <1>2, PTL

(* The types of all variables, for any object and any number of breaks and *)
(* replacements.                                                           *)
THEOREM DcpTypeCorrect == ASSUME DcpAssumption PROVE DcpSpec => []DcpTypeOK
<1>1. DcpInv => DcpTypeOK
  BY DEF DcpInv
<1> QED
  BY <1>1, DcpInvariant, DcpAssumption, PTL DEF DcpSpec

(* Wherever streams break and whenever the object is replaced, the reader  *)
(* hands over the bytes of one object, in order and each once.             *)
THEOREM DcpReaderVerifies == ASSUME DcpAssumption PROVE DcpSpec => DcpVerified
<1>1. DcpInit => Pinned!StreamInit
  BY DEF DcpInit, Pinned!StreamInit, OwnPositions
<1>2. DcpInv /\ DcpInv' /\ [DcpNext]_dcpReaderVars
        => [Pinned!StreamNext]_<<OwnPositions,
                                 IF dpc \in {"complete", "failed"} THEN dpc ELSE "open">>
  BY DcpAssumption, DcpStepMaps
<1> QED
  BY <1>1, <1>2, DcpInvariant, DcpAssumption, PTL DEF DcpSpec, DcpVerified, Pinned!StreamSpec

-----------------------------------------------------------------------------
(* Products: the next multiple. *)
LEMMA Succ == ASSUME NEW a \in Nat, NEW k \in Nat PROVE (a + 1) * k = a * k + k
OBVIOUS

(* A product grows with its factor. *)
LEMMA Mono == ASSUME NEW a \in Nat, NEW b \in Nat, NEW k \in Nat, a <= b PROVE a * k <= b * k
<1>1. PICK d \in Nat : b = a + d
  <2>1. b - a \in Nat /\ b = a + (b - a)
    OBVIOUS
  <2> QED BY <2>1
<1>2. b * k = a * k + d * k
  BY <1>1
<1>3. d * k \in Nat /\ a * k \in Nat
  OBVIOUS
<1> QED BY <1>2, <1>3

(* A factor that two products share can be left out. *)
LEMMA Cancel ==
    ASSUME NEW a \in Nat, NEW b \in Nat, NEW k \in Nat \ {0}, NEW r \in Nat, a * k + r <= b * k
    PROVE  a <= b /\ (r # 0 => a < b)
<1>1. ASSUME b <= a PROVE b * k <= a * k
  BY <1>1, Mono
<1>2. ASSUME b + 1 <= a PROVE FALSE
  <2>1. (b + 1) * k <= a * k
    BY <1>2, Mono
  <2>2. (b + 1) * k = b * k + k
    BY Succ
  <2>3. a * k \in Nat /\ b * k \in Nat
    OBVIOUS
  <2> QED BY <2>1, <2>2, <2>3
<1>3. a * k \in Nat /\ b * k \in Nat
  OBVIOUS
<1> QED BY <1>1, <1>2, <1>3

(* A share that is rounded up is enough. *)
LEMMA CeilDivCovers ==
    ASSUME NEW x \in Nat, NEW y \in Nat \ {0}
    PROVE  CeilDiv(x, y) \in Nat /\ x <= CeilDiv(x, y) * y
<1> DEFINE q == (x + y - 1) \div y
           r == (x + y - 1) % y
<1>1. x + y - 1 \in Nat
  OBVIOUS
<1>2. q \in Nat /\ r \in 0..(y - 1) /\ x + y - 1 = q * y + r
  BY <1>1
<1>3. q * y \in Nat
  BY <1>2
<1> QED BY <1>2, <1>3 DEF CeilDiv

(* _transfer_config_for: the default, the rounding and the limit together  *)
(* still let every object fit.                                             *)
LEMMA PartSizeFits ==
    ASSUME ChunkAssumption, NEW n \in Nat
    PROVE  PartSize(n) \in Nat \ {0} /\ n <= MaxParts * PartSize(n)
<1> DEFINE least == CeilDiv(n, MaxParts)
           size == IF least > DefaultPart THEN least ELSE DefaultPart
           grains == CeilDiv(size, Grain)
<1>1. MaxParts \in Nat \ {0} /\ DefaultPart \in Nat \ {0} /\ Grain \in Nat \ {0}
  BY ChunkAssumption DEF ChunkAssumption
<1>2. least \in Nat /\ n <= least * MaxParts
  BY <1>1, CeilDivCovers
<1>3. size \in Nat \ {0} /\ least <= size
  BY <1>1, <1>2
<1>4. grains \in Nat /\ size <= grains * Grain
  BY <1>1, <1>3, CeilDivCovers
<1>5. PartSize(n) = grains * Grain /\ grains * Grain \in Nat
  BY <1>1, <1>4 DEF PartSize
<1> HIDE DEF least, size, grains
<1>6. PartSize(n) \in Nat \ {0} /\ least <= PartSize(n)
  BY <1>3, <1>4, <1>5, <1>2
<1>7. least * MaxParts <= PartSize(n) * MaxParts
  BY <1>1, <1>2, <1>6, Mono
<1>8. PartSize(n) * MaxParts = MaxParts * PartSize(n) /\ least * MaxParts \in Nat
      /\ PartSize(n) * MaxParts \in Nat
  BY <1>1, <1>2, <1>6
<1> QED BY <1>2, <1>6, <1>7, <1>8

(* A piece moves from the front of one sequence to the end of another. *)
LEMMA Moved ==
    ASSUME NEW S, NEW b \in Seq(S), NEW d \in Seq(S), NEW n \in 0..Len(b)
    PROVE  /\ SubSeq(b, n + 1, Len(b)) \in Seq(S)
           /\ Len(SubSeq(b, n + 1, Len(b))) = Len(b) - n
           /\ \A i \in 1..(Len(b) - n) : SubSeq(b, n + 1, Len(b))[i] = b[n + i]
           /\ d \o SubSeq(b, 1, n) \in Seq(S)
           /\ Len(d \o SubSeq(b, 1, n)) = Len(d) + n
           /\ \A i \in 1..(Len(d) + n) :
                 (d \o SubSeq(b, 1, n))[i] = IF i <= Len(d) THEN d[i] ELSE b[i - Len(d)]
<1> DEFINE u == SubSeq(b, n + 1, Len(b))
           v == SubSeq(b, 1, n)
<1>1. Len(b) \in Nat /\ n \in Nat /\ n <= Len(b) /\ Len(d) \in Nat
  OBVIOUS
<1>2. \A i \in 1..Len(b) : b[i] \in S
  OBVIOUS
<1>3. /\ u \in Seq(S)
      /\ Len(u) = IF n + 1 <= Len(b) THEN Len(b) - (n + 1) + 1 ELSE 0
      /\ \A i \in 1..(Len(b) - (n + 1) + 1) : u[i] = b[(n + 1) + i - 1]
  <2>1. n + 1 \in Int /\ Len(b) \in Int /\ \A i \in (n + 1)..Len(b) : b[i] \in S
    BY <1>1, <1>2
  <2> QED BY <2>1, SubSeqProperties
<1>4. /\ v \in Seq(S)
      /\ Len(v) = IF 1 <= n THEN n - 1 + 1 ELSE 0
      /\ \A i \in 1..(n - 1 + 1) : v[i] = b[1 + i - 1]
  <2>1. n \in Int /\ 1 \in Int /\ \A i \in 1..n : b[i] \in S
    BY <1>1, <1>2
  <2> QED BY <2>1, SubSeqProperties
<1> HIDE DEF u, v
<1>5. Len(v) = n /\ \A i \in 1..n : v[i] = b[i]
  BY <1>1, <1>4
<1>6. Len(u) = Len(b) - n /\ \A i \in 1..(Len(b) - n) : u[i] = b[n + i]
  BY <1>1, <1>3
<1>7. /\ d \o v \in Seq(S) /\ Len(d \o v) = Len(d) + Len(v)
      /\ \A i \in 1..(Len(d) + Len(v)) : (d \o v)[i] = IF i <= Len(d) THEN d[i] ELSE v[i - Len(d)]
  BY <1>4, ConcatProperties
<1>8. \A i \in 1..(Len(d) + n) : (d \o v)[i] = IF i <= Len(d) THEN d[i] ELSE b[i - Len(d)]
  BY <1>1, <1>5, <1>7
<1> QED BY <1>3, <1>5, <1>6, <1>7, <1>8 DEF u, v

-----------------------------------------------------------------------------
(* ChunkReader.  The program points of a download. *)
Downloading == {"open", "stream", "verify"}

(* Where the reader is in the AIP. *)
ChunkPlace ==
    /\ Len(delivered) <= Bytes
    /\ rpc = "read" => Len(delivered) + Len(buffer) = chunkIndex * ChunkSize
    /\ rpc \in Downloading => /\ chunkIndex # 0 /\ attempt # 0 /\ buffer = <<>>
                              /\ Len(delivered) + ChunkSize = chunkIndex * ChunkSize
    /\ rpc \in {"eof", "complete"} => Len(delivered) = Bytes

(* The spool has the units that follow, or wrong ones. *)
ChunkSpool ==
    rpc \in Downloading =>
        \A i \in 1..Len(spool) : spool[i] # 0 => i <= ChunkSize /\ spool[i] = Len(delivered) + i

(* What was verified against an MD5 is the AIP's own. *)
ChunkOwn ==
    checked => /\ \A i \in 1..Len(delivered) : delivered[i] = i
               /\ \A i \in 1..Len(buffer) : buffer[i] = Len(delivered) + i

(* The parts add up. *)
PartsFilled ==
    /\ rpc \notin {"eof", "complete"} =>
          /\ Len(delivered) = Len(parts) * PartSize(Bytes) + part
          /\ \A i \in 1..Len(parts) : parts[i] = PartSize(Bytes)
    /\ rpc \in {"eof", "complete"} =>
          /\ Len(parts) <= MaxParts
          /\ \A i \in 1..Len(parts) : i < Len(parts) => parts[i] = PartSize(Bytes)

(* The invariant: each part needs the others.                              *)
ChunkInv == ChunkTypeOK /\ ChunkPlace /\ ChunkSpool /\ ChunkOwn /\ PartsFilled

(* The sizes that the steps below compare. *)
LEMMA ChunkNumbers ==
    ASSUME ChunkAssumption, ChunkTypeOK
    PROVE  /\ Bytes \in Nat /\ Bytes = chunks * ChunkSize
           /\ PartSize(Bytes) \in Nat \ {0} /\ Bytes <= MaxParts * PartSize(Bytes)
           /\ Len(delivered) \in Nat /\ Len(buffer) \in Nat
           /\ Len(spool) \in Nat /\ Len(parts) \in Nat
           /\ chunkIndex * ChunkSize <= Bytes
           /\ (chunkIndex + 1) * ChunkSize = chunkIndex * ChunkSize + ChunkSize
           /\ chunkIndex < chunks => chunkIndex * ChunkSize + ChunkSize <= Bytes
           /\ UNCHANGED aip => Bytes' = Bytes /\ PartSize(Bytes)' = PartSize(Bytes)
<1> USE ChunkAssumption DEF ChunkAssumption, ChunkTypeOK
<1>1. chunks \in Nat /\ ChunkSize \in Nat \ {0} /\ chunkIndex \in Nat /\ chunkIndex <= chunks
  OBVIOUS
<1>2. Bytes \in Nat /\ Bytes = chunks * ChunkSize
  BY <1>1 DEF Bytes
<1>3. PartSize(Bytes) \in Nat \ {0} /\ Bytes <= MaxParts * PartSize(Bytes)
  BY <1>2, PartSizeFits
<1>4. chunkIndex * ChunkSize <= Bytes
  BY <1>1, <1>2, Mono
<1>5. (chunkIndex + 1) * ChunkSize = chunkIndex * ChunkSize + ChunkSize
  BY <1>1, Succ
<1>6. chunkIndex < chunks => (chunkIndex + 1) * ChunkSize <= Bytes
  BY <1>1, <1>2, Mono
<1>7. UNCHANGED aip => Bytes' = Bytes /\ PartSize(Bytes)' = PartSize(Bytes)
  BY DEF aip, Bytes
<1>8. Len(delivered) \in Nat /\ Len(buffer) \in Nat /\ Len(spool) \in Nat /\ Len(parts) \in Nat
  OBVIOUS
<1> QED
  BY <1>2, <1>3, <1>4, <1>5, <1>6, <1>7, <1>8

(* A part of the buffer is handed over. *)
LEMMA ReadBufferKeeps ==
    ASSUME ChunkAssumption, ChunkInv, ReadBuffer
    PROVE  /\ ChunkInv'
           /\ Len(delivered) < Len(delivered') /\ Len(delivered') <= Bytes
<1> USE ChunkAssumption DEF ChunkInv
<1> DEFINE PS == PartSize(Bytes)
           n == IF PS - part < Len(buffer) THEN PS - part ELSE Len(buffer)
<1>1. /\ Bytes \in Nat /\ PS \in Nat \ {0} /\ Len(delivered) \in Nat /\ Len(buffer) \in Nat
      /\ chunkIndex * ChunkSize <= Bytes
      /\ Bytes' = Bytes /\ PartSize(Bytes)' = PS
  BY ChunkNumbers DEF ReadBuffer
<1>2. /\ rpc = "read" /\ buffer # <<>> /\ part < PS /\ part \in Nat
      /\ buffer' = SubSeq(buffer, n + 1, Len(buffer))
      /\ delivered' = delivered \o SubSeq(buffer, 1, n)
      /\ part' = part + n
      /\ UNCHANGED <<aip, rpc, chunkIndex, spool, resumes, attempt, parts>>
  BY <1>1 DEF ReadBuffer, TakeFrom, ChunkTypeOK
<1>3. buffer \in Seq(0..Bytes) /\ delivered \in Seq(0..Bytes)
  BY DEF ChunkTypeOK
<1>4. Len(buffer) # 0
  BY <1>2, <1>3
<1>5. n \in 1..Len(buffer) /\ part + n <= PS
  BY <1>1, <1>2, <1>4
<1> HIDE DEF n, PS
<1>6. /\ buffer' \in Seq(0..Bytes) /\ Len(buffer') = Len(buffer) - n
      /\ \A i \in 1..(Len(buffer) - n) : buffer'[i] = buffer[n + i]
      /\ delivered' \in Seq(0..Bytes) /\ Len(delivered') = Len(delivered) + n
      /\ \A i \in 1..(Len(delivered) + n) :
            delivered'[i] = IF i <= Len(delivered) THEN delivered[i] ELSE buffer[i - Len(delivered)]
  <2>1. n \in 0..Len(buffer)
    BY <1>1, <1>5
  <2> DEFINE b == SubSeq(buffer, n + 1, Len(buffer))
             d == delivered \o SubSeq(buffer, 1, n)
  <2>2. /\ b \in Seq(0..Bytes) /\ Len(b) = Len(buffer) - n
        /\ \A i \in 1..(Len(buffer) - n) : b[i] = buffer[n + i]
        /\ d \in Seq(0..Bytes) /\ Len(d) = Len(delivered) + n
        /\ \A i \in 1..(Len(delivered) + n) :
              d[i] = IF i <= Len(delivered) THEN delivered[i] ELSE buffer[i - Len(delivered)]
    <3> DEFINE units == 0..Bytes
    <3>1. buffer \in Seq(units) /\ delivered \in Seq(units)
      BY <1>3
    <3> HIDE DEF units
    <3>2. /\ b \in Seq(units) /\ d \in Seq(units)
          /\ Len(b) = Len(buffer) - n /\ Len(d) = Len(delivered) + n
          /\ \A i \in 1..(Len(buffer) - n) : b[i] = buffer[n + i]
          /\ \A i \in 1..(Len(delivered) + n) :
                d[i] = IF i <= Len(delivered) THEN delivered[i] ELSE buffer[i - Len(delivered)]
      BY <2>1, <3>1, Moved
    <3> QED BY <3>2 DEF units
  <2>3. buffer' = b /\ delivered' = d
    BY <1>2
  <2> HIDE DEF b, d
  <2> QED
    BY <2>2, <2>3
<1>7. Len(delivered) + Len(buffer) = chunkIndex * ChunkSize
  BY <1>2 DEF ChunkPlace
<1>8. chunkIndex * ChunkSize \in Nat
  BY <1>1, <1>7
<1>9. Len(delivered) < Len(delivered') /\ Len(delivered') <= Bytes
  BY <1>1, <1>5, <1>6, <1>7, <1>8
<1>10. ChunkTypeOK'
  <2>1. part' \in 0..PS
    BY <1>1, <1>2, <1>5
  <2> QED
    BY <1>1, <1>2, <1>6, <2>1 DEF ChunkTypeOK, aip, PS
<1>11. ChunkPlace'
  <2>1. Len(delivered') + Len(buffer') = chunkIndex * ChunkSize
    BY <1>1, <1>5, <1>6, <1>7
  <2> QED
    BY <1>1, <1>2, <1>9, <2>1 DEF ChunkPlace, Downloading
<1>12. ChunkSpool'
  BY <1>2 DEF ChunkSpool, Downloading
<1>13. ChunkOwn'
  <2> SUFFICES ASSUME checked
               PROVE  /\ \A i \in 1..Len(delivered') : delivered'[i] = i
                      /\ \A i \in 1..Len(buffer') : buffer'[i] = Len(delivered') + i
    BY <1>2 DEF ChunkOwn, aip
  <2>1. /\ \A i \in 1..Len(delivered) : delivered[i] = i
        /\ \A i \in 1..Len(buffer) : buffer[i] = Len(delivered) + i
    BY DEF ChunkOwn
  <2>2. ASSUME NEW i \in 1..Len(delivered') PROVE delivered'[i] = i
    <3>1. /\ i \in 1..(Len(delivered) + n)
          /\ delivered'[i] = IF i <= Len(delivered) THEN delivered[i]
                             ELSE buffer[i - Len(delivered)]
      BY <1>6
    <3>2. CASE i <= Len(delivered)
      <4>1. i \in 1..Len(delivered)
        BY <1>1, <3>1, <3>2
      <4> QED BY <2>1, <3>1, <3>2, <4>1
    <3>3. CASE ~(i <= Len(delivered))
      <4>1. i - Len(delivered) \in 1..Len(buffer) /\ i \in Nat
        BY <1>1, <1>5, <3>1, <3>3
      <4>2. buffer[i - Len(delivered)] = Len(delivered) + (i - Len(delivered))
        BY <2>1, <4>1
      <4> QED
        BY <1>1, <3>1, <3>3, <4>1, <4>2
    <3> QED BY <3>2, <3>3
  <2>3. ASSUME NEW i \in 1..Len(buffer') PROVE buffer'[i] = Len(delivered') + i
    <3>1. n + i \in 1..Len(buffer)
      BY <1>1, <1>5, <1>6, <2>3
    <3> QED
      BY <1>1, <1>5, <1>6, <2>1, <2>3, <3>1
  <2> QED BY <2>2, <2>3
<1>14. PartsFilled'
  <2>1. Len(delivered) = Len(parts) * PS + part /\ \A i \in 1..Len(parts) : parts[i] = PS
    BY <1>2 DEF PartsFilled, PS
  <2>2. Len(parts) * PS \in Nat
    BY <1>1, ChunkNumbers
  <2>3. Len(delivered') = Len(parts) * PS + part'
    BY <1>1, <1>2, <1>5, <1>6, <2>1, <2>2
  <2> QED
    BY <1>1, <1>2, <2>1, <2>3 DEF PartsFilled
<1> QED
  BY <1>9, <1>10, <1>11, <1>12, <1>13, <1>14

(* A full part, or the last one. *)
LEMMA PartKeeps ==
    ASSUME ChunkAssumption, ChunkInv, FullPart \/ LastPart PROVE ChunkInv'
<1> USE ChunkAssumption DEF ChunkInv
<1> DEFINE PS == PartSize(Bytes)
<1>1. /\ Bytes \in Nat /\ PS \in Nat \ {0} /\ Bytes <= MaxParts * PS
      /\ Len(delivered) \in Nat /\ Len(parts) \in Nat
      /\ Bytes = chunks * ChunkSize /\ Bytes' = Bytes /\ PartSize(Bytes)' = PS
  BY ChunkNumbers DEF FullPart, LastPart
<1>2. /\ rpc = "read" /\ part \in Nat /\ part <= PS /\ parts \in Seq(1..PS)
      /\ UNCHANGED <<aip, chunkIndex, buffer, spool, resumes, attempt, delivered>>
      /\ part' = 0
  BY DEF FullPart, LastPart, ChunkTypeOK
<1>3. Len(delivered) = Len(parts) * PS + part /\ \A i \in 1..Len(parts) : parts[i] = PS
  BY <1>2 DEF PartsFilled
<1>4. Len(parts) <= MaxParts /\ (part # 0 => Len(parts) < MaxParts)
  <2>1. Len(parts) * PS + part <= MaxParts * PS
    BY <1>1, <1>2, <1>3, ChunkNumbers DEF ChunkPlace, ChunkAssumption
  <2>2. MaxParts \in Nat
    BY DEF ChunkAssumption
  <2> HIDE DEF PS
  <2> QED BY <1>1, <1>2, <2>1, <2>2, Cancel
<1> HIDE DEF PS
<1>5. /\ part # 0 => /\ Append(parts, part) \in Seq(1..PS)
                     /\ Len(Append(parts, part)) = Len(parts) + 1
                     /\ Append(parts, part)[Len(parts) + 1] = part
                     /\ \A i \in 1..Len(parts) : Append(parts, part)[i] = parts[i]
  BY <1>1, <1>2
<1>6. CASE FullPart
  <2>1. part = PS /\ parts' = Append(parts, part) /\ rpc' = "read"
    BY <1>2, <1>6 DEF FullPart, PS
  <2>2. Len(parts') = Len(parts) + 1 /\ parts' \in Seq(1..PS)
        /\ \A i \in 1..Len(parts') : parts'[i] = PS
    BY <1>1, <1>2, <1>3, <1>5, <2>1
  <2>3. Len(delivered) = Len(parts') * PS + part'
    <3>1. (Len(parts) + 1) * PS = Len(parts) * PS + PS
      BY <1>1, Succ
    <3>2. (Len(parts) + 1) * PS \in Nat
      BY <1>1
    <3> QED BY <1>1, <1>2, <1>3, <2>1, <2>2, <3>1, <3>2
  <2>4. ChunkTypeOK'
    BY <1>1, <1>2, <2>1, <2>2 DEF ChunkTypeOK, aip
  <2>5. ChunkPlace' /\ ChunkSpool' /\ ChunkOwn'
    BY <1>1, <1>2, <2>1 DEF ChunkPlace, ChunkSpool, ChunkOwn, Downloading, aip
  <2>6. PartsFilled'
    BY <1>1, <1>2, <2>1, <2>2, <2>3 DEF PartsFilled
  <2> QED BY <2>4, <2>5, <2>6
<1>7. CASE LastPart
  <2>1. rpc' = "eof" /\ parts' = (IF part = 0 THEN parts ELSE Append(parts, part))
        /\ buffer = <<>> /\ chunkIndex = chunks
    BY <1>7 DEF LastPart, Reader
  <2>2. parts' \in Seq(1..PS) /\ Len(parts') <= MaxParts
        /\ \A i \in 1..Len(parts') : i < Len(parts') => parts'[i] = PS
    <3>1. CASE part = 0
      BY <1>2, <1>3, <1>4, <2>1, <3>1
    <3>2. CASE part # 0
      <4>1. MaxParts \in Nat
        BY DEF ChunkAssumption
      <4> QED BY <1>1, <1>3, <1>4, <1>5, <2>1, <3>2, <4>1
    <3> QED BY <3>1, <3>2
  <2>3. Len(delivered) = Bytes
    BY <1>1, <1>2, <2>1 DEF ChunkPlace
  <2>4. ChunkTypeOK'
    BY <1>1, <1>2, <2>1, <2>2 DEF ChunkTypeOK, aip
  <2>5. ChunkPlace' /\ ChunkSpool' /\ ChunkOwn'
    BY <1>1, <1>2, <2>1, <2>3 DEF ChunkPlace, ChunkSpool, ChunkOwn, Downloading, aip
  <2>6. PartsFilled'
    BY <1>1, <1>2, <2>1, <2>2 DEF PartsFilled
  <2> QED BY <2>4, <2>5, <2>6
<1> QED BY <1>6, <1>7

(* Downloads: nothing is handed over.                                      *)
LEMMA DownloadKeeps ==
    ASSUME ChunkAssumption, ChunkInv,
           \/ LoadNextChunk \/ OpenStream \/ OpenFails \/ StreamUnit \/ StreamBreaks \/ Resume
           \/ StreamEnds \/ VerifyChunk \/ ChunkIsWrong \/ VerifyTotal
    PROVE  ChunkInv'
<1> USE ChunkAssumption DEF ChunkInv
<1> DEFINE PS == PartSize(Bytes)
<1>1. /\ Bytes \in Nat /\ PS \in Nat \ {0} /\ Bytes' = Bytes /\ PartSize(Bytes)' = PS
      /\ Len(delivered) \in Nat /\ Len(spool) \in Nat
      /\ chunkIndex * ChunkSize <= Bytes
      /\ (chunkIndex + 1) * ChunkSize = chunkIndex * ChunkSize + ChunkSize
      /\ chunkIndex < chunks => chunkIndex * ChunkSize + ChunkSize <= Bytes
      /\ UNCHANGED <<aip, delivered, part, parts>>
  BY ChunkNumbers DEF LoadNextChunk, OpenStream, OpenFails, StreamUnit, StreamBreaks, Resume,
     StreamEnds, VerifyChunk, ChunkIsWrong, VerifyTotal, DownloadFails
<1>2. chunks' = chunks /\ checked' = checked
  BY <1>1 DEF aip
<1>3. ChunkSize \in Nat \ {0} /\ MaxChunkRetries \in Nat \ {0} /\ MaxResumes \in Nat
      /\ chunks \in Nat \ {0} /\ chunkIndex \in Nat
  BY DEF ChunkAssumption, ChunkTypeOK
<1>p. rpc \notin {"eof", "complete"} /\ rpc' \notin {"eof", "complete"} => PartsFilled'
  BY <1>1 DEF PartsFilled
<1>4. CASE LoadNextChunk
  <2>1. /\ rpc = "read" /\ buffer = <<>> /\ chunkIndex < chunks /\ rpc' = "open"
        /\ chunkIndex' = chunkIndex + 1 /\ attempt' = 1 /\ spool' = <<>> /\ resumes' = 0
        /\ buffer' = buffer
    BY <1>4 DEF LoadNextChunk, NewDownload, Reader
  <2>2. Len(delivered) + ChunkSize = chunkIndex' * ChunkSize
    BY <1>1, <1>3, <2>1 DEF ChunkPlace
  <2>3. ChunkTypeOK'
    BY <1>1, <1>2, <1>3, <2>1 DEF ChunkTypeOK, PS
  <2>4. ChunkPlace'
    BY <1>1, <1>2, <1>3, <2>1, <2>2 DEF ChunkPlace, Downloading
  <2>5. ChunkSpool' /\ ChunkOwn'
    BY <1>1, <1>2, <2>1 DEF ChunkSpool, ChunkOwn
  <2> QED BY <1>p, <2>1, <2>3, <2>4, <2>5
<1>5. ASSUME rpc \in Downloading, DownloadFails PROVE ChunkInv'
  <2>1. /\ spool' = <<>> /\ resumes' = 0 /\ rpc' \in {"open", "failed"}
        /\ attempt' \in 1..MaxChunkRetries /\ chunkIndex' = chunkIndex /\ buffer' = buffer
    BY <1>3, <1>5 DEF DownloadFails, NewDownload, Reader, ChunkTypeOK, ChunkPlace
  <2>2. ChunkTypeOK'
    BY <1>1, <1>2, <1>3, <2>1 DEF ChunkTypeOK, PS
  <2>3. ChunkPlace'
    BY <1>1, <1>2, <1>3, <1>5, <2>1 DEF ChunkPlace, Downloading
  <2>4. ChunkSpool' /\ ChunkOwn'
    BY <1>1, <1>2, <2>1 DEF ChunkSpool, ChunkOwn
  <2> QED BY <1>p, <1>5, <2>1, <2>2, <2>3, <2>4 DEF Downloading
<1>6. CASE OpenFails \/ ChunkIsWrong
  BY <1>5, <1>6 DEF OpenFails, ChunkIsWrong, Downloading
<1>7. CASE OpenStream \/ Resume \/ StreamEnds \/ StreamBreaks
  <2>1. /\ rpc \in Downloading /\ rpc' \in Downloading \cup {"failed"}
        /\ UNCHANGED <<chunkIndex, buffer, spool, attempt>>
        /\ resumes' \in 0..MaxResumes
    BY <1>3, <1>7 DEF OpenStream, Resume, StreamEnds, StreamBreaks, Reader, Downloading, ChunkTypeOK
  <2>2. ChunkTypeOK'
    BY <1>1, <1>2, <1>3, <2>1 DEF ChunkTypeOK, PS, Downloading
  <2>3. ChunkPlace' /\ ChunkSpool' /\ ChunkOwn'
    BY <1>1, <1>2, <2>1 DEF ChunkPlace, ChunkSpool, ChunkOwn, Downloading
  <2> QED BY <1>p, <2>1, <2>2, <2>3 DEF Downloading
<1>8. CASE StreamUnit
  <2>1. PICK u \in {0, (chunkIndex - 1) * ChunkSize + Len(spool) + 1} :
           /\ rpc = "stream" /\ rpc' = rpc /\ spool' = Append(spool, u)
           /\ u # 0 => Len(spool) < ChunkSize
           /\ UNCHANGED <<chunkIndex, buffer, resumes, attempt>>
    BY <1>8 DEF StreamUnit
  <2>2. chunkIndex - 1 \in Nat /\ Len(delivered) = (chunkIndex - 1) * ChunkSize
    <3>1. chunkIndex # 0 /\ Len(delivered) + ChunkSize = chunkIndex * ChunkSize
      BY <2>1 DEF ChunkPlace, Downloading
    <3>2. chunkIndex - 1 \in Nat /\ (chunkIndex - 1) + 1 = chunkIndex
      BY <1>3, <3>1
    <3>3. chunkIndex * ChunkSize = (chunkIndex - 1) * ChunkSize + ChunkSize
      BY <1>3, <3>2, Succ
    <3>4. (chunkIndex - 1) * ChunkSize \in Nat
      BY <1>3, <3>2
    <3> QED BY <1>1, <1>3, <3>1, <3>2, <3>3, <3>4
  <2>3. u \in 0..Bytes /\ (u # 0 => u = Len(delivered) + (Len(spool) + 1))
    <3>1. Len(delivered) + ChunkSize <= Bytes
      BY <1>1, <1>3, <2>1 DEF ChunkPlace, Downloading
    <3> QED BY <1>1, <1>3, <2>1, <2>2, <3>1
  <2>4. /\ spool \in Seq(0..Bytes) /\ spool' \in Seq(0..Bytes) /\ Len(spool') = Len(spool) + 1
        /\ spool'[Len(spool) + 1] = u
        /\ \A i \in 1..Len(spool) : spool'[i] = spool[i]
    BY <1>1, <2>1, <2>3 DEF ChunkTypeOK
  <2>5. ChunkTypeOK'
    BY <1>1, <1>2, <2>1, <2>4 DEF ChunkTypeOK, PS
  <2>6. ChunkSpool'
    <3>1. \A i \in 1..Len(spool) : spool[i] # 0 => i <= ChunkSize /\ spool[i] = Len(delivered) + i
      BY <2>1 DEF ChunkSpool, Downloading
    <3>2. \A i \in 1..Len(spool') : i = Len(spool) + 1 \/ i \in 1..Len(spool)
      BY <1>1, <2>4
    <3>3. \A i \in 1..Len(spool') :
             spool'[i] # 0 => i <= ChunkSize /\ spool'[i] = Len(delivered) + i
      <4> SUFFICES ASSUME NEW i \in 1..Len(spool'), spool'[i] # 0
                   PROVE  i <= ChunkSize /\ spool'[i] = Len(delivered) + i
        OBVIOUS
      <4>1. CASE i = Len(spool) + 1
        BY <1>1, <1>3, <2>1, <2>3, <2>4, <4>1
      <4>2. CASE i \in 1..Len(spool)
        BY <2>4, <3>1, <4>2
      <4> QED BY <3>2, <4>1, <4>2
    <3> QED BY <1>1, <3>3 DEF ChunkSpool
  <2>7. ChunkPlace' /\ ChunkOwn'
    BY <1>1, <1>2, <2>1 DEF ChunkPlace, ChunkOwn, Downloading
  <2> QED BY <1>p, <2>1, <2>5, <2>6, <2>7
<1>9. CASE VerifyChunk
  <2>1. /\ rpc = "verify" /\ rpc' = "read" /\ Len(spool) = ChunkSize
        /\ checked => \A i \in DOMAIN spool : spool[i] # 0
        /\ buffer' = spool /\ spool' = <<>> /\ resumes' = 0
        /\ UNCHANGED <<chunkIndex, attempt>>
    BY <1>9 DEF VerifyChunk, ChunkPasses, DigestAgrees, NewDownload, Reader
  <2>2. DOMAIN spool = 1..Len(spool) /\ spool \in Seq(0..Bytes)
    BY DEF ChunkTypeOK
  <2>3. ChunkTypeOK'
    BY <1>1, <1>2, <1>3, <2>1, <2>2 DEF ChunkTypeOK, PS
  <2>4. ChunkPlace'
    BY <1>1, <1>2, <1>3, <2>1 DEF ChunkPlace, Downloading
  <2>5. ChunkOwn'
    BY <1>1, <1>2, <2>1, <2>2 DEF ChunkOwn, ChunkSpool, Downloading
  <2>6. ChunkSpool'
    BY <2>1 DEF ChunkSpool, Downloading
  <2> QED BY <1>p, <2>1, <2>3, <2>4, <2>5, <2>6
<1>10. CASE VerifyTotal
  <2>1. rpc = "eof" /\ UNCHANGED <<chunkIndex, buffer, spool, resumes, attempt>>
        /\ Len(delivered) = Bytes
    BY <1>10 DEF VerifyTotal, ChunkPlace
  <2>2. DigestAgrees(delivered)
    <3>1. DOMAIN delivered = 1..Len(delivered)
      BY DEF ChunkTypeOK
    <3> QED BY <1>1, <3>1 DEF DigestAgrees, ChunkOwn
  <2>3. rpc' = "complete"
    BY <1>10, <2>1, <2>2 DEF VerifyTotal, Reader
  <2>4. ChunkTypeOK'
    BY <1>1, <1>2, <2>1, <2>3 DEF ChunkTypeOK, PS
  <2>5. ChunkPlace' /\ ChunkSpool' /\ ChunkOwn'
    BY <1>1, <1>2, <2>1, <2>3 DEF ChunkPlace, ChunkSpool, ChunkOwn, Downloading
  <2>6. PartsFilled'
    BY <1>1, <2>1, <2>3 DEF PartsFilled
  <2> QED BY <2>4, <2>5, <2>6
<1> QED
  BY <1>4, <1>6, <1>7, <1>8, <1>9, <1>10

(* Every step keeps the invariant. *)
LEMMA ChunkInvStep ==
    ASSUME ChunkAssumption, ChunkInv, [ChunkNext]_chunkVars PROVE ChunkInv'
<1>1. CASE ReadBuffer
  BY <1>1, ReadBufferKeeps
<1>2. CASE FullPart \/ LastPart
  BY <1>2, PartKeeps
<1>3. CASE \/ LoadNextChunk \/ OpenStream \/ OpenFails \/ StreamUnit \/ StreamBreaks \/ Resume
           \/ StreamEnds \/ VerifyChunk \/ ChunkIsWrong \/ VerifyTotal
  BY <1>3, DownloadKeeps
<1>4. CASE UNCHANGED chunkVars
  BY <1>4 DEF ChunkInv, ChunkTypeOK, ChunkPlace, ChunkSpool, ChunkOwn, PartsFilled, Downloading,
              chunkVars, aip, Bytes
<1> QED
  BY <1>1, <1>2, <1>3, <1>4 DEF ChunkNext

(* The invariant holds at first. *)
LEMMA ChunkInvInit == ASSUME ChunkAssumption, ChunkInit PROVE ChunkInv
<1> USE ChunkAssumption DEF ChunkAssumption, ChunkInit
<1>1. chunks \in Nat \ {0} /\ Bytes \in Nat /\ Len(<<>>) = 0
  <2>1. chunks \in Nat \ {0} /\ ChunkSize \in Nat
    OBVIOUS
  <2> QED BY <2>1 DEF Bytes
<1>2. PartSize(Bytes) \in Nat \ {0}
  BY <1>1, PartSizeFits
<1> HIDE DEF ChunkAssumption
<1>3. ChunkTypeOK
  BY <1>1, <1>2 DEF ChunkTypeOK, ChunkAssumption
<1>4. ChunkPlace /\ ChunkSpool /\ ChunkOwn
  BY <1>1, ChunkAssumption DEF ChunkPlace, ChunkSpool, ChunkOwn, Downloading, ChunkAssumption
<1>5. PartsFilled
  BY <1>1, <1>2 DEF PartsFilled
<1> QED BY <1>3, <1>4, <1>5 DEF ChunkInv

(* Every step of the reader is one of the stream, or leaves it as it is.   *)
LEMMA ChunkStepMaps ==
    ASSUME ChunkAssumption, ChunkInv, ChunkInv', [ChunkNext]_chunkVars
    PROVE  [Verified!StreamNext]_<<Positions,
                                   IF rpc \in {"complete", "failed"} THEN rpc ELSE "open">>
<1> DEFINE End == IF rpc \in {"complete", "failed"} THEN rpc ELSE "open"
<1>1. /\ Len(delivered) \in Nat /\ Len(delivered') \in Nat
      /\ Positions = [i \in 1..Len(delivered) |-> i]
      /\ Positions' = [i \in 1..Len(delivered') |-> i]
  <2>1. /\ Len(delivered) \in Nat /\ DOMAIN delivered = 1..Len(delivered)
        /\ Len(delivered') \in Nat /\ DOMAIN delivered' = 1..Len(delivered')
    BY DEF ChunkInv, ChunkTypeOK
  <2>2. /\ checked => \A i \in 1..Len(delivered) : delivered[i] = i
        /\ checked' => \A i \in 1..Len(delivered') : delivered'[i] = i
    BY DEF ChunkInv, ChunkOwn
  <2> QED
    BY <2>1, <2>2 DEF Positions
<1>2. CASE ReadBuffer
  <2>1. Bytes \in Nat /\ Len(delivered) < Len(delivered') /\ Len(delivered') <= Bytes
    BY <1>2, ReadBufferKeeps, ChunkNumbers DEF ChunkInv
  <2>2. Len(delivered') \in 1..Bytes /\ Len(Positions) = Len(delivered)
    BY <1>1, <2>1
  <2>3. Positions' = SubSeq(Verified!Object, 1, Len(delivered'))
    BY <1>1, <2>1, <2>2 DEF Verified!Object
  <2>4. rpc = "read" /\ rpc' = "read"
    BY <1>2 DEF ReadBuffer
  <2> QED
    BY <2>1, <2>2, <2>3, <2>4 DEF Verified!StreamNext, Verified!Deliver
<1>3. CASE VerifyTotal
  <2>1. rpc = "eof" /\ delivered' = delivered /\ rpc' \in {"complete", "failed"}
        /\ Len(delivered) = Bytes
    BY <1>3 DEF VerifyTotal, Reader, ChunkInv, ChunkPlace
  <2>2. Positions' = Positions /\ Positions = Verified!Object
    BY <1>1, <2>1 DEF Verified!Object
  <2> QED
    BY <2>1, <2>2 DEF Verified!StreamNext, Verified!Complete, Verified!GiveUp
<1>4. ASSUME delivered' = delivered, rpc \notin {"complete", "failed"}, rpc' # "complete"
      PROVE  [Verified!StreamNext]_<<Positions, End>>
  <2>1. Positions' = Positions /\ End = "open" /\ End' \in {"open", "failed"}
    BY <1>1, <1>4
  <2> QED
    BY <2>1 DEF Verified!StreamNext, Verified!GiveUp
<1>5. CASE FullPart \/ LoadNextChunk \/ LastPart
  BY <1>4, <1>5 DEF FullPart, LoadNextChunk, LastPart, Reader
<1>6. CASE \/ OpenStream \/ OpenFails \/ StreamUnit \/ StreamBreaks \/ Resume
           \/ StreamEnds \/ VerifyChunk \/ ChunkIsWrong
  BY <1>4, <1>6 DEF OpenStream, OpenFails, StreamUnit, StreamBreaks, Resume, StreamEnds,
     VerifyChunk, ChunkIsWrong, DownloadFails, Reader
<1>7. CASE UNCHANGED chunkVars
  BY <1>1, <1>7 DEF chunkVars
<1> QED
  BY <1>2, <1>3, <1>5, <1>6, <1>7 DEF ChunkNext

(* The reader keeps its place: the units handed over and buffered are the  *)
(* chunks it has verified.                                                 *)
LEMMA ChunkInvKept ==
    ASSUME ChunkAssumption PROVE ChunkInit /\ [][ChunkNext]_chunkVars => []ChunkInv
<1>1. ChunkInit => ChunkInv
  BY ChunkAssumption, ChunkInvInit
<1>2. ChunkInv /\ [ChunkNext]_chunkVars => ChunkInv'
  BY ChunkAssumption, ChunkInvStep
<1> QED
  BY <1>1, <1>2, PTL

(* So it does under the specification. *)
THEOREM ChunkInvariant == ASSUME ChunkAssumption PROVE ChunkSpec => []ChunkInv
BY ChunkInvKept, ChunkAssumption, PTL DEF ChunkSpec

(* The types of all variables, for chunks, parts and budgets of any size.  *)
THEOREM ChunkTypeCorrect == ASSUME ChunkAssumption PROVE ChunkSpec => []ChunkTypeOK
<1>1. ChunkInv => ChunkTypeOK
  BY DEF ChunkInv
<1> QED
  BY <1>1, ChunkInvariant, ChunkAssumption, PTL

(* Whatever is cut short, corrupted, refused, resumed and downloaded again,*)
(* an upload is handed the bytes of the AIP in order and each once.        *)
THEOREM ChunkReaderVerifies == ASSUME ChunkAssumption PROVE ChunkSpec => ChunksVerified
<1>1. ChunkInit => Verified!StreamInit
  BY DEF ChunkInit, Verified!StreamInit, Positions
<1>2. ChunkInv /\ ChunkInv' /\ [ChunkNext]_chunkVars
        => [Verified!StreamNext]_<<Positions,
                                   IF rpc \in {"complete", "failed"} THEN rpc ELSE "open">>
  BY ChunkAssumption, ChunkStepMaps
<1> QED
  BY <1>1, <1>2, ChunkInvariant, ChunkAssumption, PTL
  DEF ChunkSpec, ChunksVerified, Verified!StreamSpec

(* For an AIP of any size, the parts are full but for the last, and never  *)
(* more than S3 accepts.                                                   *)
THEOREM PartsAlwaysFit == ASSUME ChunkAssumption PROVE ChunkSpec => []PartsFit
<1>1. ASSUME ChunkInv PROVE PartsFit
  <2>1. /\ PartSize(Bytes) \in Nat \ {0} /\ Bytes <= MaxParts * PartSize(Bytes)
        /\ Len(parts) \in Nat /\ Len(delivered) <= Bytes /\ MaxParts \in Nat /\ part \in Nat
        /\ DOMAIN parts = 1..Len(parts) /\ Bytes \in Nat /\ Len(delivered) \in Nat
    BY <1>1, ChunkAssumption, ChunkNumbers DEF ChunkInv, ChunkTypeOK, ChunkPlace, ChunkAssumption
  <2>2. rpc \notin {"eof", "complete"} => Len(parts) <= MaxParts
    <3>1. rpc \notin {"eof", "complete"} =>
             Len(parts) * PartSize(Bytes) + part <= MaxParts * PartSize(Bytes)
      BY <1>1, <2>1 DEF ChunkInv, PartsFilled
    <3> QED BY <2>1, <3>1, Cancel
  <2> QED
    BY <1>1, <2>1, <2>2 DEF ChunkInv, PartsFilled, PartsFit
<1> QED
  BY <1>1, ChunkInvariant, ChunkAssumption, PTL

-----------------------------------------------------------------------------
(* DipCopy.  The types of all variables. *)
DipContent == {"absent", "older", "first", "second", "wrong"}
DcpContent == {"absent", "first", "second"}
DipLabel == {"idle", "dcp", "wasabi", "files", "incomplete", "failed", "copied"}
DipTypes ==
    /\ dcp \in [DipFile -> DcpContent]
    /\ wasabi \in [DipFile -> DipContent]
    /\ renewals \in 0..MaxRenewals
    /\ dipAt \in [Request -> DipLabel]
    /\ listed \in [Request -> [DipFile -> DcpContent]]
    /\ existing \in [Request -> [DipFile -> DipContent]]
    /\ todo \in [Request -> SUBSET Served]
    /\ hand \in [Request -> DipContent]
    /\ retries \in [Request -> 0..MaxTransient]
    /\ failed \in [Request -> BOOLEAN]

(* Wasabi has a content of DCP's, as far as the checks of a copy can tell. *)
There(f) ==
    /\ dcp[f] # "absent" /\ wasabi[f] # "absent"
    /\ IF f \in Multi THEN dcp[f] = "first" => Size(f, wasabi[f]) = Size(f, "first")
       ELSE wasabi[f] \in {"first", "second"} /\ (dcp[f] = "first" => wasabi[f] = "first")

(* A listing of DCP is of files that are still there, and at most as new.  *)
ListingOld ==
    \A r \in Request, f \in DipFile :
       /\ listed[r][f] # "absent" => dcp[f] # "absent"
       /\ listed[r][f] = "second" => dcp[f] = "second"

(* A listing of Wasabi holds until a copy of the file replaces it.         *)
ListingReplaced ==
    \A r \in Request, f \in Served :
       existing[r][f] # "absent" => existing[r][f] = wasabi[f] \/ There(f)

(* What a request has in hand passed its checks against the listing.       *)
HandVerified ==
    \A r \in Request : hand[r] # "absent" =>
       /\ Copying(r)
       /\ Size(Current(r), hand[r]) = Size(Current(r), listed[r][Current(r)])
       /\ Current(r) \notin Multi => hand[r] = listed[r][Current(r)]

(* What a request has done without failing is there.                       *)
DoneIsThere ==
    \A r \in Request :
       /\ \A f \in todo[r] : listed[r][f] # "absent"
       /\ \A f \in Served \ todo[r] : listed[r][f] # "absent" /\ ~failed[r] => There(f)
       /\ dipAt[r] = "copied" => todo[r] = {} /\ ~failed[r]

DipInv == ListingOld /\ ListingReplaced /\ HandVerified /\ DoneIsThere

(* The file at hand is one of those left. *)
LEMMA CurrentIsLeft ==
    ASSUME DipTypes, DipAssumption, NEW r \in Request, Copying(r)
    PROVE  Current(r) \in todo[r] /\ Current(r) \in Served /\ Current(r) \in DipFile
BY DEF Copying, Current, DipTypes, DipAssumption

(* Replacing a value of a function by another one of its range. *)
LEMMA UpdateType ==
    ASSUME NEW S, NEW T, NEW fn \in [S -> T], NEW x, NEW y \in T
    PROVE  [fn EXCEPT ![x] = y] \in [S -> T]
OBVIOUS

(* A request that is answered keeps the types of what it resets.           *)
LEMMA AnswerTypes ==
    ASSUME DipTypes, NEW r \in Request, NEW l \in DipLabel, Answers(r, l)
    PROVE  /\ dipAt' \in [Request -> DipLabel]
           /\ failed' \in [Request -> BOOLEAN]
           /\ listed' \in [Request -> [DipFile -> DcpContent]]
           /\ existing' \in [Request -> [DipFile -> DipContent]]
           /\ todo' \in [Request -> SUBSET Served]
<1>1. Nothing \in [DipFile -> DcpContent] /\ Nothing \in [DipFile -> DipContent]
  BY DEF Nothing, DcpContent, DipContent
<1>2. (IF l = "copied" THEN listed[r] ELSE Nothing) \in [DipFile -> DcpContent]
  BY <1>1 DEF DipTypes
<1> QED
  BY <1>1, <1>2, UpdateType DEF DipTypes, Answers, Goes

(* So does one that is done with a file, or tries it again.                *)
LEMMA DoneTypes ==
    ASSUME DipAssumption, DipTypes, NEW r \in Request, NEW f,
           Transient(r, f) \/ (Done(r, f) /\ failed' = failed) \/ FileFails(r, f)
    PROVE  /\ todo' \in [Request -> SUBSET Served]
           /\ retries' \in [Request -> 0..MaxTransient]
           /\ hand' \in [Request -> DipContent]
           /\ failed' \in [Request -> BOOLEAN]
<1>0. /\ todo \in [Request -> SUBSET Served] /\ retries \in [Request -> 0..MaxTransient]
      /\ hand \in [Request -> DipContent] /\ failed \in [Request -> BOOLEAN]
      /\ MaxTransient \in Nat
  BY DEF DipTypes, DipAssumption
<1>1. todo[r] \ {f} \in SUBSET Served /\ "absent" \in DipContent /\ 0 \in 0..MaxTransient
  BY <1>0 DEF DipContent
<1>2. CASE Done(r, f) /\ (failed' = failed \/ failed' = [failed EXCEPT ![r] = TRUE])
  BY <1>0, <1>1, <1>2, UpdateType DEF Done
<1>3. CASE /\ retries[r] < MaxTransient /\ retries' = [retries EXCEPT ![r] = @ + 1]
           /\ hand' = [hand EXCEPT ![r] = "absent"] /\ todo' = todo /\ failed' = failed
  <2>1. retries[r] + 1 \in 0..MaxTransient
    BY <1>0, <1>3
  <2> QED
    BY <1>0, <1>1, <1>3, <2>1, UpdateType
<1> QED
  BY <1>2, <1>3 DEF Transient, FileFails

(* Every variable keeps its type under every step. *)
LEMMA DipTypeStep ==
    ASSUME DipAssumption, DipTypes, [DipNext]_dipVars PROVE DipTypes'
<1>1. ASSUME NEW f \in DipFile, Written(f) \/ Renewed(f) PROVE DipTypes'
  BY <1>1, DipAssumption DEF Written, Renewed, requests, DipTypes, DcpContent, DipAssumption
<1>2. ASSUME NEW r \in Request, ListDcp(r) PROVE DipTypes'
  <2>1. CASE Answers(r, "incomplete")
    BY <1>2, <2>1, AnswerTypes DEF ListDcp, DipTypes, DipLabel
  <2>2. CASE ~Answers(r, "incomplete")
    <3>1. {f \in Served : dcp[f] # "absent"} \in SUBSET Served
      OBVIOUS
    <3>2. dcp \in [DipFile -> DcpContent] /\ {"files", "wasabi"} \subseteq DipLabel
      BY DEF DipTypes, DipLabel
    <3>3. /\ UNCHANGED <<dcp, wasabi, renewals, hand, retries, existing, failed>>
          /\ \E l \in {"files", "wasabi"} : dipAt' = [dipAt EXCEPT ![r] = l]
          /\ listed' = [listed EXCEPT ![r] = dcp]
          /\ todo' = [todo EXCEPT ![r] = {f \in Served : dcp[f] # "absent"}]
      BY <1>2, <2>2 DEF ListDcp, Goes
    <3>4. dipAt' \in [Request -> DipLabel]
      BY <3>2, <3>3, UpdateType DEF DipTypes
    <3>5. listed' \in [Request -> [DipFile -> DcpContent]]
      BY <3>2, <3>3, UpdateType DEF DipTypes
    <3>6. todo' \in [Request -> SUBSET Served]
      BY <3>1, <3>3, UpdateType DEF DipTypes
    <3> QED
      BY <3>3, <3>4, <3>5, <3>6 DEF DipTypes
  <2> QED
    BY <2>1, <2>2
<1>3. ASSUME NEW r \in Request, ListWasabi(r) \/ AskAgain(r) PROVE DipTypes'
  <2>1. /\ UNCHANGED <<dcp, wasabi, renewals, listed, todo, hand, retries, failed>>
        /\ \E l \in {"idle", "dcp", "files"} : dipAt' = [dipAt EXCEPT ![r] = l]
        /\ existing' = existing \/ existing' = [existing EXCEPT ![r] = wasabi]
    BY <1>3 DEF ListWasabi, AskAgain, Goes
  <2>2. dipAt' \in [Request -> DipLabel]
    BY <2>1, UpdateType DEF DipTypes, DipLabel
  <2>3. existing' \in [Request -> [DipFile -> DipContent]]
    <3>1. wasabi \in [DipFile -> DipContent] /\ existing \in [Request -> [DipFile -> DipContent]]
      BY DEF DipTypes
    <3> QED
      BY <2>1, <3>1, UpdateType
  <2> QED
    BY <2>1, <2>2, <2>3 DEF DipTypes
<1>4. ASSUME NEW r \in Request, ListingFails(r) \/ Answered(r) PROVE DipTypes'
  BY <1>4, AnswerTypes DEF ListingFails, Answered, DipTypes, DipLabel
<1>5. ASSUME NEW r \in Request, NEW f, UNCHANGED store,
             Transient(r, f) \/ (Done(r, f) /\ failed' = failed) \/ FileFails(r, f)
      PROVE  DipTypes'
  BY <1>5, DoneTypes DEF store, DipTypes
<1>6. ASSUME NEW r \in Request, Skip(r) \/ ReadBreaks(r) PROVE DipTypes'
  BY <1>6, <1>5 DEF Skip, ReadBreaks
<1>7. ASSUME NEW r \in Request, ReadFile(r) PROVE DipTypes'
  <2>1. /\ UNCHANGED store
        /\ \/ Transient(r, Current(r)) \/ FileFails(r, Current(r))
           \/ \E content \in {dcp[Current(r)], "wrong"} :
                 hand' = [hand EXCEPT ![r] = content] /\ UNCHANGED <<todo, retries, failed>>
    BY <1>7 DEF ReadFile
  <2>2. dcp[Current(r)] \in DipContent /\ "wrong" \in DipContent
    BY <1>7, CurrentIsLeft DEF ReadFile, DipTypes, DipContent, DcpContent
  <2>3. CASE \E content \in {dcp[Current(r)], "wrong"} :
                hand' = [hand EXCEPT ![r] = content] /\ UNCHANGED <<todo, retries, failed>>
    <3>1. hand' \in [Request -> DipContent]
      BY <2>2, <2>3, UpdateType DEF DipTypes
    <3> QED
      BY <2>1, <2>3, <3>1 DEF DipTypes, store
  <2> QED
    BY <2>1, <2>3, <1>5
<1>8. ASSUME NEW r \in Request, PutFile(r) \/ PutBreaks(r) \/ PutDiffers(r) PROVE DipTypes'
  <2>1. /\ UNCHANGED <<dcp, renewals, dipAt, listed, existing>>
        /\ wasabi' = wasabi \/ wasabi' = [wasabi EXCEPT ![Current(r)] = hand[r]]
        /\ \/ Transient(r, Current(r)) \/ FileFails(r, Current(r))
           \/ Done(r, Current(r)) /\ failed' = failed
    BY <1>8 DEF PutFile, PutBreaks, PutDiffers
  <2>2. wasabi' \in [DipFile -> DipContent]
    <3>1. hand[r] \in DipContent /\ wasabi \in [DipFile -> DipContent]
      BY DEF DipTypes
    <3> QED
      BY <2>1, <3>1, UpdateType
  <2> QED
    BY <2>1, <2>2, DoneTypes DEF DipTypes
<1>9. CASE UNCHANGED dipVars
  BY <1>9 DEF dipVars, requests, DipTypes
<1> QED
  BY <1>1, <1>2, <1>3, <1>4, <1>6, <1>7, <1>8, <1>9 DEF DipNext, RequestStep

(* What is there stays, whatever DCP and other requests do.                *)
LEMMA ThereStays ==
    ASSUME DipAssumption, DipTypes, DipInv, [DipNext]_dipVars, NEW f \in Served
    PROVE  /\ There(f) => There(f)'
           /\ wasabi'[f] = wasabi[f] \/ There(f)'
           /\ dcp[f] # "absent" => dcp'[f] # "absent"
<1> USE DEF DipTypes, DipContent, DcpContent
<1>0. f \in DipFile
  BY DEF DipAssumption
<1>1. ASSUME NEW g \in DipFile, Written(g) \/ Renewed(g) PROVE
        /\ There(f) => There(f)'
        /\ wasabi' = wasabi
        /\ dcp[f] # "absent" => dcp'[f] # "absent"
  BY <1>0, <1>1 DEF Written, Renewed, There, Size
<1>2. ASSUME NEW r \in Request, PutFile(r) \/ PutBreaks(r) \/ PutDiffers(r)
      PROVE  dcp' = dcp /\ (wasabi'[f] = wasabi[f] \/ There(f)')
  <2>1. /\ hand[r] # "absent" /\ Copying(r) /\ dcp' = dcp
        /\ wasabi' = wasabi \/ wasabi' = [wasabi EXCEPT ![Current(r)] = hand[r]]
    BY <1>2 DEF PutFile, PutBreaks, PutDiffers
  <2>2. Current(r) \in todo[r] /\ Current(r) \in DipFile
    BY <2>1, CurrentIsLeft
  <2> DEFINE e == Current(r)
  <2>3. /\ listed[r][e] # "absent"
        /\ Size(e, hand[r]) = Size(e, listed[r][e])
        /\ e \notin Multi => hand[r] = listed[r][e]
    BY <2>1, <2>2 DEF DipInv, HandVerified, DoneIsThere
  <2>4. dcp[e] # "absent" /\ (dcp[e] = "first" => listed[r][e] = "first")
        /\ listed[r][e] \in {"first", "second"}
    BY <2>2, <2>3 DEF DipInv, ListingOld
  <2> HIDE DEF e
  <2>5. CASE f = e /\ wasabi' = [wasabi EXCEPT ![e] = hand[r]]
    BY <2>1, <2>3, <2>4, <2>5, <1>0 DEF There
  <2> QED
    BY <2>1, <2>5, <1>0 DEF e
<1>3. ASSUME NEW r \in Request,
             \/ ListDcp(r) \/ ListWasabi(r) \/ ListingFails(r) \/ AskAgain(r) \/ Answered(r)
             \/ Skip(r) \/ ReadFile(r) \/ ReadBreaks(r)
      PROVE  dcp' = dcp /\ wasabi' = wasabi
  BY <1>3 DEF ListDcp, ListWasabi, ListingFails, AskAgain, Answered, Skip, ReadFile, ReadBreaks, store
<1>4. CASE UNCHANGED dipVars
  BY <1>4 DEF dipVars, There
<1> QED
  BY <1>1, <1>2, <1>3, <1>4 DEF DipNext, RequestStep, There

(* A request lists, forgets or keeps its listings, and DCP only moves on.  *)
LEMMA ListingStep ==
    ASSUME DipAssumption, DipTypes, DipInv, [DipNext]_dipVars PROVE ListingOld' /\ ListingReplaced'
<1> USE DEF DipTypes, DcpContent
<1>0. Served \subseteq DipFile
  BY DEF DipAssumption
<1>1. ASSUME NEW f \in DipFile
      PROVE  /\ dcp[f] # "absent" => dcp'[f] # "absent"
             /\ dcp[f] = "second" => dcp'[f] = "second"
  BY DEF DipNext, Written, Renewed, RequestStep, ListDcp, ListWasabi, ListingFails, AskAgain,
         Answered, Skip, ReadFile, ReadBreaks, store, PutFile, PutBreaks, PutDiffers, dipVars
<1>2. ASSUME NEW r \in Request
      PROVE  \/ listed'[r] \in {listed[r], Nothing}
             \/ listed'[r] = dcp /\ dcp' = dcp
  BY DEF DipNext, Written, Renewed, RequestStep, ListDcp, ListWasabi, ListingFails, AskAgain,
         Answered, Skip, ReadFile, ReadBreaks, store, PutFile, PutBreaks, PutDiffers, dipVars,
         requests, Answers
<1>3. ASSUME NEW r \in Request
      PROVE  \/ existing'[r] \in {existing[r], Nothing}
             \/ existing'[r] = wasabi /\ wasabi' = wasabi
  BY DEF DipNext, Written, Renewed, RequestStep, ListDcp, ListWasabi, ListingFails, AskAgain,
         Answered, Skip, ReadFile, ReadBreaks, store, PutFile, PutBreaks, PutDiffers, dipVars,
         requests, Answers
<1>4. ListingOld'
  BY <1>1, <1>2 DEF DipInv, ListingOld, Nothing
<1>5. ListingReplaced'
  BY <1>0, <1>3, ThereStays DEF DipInv, ListingReplaced, Nothing
<1> QED
  BY <1>4, <1>5

(* A copy gets a file in hand, or leaves one, only when its checks pass.   *)
LEMMA HandStep ==
    ASSUME DipAssumption, DipTypes, DipInv, [DipNext]_dipVars PROVE HandVerified'
<1> USE DEF DipTypes
<1>1. ASSUME NEW r \in Request, hand'[r] # "absent", NEW q \in Request, RequestStep(q) \/ AskAgain(q),
             ~(q = r /\ ReadFile(r))
      PROVE  /\ hand'[r] = hand[r] /\ listed'[r] = listed[r] /\ todo'[r] = todo[r]
             /\ dipAt'[r] = dipAt[r]
  <2>1. hand[r] # "absent" => dipAt[r] = "files" /\ todo[r] # {}
    BY DEF DipInv, HandVerified, Copying
  <2>2. CASE q = r
    BY <1>1, <2>1, <2>2 DEF RequestStep, ListDcp, ListWasabi, ListingFails, AskAgain, Answered,
       Skip, ReadBreaks, PutFile, PutBreaks, PutDiffers, Answers, Goes, Done, FileFails, Transient,
       store, Copying
  <2>3. CASE q # r
    BY <1>1, <2>3 DEF RequestStep, ListDcp, ListWasabi, ListingFails, AskAgain, Answered,
       Skip, ReadFile, ReadBreaks, PutFile, PutBreaks, PutDiffers, Answers, Goes, Done, FileFails,
       Transient, store
  <2> QED
    BY <2>2, <2>3
<1>2. ASSUME NEW r \in Request, hand'[r] # "absent", ReadFile(r)
      PROVE  /\ Copying(r) /\ UNCHANGED <<dipAt, listed, todo>>
             /\ Size(Current(r), hand'[r]) = Size(Current(r), listed[r][Current(r)])
             /\ Current(r) \notin Multi => hand'[r] = listed[r][Current(r)]
  BY <1>2 DEF ReadFile, Transient, FileFails, Done, store
<1>3. ASSUME NEW f \in DipFile, Written(f) \/ Renewed(f) PROVE UNCHANGED <<hand, listed, todo, dipAt>>
  BY <1>3 DEF Written, Renewed, requests
<1>4. ASSUME UNCHANGED dipVars PROVE UNCHANGED <<hand, listed, todo, dipAt>>
  BY <1>4 DEF dipVars, requests
<1>5. ASSUME NEW r \in Request, hand'[r] # "absent"
      PROVE  /\ Copying(r)' /\ Current(r)' = Current(r)
             /\ Size(Current(r), hand'[r]) = Size(Current(r), listed'[r][Current(r)])
             /\ Current(r) \notin Multi => hand'[r] = listed'[r][Current(r)]
  <2>1. CASE ReadFile(r)
    BY <1>2, <1>5, <2>1 DEF Copying, Current
  <2>2. CASE /\ hand'[r] = hand[r] /\ listed'[r] = listed[r] /\ todo'[r] = todo[r]
             /\ dipAt'[r] = dipAt[r]
    BY <1>5, <2>2 DEF Copying, Current, DipInv, HandVerified
  <2> QED
    BY <1>1, <1>3, <1>4, <1>5, <2>1, <2>2 DEF DipNext
<1> QED
  BY <1>5 DEF HandVerified, Size

(* A file is done when it is there, and a request that failed says so.     *)
LEMMA DoneStep ==
    ASSUME DipAssumption, DipTypes, DipInv, [DipNext]_dipVars PROVE DoneIsThere'
<1> USE DEF DipTypes
<1> DEFINE Did(r) == /\ \A f \in todo[r] : listed[r][f] # "absent"
                     /\ \A f \in Served \ todo[r] : listed[r][f] # "absent" /\ ~failed[r] => There(f)
                     /\ dipAt[r] = "copied" => todo[r] = {} /\ ~failed[r]
<1>0. \A r \in Request : Did(r)
  BY DEF DipInv, DoneIsThere
<1>1. ASSUME NEW r \in Request, dipAt'[r] = dipAt[r], listed'[r] = listed[r], todo'[r] = todo[r],
             failed'[r] = failed[r]
      PROVE  Did(r)'
  BY <1>0, <1>1, ThereStays
<1>2. ASSUME NEW r \in Request, NEW l \in {"incomplete", "failed"}, Answers(r, l) PROVE Did(r)'
  BY <1>2 DEF Answers, Goes, Nothing, DipAssumption
<1>3. ASSUME NEW r \in Request, NEW f, Copying(r), FileFails(r, f), UNCHANGED <<dipAt, listed>>
      PROVE  Did(r)'
  BY <1>0, <1>3 DEF FileFails, Done, Copying
<1>4. ASSUME NEW r \in Request, NEW e \in Served, Copying(r), Done(r, e), There(e)',
             UNCHANGED <<dipAt, listed, failed>>
      PROVE  Did(r)'
  BY <1>0, <1>4, ThereStays DEF Done, Copying
<1>5. ASSUME NEW r \in Request, ListDcp(r) PROVE Did(r)'
  BY <1>2, <1>5 DEF ListDcp, Goes
<1>6. ASSUME NEW r \in Request, Skip(r) PROVE Did(r)'
  <2>1. PICK e \in Served : e = Current(r) /\ e \in todo[r] /\ e \in DipFile
    BY <1>6, CurrentIsLeft DEF Skip
  <2>2. /\ listed[r][e] \in {"first", "second"} /\ dcp[e] # "absent"
        /\ dcp[e] = "first" => listed[r][e] = "first"
    BY <1>0, <2>1 DEF DipInv, ListingOld, DcpContent
  <2>3. HasCopy(r, e)
    BY <1>6, <2>1 DEF Skip
  <2>4. There(e)
    BY <2>2, <2>3 DEF HasCopy, DipInv, ListingReplaced, There, Size
  <2> QED
    BY <1>4, <1>6, <2>1, <2>4, ThereStays DEF Skip, store
<1>7. ASSUME NEW r \in Request, PutFile(r) PROVE Did(r)'
  <2>1. PICK e \in Served : e = Current(r) /\ e \in todo[r] /\ e \in DipFile
    BY <1>7, CurrentIsLeft DEF PutFile
  <2>2. /\ listed[r][e] \in {"first", "second"} /\ dcp[e] # "absent"
        /\ dcp[e] = "first" => listed[r][e] = "first"
    BY <1>0, <2>1 DEF DipInv, ListingOld, DcpContent
  <2>3. /\ hand[r] # "absent" /\ Size(e, hand[r]) = Size(e, listed[r][e])
        /\ e \notin Multi => hand[r] = listed[r][e]
    BY <1>7, <2>1 DEF PutFile, DipInv, HandVerified
  <2>4. wasabi'[e] = hand[r] /\ dcp' = dcp
    BY <1>7, <2>1 DEF PutFile
  <2>5. There(e)'
    BY <2>2, <2>3, <2>4 DEF There, Size
  <2> QED
    BY <1>4, <1>7, <2>1, <2>5 DEF PutFile
<1>8. ASSUME NEW r \in Request, Answered(r) PROVE Did(r)'
  <2>1. CASE failed[r]
    BY <1>2, <1>8, <2>1 DEF Answered
  <2>2. CASE ~failed[r]
    BY <1>0, <1>8, <2>2, ThereStays DEF Answered, Answers, Goes
  <2> QED
    BY <2>1, <2>2
<1>9. ASSUME NEW r \in Request, NEW f, Copying(r), Transient(r, f), UNCHANGED <<dipAt, listed>>
      PROVE  Did(r)'
  BY <1>1, <1>3, <1>9 DEF Transient
<1>10. ASSUME NEW r \in Request, ListWasabi(r) \/ AskAgain(r) PROVE Did(r)'
  BY <1>0, <1>10, ThereStays DEF ListWasabi, AskAgain, Goes
<1>11. ASSUME NEW r \in Request, ReadFile(r) PROVE Did(r)'
  <2>1. CASE Transient(r, Current(r)) \/ FileFails(r, Current(r))
    BY <1>3, <1>9, <1>11, <2>1 DEF ReadFile, store
  <2>2. CASE UNCHANGED <<todo, failed>>
    BY <1>1, <1>11, <2>2 DEF ReadFile, store
  <2> QED
    BY <1>11, <2>1, <2>2 DEF ReadFile
<1>12. ASSUME NEW r \in Request, RequestStep(r) \/ AskAgain(r) PROVE Did(r)'
  <2>1. ASSUME ReadBreaks(r) \/ PutBreaks(r) \/ PutDiffers(r) PROVE Did(r)'
    BY <1>3, <1>9, <2>1 DEF ReadBreaks, PutBreaks, PutDiffers, store
  <2>2. ASSUME ListingFails(r) PROVE Did(r)'
    BY <1>2, <2>2 DEF ListingFails
  <2> QED
    BY <1>5, <1>6, <1>7, <1>8, <1>10, <1>11, <1>12, <2>1, <2>2 DEF RequestStep
<1>13. ASSUME NEW r \in Request, NEW q \in Request \ {r}, RequestStep(q) \/ AskAgain(q) PROVE Did(r)'
  <2>1. /\ dipAt'[r] = dipAt[r] /\ listed'[r] = listed[r] /\ todo'[r] = todo[r]
        /\ failed'[r] = failed[r]
    BY <1>13 DEF RequestStep, ListDcp, ListWasabi, ListingFails, AskAgain, Answered,
       Skip, ReadFile, ReadBreaks, PutFile, PutBreaks, PutDiffers, Answers, Goes, Done, FileFails,
       Transient, store
  <2> QED
    BY <1>1, <2>1
<1>14. ASSUME NEW r \in Request, NEW f \in DipFile, Written(f) \/ Renewed(f) PROVE Did(r)'
  BY <1>1, <1>14 DEF Written, Renewed, requests
<1>15. ASSUME NEW r \in Request, UNCHANGED dipVars PROVE Did(r)'
  BY <1>1, <1>15 DEF dipVars, requests
<1>16. \A r \in Request : Did(r)'
  BY <1>12, <1>13, <1>14, <1>15 DEF DipNext
<1> QED
  BY <1>16 DEF DoneIsThere

(* The invariant holds of every behaviour. *)
LEMMA DipInvariant == ASSUME DipAssumption PROVE DipSpec => [](DipTypes /\ DipInv)
<1>1. DipInit => DipTypes /\ DipInv
  <2> SUFFICES ASSUME DipInit PROVE DipTypes /\ DipInv
    OBVIOUS
  <2>1. DipTypes
    BY DipAssumption DEF DipAssumption, DipInit, DipTypes, DipContent, DcpContent, DipLabel, Nothing
  <2>2. DipInv
    BY DipAssumption DEF DipAssumption, DipInit, DipInv, ListingOld, ListingReplaced, HandVerified,
                         DoneIsThere, Nothing
  <2> QED
    BY <2>1, <2>2
<1>2. DipTypes /\ DipInv /\ [DipNext]_dipVars => DipTypes' /\ DipInv'
  BY DipAssumption, DipTypeStep, ListingStep, HandStep, DoneStep DEF DipInv
<1> QED
  BY <1>1, <1>2, PTL DEF DipSpec

(* The types of all variables, for any files, requests and bounds.         *)
THEOREM DipTypeCorrect == ASSUME DipAssumption PROVE DipSpec => []DipTypeOK
<1>1. DipTypes => DipTypeOK
  BY DEF DipTypes, DipTypeOK, DipContent, DcpContent, DipLabel
<1> QED
  BY <1>1, DipInvariant, DipAssumption, PTL

(* "copied" is true: every served file that was listed has in Wasabi a     *)
(* content of DCP's, whatever other requests copy, is replaced meanwhile   *)
(* or breaks (lib/dip_ops.py:282-302, 404-417).                            *)
THEOREM CopiedIsThere == ASSUME DipAssumption PROVE DipSpec => []DipOkMeansThere
<1>1. DipTypes /\ DipInv => DipOkMeansThere
  BY DipAssumption DEF DipAssumption, DipTypes, DipInv, DoneIsThere, There, DipOkMeansThere
<1> QED
  BY <1>1, DipInvariant, DipAssumption, PTL

-----------------------------------------------------------------------------
(* Transfers.  Side by side, each component makes its own steps: those of  *)
(* the others leave it as it is.                                           *)
THEOREM TransfersApart ==
    TransfersSpec => /\ ChunkInit /\ [][ChunkNext]_chunkVars
                     /\ DcpInit /\ [][DcpNext]_dcpReaderVars
                     /\ SlotsInit /\ [][SlotsNext]_slotVars
                     /\ UsageInit /\ [][UsageNext]_usageVars
                     /\ DipSpec /\ DerivativeSpec
<1>1. TransfersInit => /\ ChunkInit /\ DcpInit /\ SlotsInit /\ UsageInit
                       /\ DipInit /\ DerivativeInit
  BY DEF TransfersInit
<1>2. ASSUME [TransfersNext]_transferVars
      PROVE  /\ [ChunkNext]_chunkVars /\ [DcpNext]_dcpReaderVars /\ [SlotsNext]_slotVars
             /\ [UsageNext]_usageVars /\ [DipNext]_dipVars /\ [DerivativeNext]_derivativeVars
  BY <1>2 DEF TransfersNext, Chunks, DcpObject, Slots, Usage, Dips, Images, transferVars
<1> QED
  BY <1>1, <1>2, PTL DEF TransfersSpec, DipSpec, DerivativeSpec

(* All variables of the transfers keep their types, whichever component    *)
(* moves.                                                                  *)
THEOREM TransferTypesCorrect ==
    ASSUME ChunkAssumption, DcpAssumption, SlotsAssumption, UsageAssumption, DipAssumption,
           DerivativeAssumption
    PROVE  TransfersSpec => []TransferTypesOK
<1>1. ChunkInv /\ DcpInv /\ SlotsTypeOK /\ UsageTypeOK /\ DipTypeOK /\ DerivativeTypeOK
         => TransferTypesOK
  BY DEF TransferTypesOK, ChunkInv, DcpInv
<1> QED
  BY <1>1, TransfersApart, ChunkInvKept, DcpInvariant, SlotsTypesKept, UsageTypesKept,
     DipTypeCorrect, DerivativeTypeCorrect, ChunkAssumption, DcpAssumption, SlotsAssumption,
     UsageAssumption, DipAssumption, DerivativeAssumption, PTL
=============================================================================
