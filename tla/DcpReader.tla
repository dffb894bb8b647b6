------------------------------ MODULE DcpReader ------------------------------
(***************************************************************************)
(* DcpStreamReader (lib/duracloud_ops.py:467-579): one object of DuraCloud *)
(* Preserve as a stream.  It breaks or ends short at any byte and is       *)
(* resumed there, for as long as it progresses; the resumed request is     *)
(* pinned to the ETag of the first one, for the object may be replaced.    *)
(***************************************************************************)
EXTENDS Naturals, Sequences

CONSTANTS
    ObjectSize,       \* bytes of the object
    MaxBreaks,        \* max_resumes
    MaxReplacements   \* bound on replacements of the object

ASSUME DcpAssumption ==
    ObjectSize \in Nat \ {0} /\ MaxBreaks \in Nat /\ MaxReplacements \in Nat

VARIABLES
    version,      \* which object DCP holds under the key
    etag,         \* the one the reader has opened first
    source,       \* the one its open stream is of
    dpc,          \* program point of the reader
    breaks,       \* self._resumes: breaks in a row
    lastBreak,    \* self._last_break
    received      \* <<version, position>> of every byte handed over

dcpReaderVars == <<version, etag, source, dpc, breaks, lastBreak, received>>

DcpInit ==
    /\ version = 0 /\ etag = 0 /\ source = 0
    /\ dpc = "body"
    /\ breaks = 0
    /\ lastBreak = 0
    /\ received = <<>>

(* The open stream has another byte.                                       *)
ReadBody ==
    /\ dpc = "body" /\ Len(received) < ObjectSize
    /\ received' = Append(received, <<source, Len(received) + 1>>)
    /\ UNCHANGED <<version, etag, source, dpc, breaks, lastBreak>>

(* _finish.                                                                *)
Finished ==
    /\ dpc = "body" /\ Len(received) = ObjectSize
    /\ dpc' = "complete"
    /\ UNCHANGED <<version, etag, source, breaks, lastBreak, received>>

(* Mutant: progress does not renew the budget, nor is it used up.          *)
BreaksForEver ==
    /\ dpc = "body" /\ Len(received) < ObjectSize
    /\ dpc' = "resume"
    /\ UNCHANGED <<version, etag, source, breaks, lastBreak, received>>

(* _resume: the stream ended short or raised.  Progress since the last     *)
(* break renews the budget.                                                *)
Breaks ==
    /\ dpc = "body" /\ Len(received) < ObjectSize
    /\ LET row == IF Len(received) > lastBreak THEN 0 ELSE breaks IN
       IF row < MaxBreaks THEN breaks' = row + 1 /\ dpc' = "resume"
       ELSE breaks' = row /\ dpc' = "failed"
    /\ lastBreak' = Len(received)
    /\ UNCHANGED <<version, etag, source, received>>

(* Mutant: the resumed request is not pinned.                              *)
OpenRangeUnpinned ==
    /\ dpc = "resume"
    /\ source' = version
    /\ dpc' = "body"
    /\ UNCHANGED <<version, etag, breaks, lastBreak, received>>

(* open_range with If-Match, from the next byte; an object replaced since  *)
(* then answers 412, and any other error also ends the read.               *)
OpenRange ==
    /\ dpc = "resume" /\ version = etag
    /\ source' = version
    /\ dpc' = "body"
    /\ UNCHANGED <<version, etag, breaks, lastBreak, received>>
OpenRangeFails ==
    /\ dpc = "resume"
    /\ dpc' = "failed"
    /\ UNCHANGED <<version, etag, source, breaks, lastBreak, received>>

(* The object is replaced; an open stream stays with what it was opened on.*)
ObjectReplaced ==
    /\ version < MaxReplacements
    /\ version' = version + 1
    /\ UNCHANGED <<etag, source, dpc, breaks, lastBreak, received>>

DcpStep == ReadBody \/ Finished \/ Breaks \/ OpenRange \/ OpenRangeFails
DcpNext == DcpStep \/ ObjectReplaced
DcpFairness == WF_dcpReaderVars(DcpStep)
DcpSpec == DcpInit /\ [][DcpNext]_dcpReaderVars /\ DcpFairness

-----------------------------------------------------------------------------
(* The types of all variables.                                             *)
DcpTypeOK ==
    /\ version \in 0..MaxReplacements /\ etag = 0 /\ source \in 0..version
    /\ dpc \in {"body", "resume", "complete", "failed"}
    /\ breaks \in 0..MaxBreaks
    /\ lastBreak \in 0..ObjectSize
    /\ received \in Seq((0..MaxReplacements) \X (1..ObjectSize))

(* Wherever the stream breaks and whenever the object is replaced, what is *)
(* handed over is a VerifiedStream of the object first opened: no byte is  *)
(* lost, repeated or another object's (:471-486).                          *)
OwnPositions == [i \in DOMAIN received |-> IF received[i][1] = etag THEN received[i][2] ELSE 0]
Pinned == INSTANCE VerifiedStream WITH
              Total <- ObjectSize, out <- OwnPositions,
              end <- IF dpc \in {"complete", "failed"} THEN dpc ELSE "open"
DcpVerified == Pinned!StreamSpec

(* The budget bounds breaks at one byte, so the read ends (:480-483).      *)
DcpStreamEnds == <>(dpc \in {"complete", "failed"})
=============================================================================
