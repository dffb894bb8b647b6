--------------------------- MODULE VerifiedStream ---------------------------
(***************************************************************************)
(* What an upload may rely on when it reads an object through one of the   *)
(* readers of lib/duracloud_ops.py: it is handed the object's bytes, in    *)
(* order and each once, and is told that it has all of them only when it   *)
(* has; until then the reader may give up.                                 *)
(***************************************************************************)
EXTENDS Naturals, Sequences

CONSTANT Total    \* the size of the object: its bytes are 1, ..., Total

VARIABLES
    out,          \* the bytes handed over
    end           \* "open", "complete" or "failed"

Object == [i \in 1..Total |-> i]

StreamInit == out = <<>> /\ end = "open"

Deliver ==
    /\ end = "open"
    /\ \E n \in 1..Total : Len(out) < n /\ out' = SubSeq(Object, 1, n)
    /\ UNCHANGED end
Complete == end = "open" /\ out = Object /\ end' = "complete" /\ UNCHANGED out
GiveUp == end = "open" /\ end' = "failed" /\ UNCHANGED out

StreamNext == Deliver \/ Complete \/ GiveUp
StreamSpec == StreamInit /\ [][StreamNext]_<<out, end>>
=============================================================================
