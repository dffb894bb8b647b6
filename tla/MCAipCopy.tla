------------------------------ MODULE MCAipCopy ------------------------------
(* Small instances of AipCopy for TLC. *)
EXTENDS AipCopy, TLC

(* Callers are interchangeable. *)
Symmetric == Permutations(Caller)
=============================================================================
