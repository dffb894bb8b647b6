------------------------------ MODULE MCStaging ------------------------------
(* Small instances of Staging for TLC. *)
EXTENDS Staging, TLC

AllRequests == {"in", "rb", "ar"}
Moves == {"in", "rb"}

(* Workers and packages are interchangeable (not used with Answered). *)
Symmetric == Permutations(Worker) \cup Permutations(Pkg)
=============================================================================
