---------------------------- MODULE MCSftpUpload ----------------------------
(* Small instances of SftpUpload for TLC. *)
EXTENDS SftpUpload, TLC

NoCleanup == {}
AnyCleanup == {"cleanup", "rollback"}

(* Workers, packages and files are interchangeable (not used with Settles). *)
Symmetric == Permutations(Worker) \cup Permutations(Pkg) \cup Permutations(File)
=============================================================================
