----------------------------- MODULE MCFilePool -----------------------------
(* Three files over one thread, fewer threads than files, and more. *)
EXTENDS FilePool
=============================================================================
