----------------------------- MODULE MCTaskQueue -----------------------------
(* Instances of TaskQueue for TLC. *)
EXTENDS TaskQueue
=============================================================================
