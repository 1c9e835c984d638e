--------------------------- MODULE MCSelfModifyView ---------------------------
(* Instances of SelfModifyView for TLC. *)
EXTENDS SelfModifyView
=============================================================================
