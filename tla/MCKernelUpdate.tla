---------------------------- MODULE MCKernelUpdate ----------------------------
(* Instances of KernelUpdate for TLC.                                       *)
EXTENDS KernelUpdate
=============================================================================
