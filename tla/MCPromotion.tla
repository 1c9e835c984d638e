----------------------------- MODULE MCPromotion -----------------------------
(* Instances of Promotion for TLC. *)
EXTENDS Promotion, TLC

(* Callers are interchangeable, and so are the versions other than the seed. *)
Symmetry == Permutations(Callers) \cup Permutations(Versions \ {Seed})
=============================================================================
