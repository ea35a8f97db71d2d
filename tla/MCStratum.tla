----------------------------- MODULE MCStratum -----------------------------
(* Instances of Stratum for TLC. *)
EXTENDS Stratum, TLC

Symmetry == Permutations(Workers)
=============================================================================
