----------------------------- MODULE MCManager -----------------------------
(* Instances of Manager for TLC. *)
EXTENDS Manager, TLC

\* Requests are interchangeable, and so are configurations.
Symmetry == Permutations(Handlers) \cup Permutations(Configs)
=============================================================================
