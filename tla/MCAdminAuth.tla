---------------------------- MODULE MCAdminAuth ----------------------------
(* AdminAuth with interchangeable handlers.                                *)
EXTENDS AdminAuth, TLC

Symmetry == Permutations(Handlers)
=============================================================================
