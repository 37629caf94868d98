--------------------------- MODULE MCRevisionSet ---------------------------
(* Variables and schemas are interchangeable. *)
EXTENDS RevisionSet, TLC

Symmetry == Permutations(Var) \cup Permutations(Signature)
=============================================================================
