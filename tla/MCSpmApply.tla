----------------------------- MODULE MCSpmApply -----------------------------
(* SpmApply on small instances, with its mutants. *)
EXTENDS SpmApply, TLC

Symmetry == Permutations(Templates)

=============================================================================
