--------------------------- MODULE MCOutlineApply ---------------------------
(* OutlineApply on small instances. *)
EXTENDS OutlineApply, TLC

Symmetry == Permutations(Templates) \cup Permutations(Plans)

=============================================================================
