--------------------------- MODULE MCTrainingTask ---------------------------
(* TrainingTask on small instances, with its mutants. *)
EXTENDS TrainingTask, TLC

Symmetry == Permutations(Templates)

=============================================================================
