------------------------- MODULE MCDatasourceEffects -------------------------
(* TLC instances of DatasourceEffects: workers and inputs are interchangeable. *)
EXTENDS DatasourceEffects, TLC

Symmetry == Permutations(Workers) \cup Permutations(Inputs)
=============================================================================
