------------------------- MODULE MCWorkContextSources -------------------------
(* TLC instances of WorkContextSources: askers, questions and identifiers are  *)
(* each interchangeable, as any question may repeat any identifier.            *)
EXTENDS WorkContextSources, TLC

MCBounds == {-1, 0, 2}
MCEntries == {-1, 0, 1}

\* The settings of a source built with none.
Zero == {0}

Symmetry == Permutations(Askers) \cup Permutations(Questions) \cup Permutations(Identifiers)
=============================================================================
