------------------------ MODULE MCSourceDeclarations ------------------------
(* TLC instances of SourceDeclarations. *)
EXTENDS SourceDeclarations, TLC

Op(effect, input, route) == [effect |-> effect, input |-> input, route |-> route]
Plain == Op("MUTATION", "schema", "r1")
Bare == Op("READ_ONLY", None, "r2")

\* One set that can be listed, and two that cannot.
MCHostSets ==
  {"a" :> Plain @@ "b" :> Bare, "a" :> Plain @@ "b" :> Op("FUTURE", None, "r1"),
   "a" :> Op("UNSPECIFIED", "empty", "r1")}

MCChanges == {Op("READ_ONLY", "empty", "r1"), Op("other", "schema", "r2"),
              Op("MUTATION", "bad", "r1")}

Symmetry == Permutations(Admins)
=============================================================================
