---------------------------- MODULE MCModuleSeams ----------------------------
(* TLC instance of ModuleSeams: two goroutines over every configuration. *)
EXTENDS ModuleSeams
=============================================================================
