-------------------------- MODULE MCModuleAuthority --------------------------
(* TLC instance of ModuleAuthority: two goroutines that share one client. *)
EXTENDS ModuleAuthority
=============================================================================
