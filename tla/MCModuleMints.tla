---------------------------- MODULE MCModuleMints ----------------------------
(* TLC instance of ModuleMints: one minter, since minters share nothing. *)
EXTENDS ModuleMints
=============================================================================
