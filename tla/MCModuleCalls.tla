---------------------------- MODULE MCModuleCalls ----------------------------
(* TLC instance of ModuleCalls: two artifacts expect different revisions. *)
EXTENDS ModuleCalls, TLC

CONSTANTS a1, a2

MCIds == {a1, a2}
MCRevision == a1 :> 0 @@ a2 :> 1
=============================================================================
