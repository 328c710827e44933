---------------------------- MODULE EffectPromise ----------------------------
(***************************************************************************)
(* What a caller of datasource operations is promised, without requests,   *)
(* replies or a host: an effect ID stands for at most one act at the       *)
(* provider, what a caller has been told of its effect stays true, and it  *)
(* keeps its ID until it has been told or has crashed.                     *)
(***************************************************************************)
CONSTANTS Workers, Calls, Ids, NoEffect

VARIABLES kept,    \* the ID persisted with the job, if any
          effect,  \* the ID each worker goes by
          used,    \* IDs in use
          acted,   \* by ID, who acted at the provider, in which call
          told     \* what each worker has been told

vars == <<kept, effect, used, acted, told>>

Init ==
  /\ kept \in Ids \cup {NoEffect}
  /\ effect = [w \in Workers |-> kept]
  /\ used \in SUBSET Ids /\ {kept} \cap Ids \subseteq used
  /\ acted = [e \in Ids |-> {}]
  /\ told = [w \in Workers |-> "nothing"]

\* A worker without an ID gets one that nobody has used.
Adopt(w, e) ==
  /\ told[w] = "nothing" /\ effect[w] = NoEffect
  /\ e \in Ids \ used
  /\ effect' = [effect EXCEPT ![w] = e]
  /\ used' = used \cup {e}
  /\ UNCHANGED <<kept, acted, told>>

\* One act per ID, and none by a worker that was told there would be none.
Act(w, c, e) ==
  /\ e \in used /\ acted[e] = {}
  /\ ~(told[w] = "refused" /\ effect[w] = e)
  /\ acted' = [acted EXCEPT ![e] = {<<w, c>>}]
  /\ UNCHANGED <<kept, effect, used, told>>

Committed(w) ==
  /\ told[w] = "nothing" /\ effect[w] # NoEffect
  /\ acted[effect[w]] # {}
  /\ told' = [told EXCEPT ![w] = "committed"]
  /\ UNCHANGED <<kept, effect, used, acted>>

Refused(w) ==
  /\ told[w] = "nothing"
  /\ effect[w] # NoEffect => ~\E c \in Calls : <<w, c>> \in acted[effect[w]]
  /\ told' = [told EXCEPT ![w] = "refused"]
  /\ UNCHANGED <<kept, effect, used, acted>>

\* A crash leaves a worker with what was persisted.
Crash(w) ==
  /\ told[w] = "nothing"
  /\ effect' = [effect EXCEPT ![w] = kept]
  /\ UNCHANGED <<kept, used, acted, told>>

Next ==
  \E w \in Workers :
    \/ \E e \in Ids : Adopt(w, e)
    \/ \E c \in Calls, e \in Ids : Act(w, c, e)
    \/ Committed(w) \/ Refused(w) \/ Crash(w)

Spec == Init /\ [][Next]_vars
=============================================================================
