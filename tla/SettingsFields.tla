------------------------------ MODULE SettingsFields ------------------------------
(***************************************************************************)
(* What package settings promises to product code: settings are a flat     *)
(* collection of typed fields, each present with a value or absent, and    *)
(* product code "never traverses protobuf parents or JSON keys"            *)
(* (README.md:476).  An operation on one field touches that field alone.   *)
(* SettingsDocument shows how the package does it over nested messages.    *)
(***************************************************************************)
EXTENDS Functions

CONSTANTS
    Writers,   \* the processes that share the database
    Leaves,    \* the settings fields of every schema ever deployed
    Values,    \* what a field may hold
    Default,   \* the configured default of every field
    Known      \* Known[w]: the fields of the schema w was built with

VARIABLES
    stored,    \* the document in the database: present fields and their values
    held       \* held[w]: the document w has in memory

vars == <<stored, held>>

Settings == UNION {[S -> Values] : S \in SUBSET Leaves}

(* Only the fields w knows can be addressed through w's catalog. *)
Visible(w, d) == Restrict(d, DOMAIN d \cap Known[w])

Put(d, f, v) == [g \in DOMAIN d \cup {f} |-> IF g = f THEN v ELSE d[g]]

Hold(w, d) == held' = [held EXCEPT ![w] = d]

TypeOK == /\ stored \in Settings
          /\ held \in [Writers -> Settings]

Init == /\ stored \in Settings
        /\ held = [w \in Writers |-> Visible(w, stored)]

Load(w) == Hold(w, Visible(w, stored)) /\ UNCHANGED stored

Receive(w) == /\ \E u \in Writers \ {w} : Hold(w, held[u])
              /\ UNCHANGED stored

Set(w, f) == (\E v \in Values : Hold(w, Put(held[w], f, v))) /\ UNCHANGED stored

ApplyDefault(w, f) == /\ f \notin DOMAIN held[w]
                      /\ Hold(w, Put(held[w], f, Default))
                      /\ UNCHANGED stored

Clear(w, f) == /\ Hold(w, Restrict(held[w], DOMAIN held[w] \ {f}))
               /\ UNCHANGED stored

Save(w) == stored' = Visible(w, held[w]) /\ UNCHANGED held

Next == \E w \in Writers :
           \/ Load(w) \/ Receive(w) \/ Save(w)
           \/ \E f \in Leaves \cap Known[w] : Set(w, f) \/ ApplyDefault(w, f) \/ Clear(w, f)

Spec == Init /\ [][Next]_vars
===================================================================================
