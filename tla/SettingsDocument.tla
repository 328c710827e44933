----------------------------- MODULE SettingsDocument -----------------------------
(***************************************************************************)
(* Typed settings over nested protobuf messages (settings/field.go) and    *)
(* their sparse JSON storage (settings/json.go), shared by processes that  *)
(* may have been built with different versions of the schema.              *)
(*                                                                         *)
(* A message is the tree of its present nodes: a function from present     *)
(* nodes to a value (a leaf) or to Object (a submessage).  A node a        *)
(* process's schema does not know stays in a message that came over the    *)
(* wire, as unknown bytes of the nearest message that is known, and        *)
(* messageEmpty counts it; JSON neither reads nor writes it.               *)
(***************************************************************************)
EXTENDS FiniteSets, Functions, Naturals

CONSTANTS
    Writers,     \* the processes that share the database
    Leaves,      \* the settings fields of every schema ever deployed
    Parents,     \* the submessages that enclose them
    Path,        \* Path[n]: the submessages that enclose node n
    Known,       \* Known[w]: the nodes of the schema w was built with
    Values,      \* the values a field accepts
    Default,     \* the configured default of every field
    Object,      \* marks a present submessage
    Maximum      \* JSONCodec.maximum, counting nodes for bytes

Nodes == Leaves \cup Parents

(* A schema nests: the submessages around a node form a chain, and a schema
   that has a node has what encloses it. *)
ASSUME SchemaAssumption ==
    /\ Leaves \cap Parents = {}
    /\ Path \in [Nodes -> SUBSET Parents]
    /\ \A n \in Nodes : \A p, q \in Path[n] :
          /\ p # q => p \in Path[q] \/ q \in Path[p]
          /\ Path[p] \subseteq Path[n] \ {p}
    /\ Known \in [Writers -> SUBSET Nodes]
    /\ \A w \in Writers : \A n \in Known[w] : Path[n] \subseteq Known[w]

ASSUME ValuesAssumption == Default \in Values /\ Object \notin Values

ASSUME MaximumAssumption == Maximum \in Nat

VARIABLES
    stored,      \* the document in the database
    held         \* held[w]: the message w has in memory

vars == <<stored, held>>

---------------------------------------------------------------------------
(* The messages: trees in which every present node is enclosed. *)

Messages == {m \in UNION {[S -> Values \cup {Object}] : S \in SUBSET Nodes} :
                \A n \in DOMAIN m : /\ Path[n] \subseteq DOMAIN m
                                    /\ m[n] = Object <=> n \in Parents}

Without(m, S) == Restrict(m, DOMAIN m \ S)

(* The present nodes somewhere inside submessage p. *)
Inside(m, p) == {n \in DOMAIN m : p \in Path[n]}

(* The loops at the end of Set and Clear climb a chain from its innermost
   submessage and stop at the first that is not empty: what they remove is
   what holds nothing outside the chain. *)
Hollowed(m, chain) == {p \in chain \cap DOMAIN m : Inside(m, p) \subseteq chain}

Hollow(m) == {p \in DOMAIN m \cap Parents : Inside(m, p) = {}}

(* What Lookup finds: a present field's value.  Get falls back to Default. *)
Lookup(m, f) == IF f \in DOMAIN m THEN {m[f]} ELSE {}

(* Mutable materializes every missing parent on the way to the leaf. *)
Materialized(m, f) ==
    [n \in DOMAIN m \cup Path[f] |-> IF n \in DOMAIN m THEN m[n] ELSE Object]

(* A slip: Set writes the leaf without materializing its parents. *)
AssignedBare(m, f, v) ==
    [n \in DOMAIN m \cup {f} |-> IF n = f THEN v ELSE m[n]]

Assigned(m, f, v) ==
    LET grown == Materialized(m, f)
    IN  [n \in DOMAIN grown \cup {f} |-> IF n = f THEN v ELSE grown[n]]

(* A slip: Rollback takes every empty parent on the path, created or not. *)
RolledBackEmpty(m, f) ==
    LET grown == Materialized(m, f) IN Without(grown, Hollowed(grown, Path[f]))

(* The field's assign refuses a value the field's enum does not define; the parents the
   call created are taken away again. *)
RolledBack(m, f) ==
    LET grown == Materialized(m, f)
    IN  Without(grown, Hollowed(grown, Path[f] \ DOMAIN m))

(* A slip: Clear removes the submessage around the leaf whatever else it holds. *)
ClearedWhole(m, f) ==
    IF Path[f] \subseteq DOMAIN m
    THEN Without(m, {f} \cup {n \in DOMAIN m : Path[f] # {} /\ Path[f] \subseteq Path[n]})
    ELSE m

(* A slip: Clear prunes nothing. *)
ClearedUnpruned(m, f) == Without(m, {f})

Cleared(m, f) ==
    IF Path[f] \subseteq DOMAIN m
    THEN LET rest == Without(m, {f}) IN Without(rest, Hollowed(rest, Path[f]))
    ELSE m

(* protojson with DiscardUnknown reads, and with UseProtoNames writes, the
   nodes of the process's own schema. *)
Unmarshal(w, d) == Restrict(d, DOMAIN d \cap Known[w])

Marshal(w, m) == Restrict(m, DOMAIN m \cap Known[w])

Fits(d) == Cardinality(DOMAIN d) <= Maximum

(* newField resolves every path of a catalog against the process's schema. *)
Catalog(w) == Leaves \cap Known[w]

---------------------------------------------------------------------------
Hold(w, m) == held' = [held EXCEPT ![w] = m]

Init == /\ stored \in {d \in Messages : Fits(d)}
        /\ held = [w \in Writers |-> Unmarshal(w, stored)]

Load(w) == /\ Fits(stored)
           /\ Hold(w, Unmarshal(w, stored))
           /\ UNCHANGED stored

(* Another process sends its message, with what this one does not know. *)
Receive(w) == /\ \E u \in Writers \ {w} : Hold(w, held[u])
              /\ UNCHANGED stored

Set(w, f) == /\ \E v \in Values : Hold(w, Assigned(held[w], f, v))
             /\ UNCHANGED stored

SetRefused(w, f) == /\ Hold(w, RolledBack(held[w], f))
                    /\ UNCHANGED stored

ApplyDefault(w, f) == /\ Lookup(held[w], f) = {}
                      /\ Hold(w, Assigned(held[w], f, Default))
                      /\ UNCHANGED stored

Clear(w, f) == /\ Hold(w, Cleared(held[w], f))
               /\ UNCHANGED stored

Save(w) == /\ Fits(Marshal(w, held[w]))
           /\ stored' = Marshal(w, held[w])
           /\ UNCHANGED held

Edit(w) == \E f \in Catalog(w) :
              Set(w, f) \/ SetRefused(w, f) \/ ApplyDefault(w, f) \/ Clear(w, f)

Next == \E w \in Writers : Load(w) \/ Receive(w) \/ Edit(w) \/ Save(w)

Spec == Init /\ [][Next]_vars

---------------------------------------------------------------------------
(* What is in the database and in memory are messages of the schema: nothing
   is present without what encloses it (Field.Set, Field.Clear). *)
TypeOK == /\ stored \in Messages
          /\ held \in [Writers -> Messages]

(* The package is the flat collection of fields SettingsFields describes:
   no operation on a field creates, changes or removes another, whatever the
   nesting (Field.Set, Clear, ApplyDefault, JSONCodec). *)
Flat(m) == Restrict(m, DOMAIN m \cap Leaves)

Fields == INSTANCE SettingsFields WITH
             stored <- Flat(stored),
             held <- [w \in Writers |-> Flat(held[w])],
             Known <- [w \in Writers |-> Catalog(w)]

FieldsImplemented == Fields!Spec

(* No operation on a field leaves behind an empty submessage that was not
   there before, which ProtoJSON would store as {"parent": {}}
   (settings/field.go:148-149). *)
NeverHollows ==
    [][\A w \in Writers : Edit(w) => Hollow(held'[w]) \subseteq Hollow(held[w])]_vars

(* A value refused leaves the message as it was: every parent the call
   created goes, no other does (settings/field.go:132-142). *)
RefusedSetUndone ==
    [][\A w \in Writers : \A f \in Catalog(w) :
          SetRefused(w, f) => held'[w] = held[w]]_vars

(* "DiscardUnknown allows safe rolling schema removal without deleting older
   keys from the database" (settings/json.go:15-16): a process whose schema
   lost a key, and writes back the document as it reads it, leaves that key in
   the database. *)
OldKeysKept ==
    [][\A w \in Writers : held[w] = Unmarshal(w, stored) /\ Save(w)
          => DOMAIN stored \ Known[w] \subseteq DOMAIN stored']_vars

===================================================================================
