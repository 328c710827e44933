---------------------------- MODULE SettingsProofs ----------------------------
(***************************************************************************)
(* Typed settings over nested messages are the flat collection of fields   *)
(* that SettingsFields describes, a refused value leaves no trace, and no  *)
(* edit leaves an empty submessage: for every schema that nests, any       *)
(* number of processes and whatever part of the schema each knows.         *)
(***************************************************************************)
EXTENDS SettingsDocument, TLAPS

-----------------------------------------------------------------------------
(* Messages. *)

\* A tree: what is present is enclosed, and holds a value where it is a field.
Tree(m) ==
  /\ DOMAIN m \subseteq Nodes
  /\ m = [n \in DOMAIN m |-> m[n]]
  /\ \A n \in DOMAIN m :
       /\ Path[n] \subseteq DOMAIN m
       /\ n \in Parents => m[n] = Object
       /\ n \in Leaves => m[n] \in Values

\* Messages, without their enumeration.
LEMMA MessagesAreTrees == \A m : m \in Messages <=> Tree(m)
<1> USE SchemaAssumption, ValuesAssumption
<1>1. ASSUME NEW m \in Messages PROVE Tree(m)
  <2>1. PICK S \in SUBSET Nodes : m \in [S -> Values \cup {Object}] BY <1>1 DEF Messages
  <2>2. \A n \in DOMAIN m : /\ Path[n] \subseteq DOMAIN m
                            /\ m[n] = Object <=> n \in Parents
    BY <1>1 DEF Messages
  <2> QED BY <2>1, <2>2 DEF Tree, Nodes
<1>2. ASSUME NEW m, Tree(m) PROVE m \in Messages
  <2>1. m \in [DOMAIN m -> Values \cup {Object}] BY <1>2 DEF Tree, Nodes
  <2>2. m \in UNION {[S -> Values \cup {Object}] : S \in SUBSET Nodes} BY <1>2, <2>1 DEF Tree
  <2>3. \A n \in DOMAIN m : m[n] = Object <=> n \in Parents BY <1>2 DEF Tree, Nodes
  <2> QED BY <1>2, <2>2, <2>3 DEF Tree, Messages
<1> QED BY <1>1, <1>2

\* The submessages of a chain enclose one another.
LEMMA Nested ==
  ASSUME NEW n \in Nodes
  PROVE  /\ Path[n] \subseteq Parents /\ n \notin Path[n]
         /\ \A p \in Path[n] : p \in Nodes /\ Path[p] \subseteq Path[n] \ {p}
BY SchemaAssumption DEF Nodes

\* A part of a message that is enclosed by itself is a message.
LEMMA PartOfTree ==
  ASSUME NEW m, Tree(m), NEW S \in SUBSET DOMAIN m, \A n \in S : Path[n] \subseteq S
  PROVE  /\ Tree(Restrict(m, S))
         /\ DOMAIN Restrict(m, S) = S /\ \A n \in S : Restrict(m, S)[n] = m[n]
BY DEF Tree, Restrict

-----------------------------------------------------------------------------
(* What the operations make of a message. *)

\* Reading and writing keep what the process knows.
LEMMA KnownPart ==
  ASSUME NEW m, Tree(m), NEW w \in Writers
  PROVE  Tree(Marshal(w, m)) /\ Tree(Unmarshal(w, m))
<1>1. \A n \in DOMAIN m \cap Known[w] : Path[n] \subseteq DOMAIN m \cap Known[w]
  BY SchemaAssumption DEF Tree
<1> QED BY <1>1, PartOfTree DEF Marshal, Unmarshal

\* Set adds the field and what encloses it, and nothing else.
Grown(m, f, v) ==
  [n \in DOMAIN m \cup Path[f] \cup {f} |->
     IF n = f THEN v ELSE IF n \in DOMAIN m THEN m[n] ELSE Object]

LEMMA AssignedIs ==
  ASSUME NEW m, Tree(m), NEW f \in Leaves, NEW v \in Values
  PROVE  /\ Tree(Assigned(m, f, v))
         /\ Assigned(m, f, v) = Grown(m, f, v)
<1> USE SchemaAssumption DEF Nodes
<1> DEFINE D == DOMAIN m \cup Path[f] \cup {f}
           a == Assigned(m, f, v)
<1>1. f \notin Path[f] /\ Path[f] \subseteq Parents BY Nested
<1>2. a = [n \in D |-> IF n = f THEN v ELSE IF n \in DOMAIN m THEN m[n] ELSE Object]
  BY <1>1 DEF Assigned, Materialized
<1>3. D \subseteq Nodes BY <1>1 DEF Tree
<1>4. \A n \in D : Path[n] \subseteq D BY Nested DEF Tree
<1>5. \A n \in D : /\ n \in Parents => a[n] = Object
                   /\ n \in Leaves => a[n] \in Values
  BY <1>1, <1>2 DEF Tree
<1> HIDE DEF a
<1>6. DOMAIN a = D /\ a = [n \in DOMAIN a |-> a[n]] BY <1>2
<1>7. Tree(a) BY <1>3, <1>4, <1>5, <1>6 DEF Tree
<1> QED BY <1>2, <1>7 DEF a, Grown

\* A refused Set takes away exactly the parents it created.
LEMMA RolledBackIs ==
  ASSUME NEW m, Tree(m), NEW f \in Leaves
  PROVE  RolledBack(m, f) = m
<1> USE SchemaAssumption DEF Nodes
<1> DEFINE grown == Materialized(m, f)
           chain == Path[f] \ DOMAIN m
<1>1. DOMAIN grown = DOMAIN m \cup Path[f] /\ \A n \in DOMAIN m : grown[n] = m[n]
  BY DEF Materialized
<1>2. Hollowed(grown, chain) = chain
  <2>1. ASSUME NEW p \in chain PROVE Inside(grown, p) \subseteq chain
    <3>1. ASSUME NEW n \in DOMAIN m, p \in Path[n] PROVE FALSE BY <2>1, <3>1 DEF Tree
    <3> QED BY <1>1, <3>1 DEF Inside
  <2> QED BY <1>1, <2>1 DEF Hollowed
<1>3. DOMAIN grown \ Hollowed(grown, chain) = DOMAIN m BY <1>1, <1>2
<1>4. RolledBack(m, f) = Restrict(grown, DOMAIN m) BY <1>3 DEF RolledBack, Without
<1> QED BY <1>1, <1>4 DEF Restrict, Tree

\* Clear removes the field and the submessages around it that then hold nothing.
Emptied(m, f) == {p \in Path[f] : \A n \in DOMAIN m \ {f} : p \in Path[n] => n \in Path[f]}

LEMMA ClearedIs ==
  ASSUME NEW m, Tree(m), NEW f \in Leaves, Path[f] \subseteq DOMAIN m
  PROVE  /\ Cleared(m, f) = Restrict(m, DOMAIN m \ ({f} \cup Emptied(m, f)))
         /\ Tree(Cleared(m, f))
<1> USE SchemaAssumption DEF Nodes
<1> DEFINE rest == Without(m, {f})
           S == DOMAIN m \ ({f} \cup Emptied(m, f))
<1>1. f \notin Path[f] /\ Path[f] \subseteq Parents BY Nested
<1>2. DOMAIN rest = DOMAIN m \ {f} /\ \A n \in DOMAIN rest : rest[n] = m[n]
  BY DEF Without, Restrict
<1>3. Hollowed(rest, Path[f]) = Emptied(m, f)
  BY <1>1, <1>2 DEF Hollowed, Inside, Emptied
<1>4. Cleared(m, f) = Restrict(rest, DOMAIN rest \ Emptied(m, f))
  BY <1>3 DEF Cleared, Without
<1>5. Restrict(rest, DOMAIN rest \ Emptied(m, f)) = Restrict(m, S)
  <2>1. DOMAIN rest \ Emptied(m, f) = S BY <1>2
  <2>2. \A n \in S : rest[n] = m[n] BY <1>2
  <2> QED BY <2>1, <2>2 DEF Restrict
<1>6. ASSUME NEW n \in S, NEW p \in Path[n] PROVE p \in S
  <2>1. p \in DOMAIN m /\ p \in Parents /\ p # f BY <1>6, Nested DEF Tree
  <2>2. ASSUME p \in Emptied(m, f) PROVE FALSE
    <3>1. n \in Path[f] BY <2>2, <1>6 DEF Emptied
    <3>2. PICK k \in DOMAIN m \ {f} : n \in Path[k] /\ k \notin Path[f]
      BY <1>6, <3>1 DEF Emptied
    <3>3. p \in Path[k] BY <1>6, <3>2, Nested DEF Tree
    <3> QED BY <2>2, <3>2, <3>3 DEF Emptied
  <2> QED BY <2>1, <2>2
<1>7. Tree(Restrict(m, S)) BY <1>6, PartOfTree
<1> QED BY <1>4, <1>5, <1>7

LEMMA ClearedTree ==
  ASSUME NEW m, Tree(m), NEW f \in Leaves
  PROVE  Tree(Cleared(m, f))
<1>1. CASE Path[f] \subseteq DOMAIN m BY <1>1, ClearedIs
<1>2. CASE ~(Path[f] \subseteq DOMAIN m) BY <1>2 DEF Cleared
<1> QED BY <1>1, <1>2

-----------------------------------------------------------------------------
(* Type correctness. *)

IInv == Tree(stored) /\ held = [w \in Writers |-> held[w]] /\ \A w \in Writers : Tree(held[w])

LEMMA TypeIs == IInv <=> TypeOK
<1>1. ASSUME TypeOK PROVE IInv BY <1>1, MessagesAreTrees DEF TypeOK, IInv
<1>2. ASSUME IInv PROVE TypeOK
  <2>1. \A w \in Writers : held[w] \in Messages BY <1>2, MessagesAreTrees DEF IInv
  <2>2. held \in [Writers -> Messages] BY <1>2, <2>1 DEF IInv
  <2> QED BY <1>2, <2>2, MessagesAreTrees DEF TypeOK, IInv
<1> QED BY <1>1, <1>2

LEMMA HoldTree ==
  ASSUME IInv, NEW w \in Writers, NEW m, Tree(m), Hold(w, m)
  PROVE  /\ held'[w] = m /\ \A u \in Writers \ {w} : held'[u] = held[u]
         /\ held' = [u \in Writers |-> held'[u]] /\ \A u \in Writers : Tree(held'[u])
BY DEF Hold, IInv

\* What each edit does to the message held.
LEMMA EditDoes ==
  ASSUME IInv, NEW w \in Writers, NEW f \in Catalog(w),
         Set(w, f) \/ SetRefused(w, f) \/ ApplyDefault(w, f) \/ Clear(w, f)
  PROVE  /\ UNCHANGED stored /\ Tree(held[w]) /\ f \in Leaves
         /\ \/ /\ Set(w, f) \/ ApplyDefault(w, f)
               /\ \E v \in Values : /\ Hold(w, Assigned(held[w], f, v))
                                    /\ Tree(Assigned(held[w], f, v))
            \/ SetRefused(w, f) /\ Hold(w, held[w])
            \/ Clear(w, f) /\ Hold(w, Cleared(held[w], f)) /\ Tree(Cleared(held[w], f))
<1>1. Tree(held[w]) /\ f \in Leaves BY DEF IInv, Catalog
<1>2. CASE Set(w, f)
  BY <1>1, <1>2, AssignedIs DEF Set
<1>3. CASE SetRefused(w, f)
  BY <1>1, <1>3, RolledBackIs DEF SetRefused
<1>4. CASE ApplyDefault(w, f)
  BY <1>1, <1>4, AssignedIs, ValuesAssumption DEF ApplyDefault
<1>5. CASE Clear(w, f)
  BY <1>1, <1>5, ClearedTree DEF Clear
<1> QED BY <1>2, <1>3, <1>4, <1>5

LEMMA InitInv == Init => IInv
<1> SUFFICES ASSUME Init PROVE IInv OBVIOUS
<1>1. Tree(stored) BY MessagesAreTrees DEF Init
<1>2. \A w \in Writers : Tree(Unmarshal(w, stored)) BY <1>1, KnownPart
<1> QED BY <1>1, <1>2 DEF Init, IInv

LEMMA NextInv == IInv /\ [Next]_vars => IInv'
<1> SUFFICES ASSUME IInv, [Next]_vars PROVE IInv' OBVIOUS
<1>1. CASE UNCHANGED vars BY <1>1 DEF vars, IInv
<1>2. ASSUME NEW w \in Writers, Load(w) PROVE IInv'
  <2>1. Tree(Unmarshal(w, stored)) BY KnownPart DEF IInv
  <2> QED BY <1>2, <2>1, HoldTree DEF Load, IInv
<1>3. ASSUME NEW w \in Writers, Receive(w) PROVE IInv'
  <2>1. PICK u \in Writers : Hold(w, held[u]) /\ UNCHANGED stored BY <1>3 DEF Receive
  <2>2. Tree(held[u]) BY DEF IInv
  <2> QED BY <2>1, <2>2, HoldTree DEF IInv
<1>4. ASSUME NEW w \in Writers, Edit(w) PROVE IInv'
  <2>1. PICK m : Tree(m) /\ Hold(w, m) /\ UNCHANGED stored BY <1>4, EditDoes DEF Edit
  <2> QED BY <2>1, HoldTree DEF IInv
<1>5. ASSUME NEW w \in Writers, Save(w) PROVE IInv'
  <2>1. Tree(Marshal(w, held[w])) BY KnownPart DEF IInv
  <2> QED BY <1>5, <2>1 DEF Save, IInv
<1> QED BY <1>1, <1>2, <1>3, <1>4, <1>5 DEF Next

LEMMA Invariant == Spec => []IInv
BY InitInv, NextInv, PTL DEF Spec

\* In the database and in memory are messages: nothing is present without what
\* encloses it, whichever schemas wrote and read them.
THEOREM TypeCorrect == Spec => []TypeOK
BY Invariant, TypeIs, PTL

-----------------------------------------------------------------------------
(* What edits leave behind. *)

\* Whatever the nesting, a value refused leaves the message as it was: the parents
\* that Set created on the way go, and no other does.
THEOREM RefusedSetUndoneHolds == Spec => RefusedSetUndone
<1>1. ASSUME IInv, NEW w \in Writers, NEW f \in Catalog(w), SetRefused(w, f)
      PROVE  held'[w] = held[w]
  <2>1. Tree(held[w]) /\ f \in Leaves BY <1>1 DEF IInv, Catalog
  <2>2. Hold(w, held[w]) BY <1>1, <2>1, RolledBackIs DEF SetRefused
  <2> QED BY <1>1, <2>1, <2>2, HoldTree
<1>2. IInv => [\A w \in Writers : \A f \in Catalog(w) :
                 SetRefused(w, f) => held'[w] = held[w]]_vars
  BY <1>1
<1> QED BY Invariant, <1>2, PTL DEF RefusedSetUndone

LEMMA AssignedHollow ==
  ASSUME NEW m, Tree(m), NEW f \in Leaves, NEW v \in Values
  PROVE  Hollow(Assigned(m, f, v)) \subseteq Hollow(m)
<1> DEFINE a == Assigned(m, f, v)
<1>0. a = Grown(m, f, v) BY AssignedIs
<1>1. DOMAIN a = DOMAIN m \cup Path[f] \cup {f} BY <1>0 DEF Grown
<1> HIDE DEF a
<1> SUFFICES ASSUME NEW p \in Hollow(a) PROVE p \in Hollow(m) BY DEF a
<1>2. p \in DOMAIN a /\ p \in Parents /\ \A n \in DOMAIN a : p \notin Path[n]
  BY DEF Hollow, Inside
<1>3. p \notin Path[f] /\ p # f BY <1>1, <1>2, SchemaAssumption
<1> QED BY <1>1, <1>2, <1>3 DEF Hollow, Inside

LEMMA ClearedHollow ==
  ASSUME NEW m, Tree(m), NEW f \in Leaves
  PROVE  Hollow(Cleared(m, f)) \subseteq Hollow(m)
<1>1. CASE ~(Path[f] \subseteq DOMAIN m) BY <1>1 DEF Cleared
<1>2. CASE Path[f] \subseteq DOMAIN m
  <2> DEFINE c == Cleared(m, f)
  <2>1. DOMAIN c = DOMAIN m \ ({f} \cup Emptied(m, f))
    BY <1>2, ClearedIs DEF Restrict
  <2> HIDE DEF c
  <2> SUFFICES ASSUME NEW p \in Hollow(c) PROVE p \in Hollow(m) BY DEF c
  <2>2. p \in DOMAIN c /\ p \in Parents /\ \A n \in DOMAIN c : p \notin Path[n]
    BY DEF Hollow, Inside
  <2>3. p \notin Path[f]
    <3>1. SUFFICES ASSUME p \in Path[f] PROVE FALSE OBVIOUS
    <3>2. PICK k \in DOMAIN m \ {f} : p \in Path[k] /\ k \notin Path[f]
      BY <2>1, <2>2, <3>1 DEF Emptied
    <3>3. k \in DOMAIN c BY <2>1, <3>2 DEF Emptied
    <3> QED BY <2>2, <3>2, <3>3
  <2>4. ASSUME NEW n \in DOMAIN m, p \in Path[n] PROVE FALSE
    <3>1. n = f \/ n \in Emptied(m, f) BY <2>1, <2>2, <2>4
    <3>2. CASE n = f BY <2>3, <2>4, <3>2
    <3>3. CASE n \in Emptied(m, f)
      <4>1. n \in Path[f] /\ f \in Nodes BY <3>3 DEF Emptied, Nodes
      <4> QED BY <2>3, <2>4, <4>1, Nested
    <3> QED BY <3>1, <3>2, <3>3
  <2> QED BY <2>1, <2>2, <2>4 DEF Hollow, Inside
<1> QED BY <1>1, <1>2

\* No edit of a field leaves an empty submessage that was not there before, wherever
\* the field is and whatever it is nested with.
THEOREM NeverHollowsHolds == Spec => NeverHollows
<1>1. ASSUME IInv, NEW w \in Writers, Edit(w)
      PROVE  Hollow(held'[w]) \subseteq Hollow(held[w])
  <2>1. PICK f \in Catalog(w) :
          Set(w, f) \/ SetRefused(w, f) \/ ApplyDefault(w, f) \/ Clear(w, f)
    BY <1>1 DEF Edit
  <2>2. Tree(held[w]) /\ f \in Leaves BY <1>1, <2>1, EditDoes
  <2>3. CASE \E v \in Values : /\ Hold(w, Assigned(held[w], f, v))
                               /\ Tree(Assigned(held[w], f, v))
    BY <1>1, <2>2, <2>3, HoldTree, AssignedHollow
  <2>4. CASE Hold(w, held[w]) BY <1>1, <2>2, <2>4, HoldTree
  <2>5. CASE Hold(w, Cleared(held[w], f)) /\ Tree(Cleared(held[w], f))
    BY <1>1, <2>2, <2>5, HoldTree, ClearedHollow
  <2> QED BY <1>1, <2>1, <2>3, <2>4, <2>5, EditDoes
<1>2. IInv => [\A w \in Writers :
                 Edit(w) => Hollow(held'[w]) \subseteq Hollow(held[w])]_vars
  BY <1>1
<1> QED BY Invariant, <1>2, PTL DEF NeverHollows

-----------------------------------------------------------------------------
(* The refinement: parents are forgotten. *)

LEMMA FlatIs ==
  ASSUME NEW m
  PROVE  /\ DOMAIN Flat(m) = DOMAIN m \cap Leaves
         /\ \A n \in DOMAIN m \cap Leaves : Flat(m)[n] = m[n]
         /\ \A d : /\ d = [n \in DOMAIN d |-> d[n]] /\ DOMAIN d = DOMAIN m \cap Leaves
                   /\ \A n \in DOMAIN d : d[n] = m[n]
                   => d = Flat(m)
BY DEF Flat, Restrict

LEMMA FlatSetting ==
  ASSUME NEW m, Tree(m)
  PROVE  Flat(m) \in Fields!Settings
<1>1. Flat(m) \in [DOMAIN m \cap Leaves -> Values] BY DEF Flat, Restrict, Tree
<1> QED BY <1>1 DEF Fields!Settings

\* Reading and writing are what the fields the process knows show.
LEMMA FlatKnown ==
  ASSUME NEW m, NEW w \in Writers
  PROVE  /\ Flat(Unmarshal(w, m)) = Fields!Visible(w, Flat(m))
         /\ Flat(Marshal(w, m)) = Fields!Visible(w, Flat(m))
<1> DEFINE S == DOMAIN m \cap Known[w] \cap Leaves
           flat == [n \in S |-> m[n]]
<1>1. Fields!Visible(w, Flat(m)) = flat
  <2>1. DOMAIN Flat(m) \cap [u \in Writers |-> Catalog(u)][w] = S BY FlatIs DEF Catalog
  <2>2. \A n \in S : Flat(m)[n] = m[n] BY FlatIs
  <2> QED BY <2>1, <2>2 DEF Fields!Visible, Fields!Restrict
<1>2. Flat(Unmarshal(w, m)) = flat BY DEF Flat, Unmarshal, Restrict
<1>3. Flat(Marshal(w, m)) = flat BY DEF Flat, Marshal, Restrict
<1> QED BY <1>1, <1>2, <1>3

LEMMA FlatAssigned ==
  ASSUME NEW m, Tree(m), NEW f \in Leaves, NEW v \in Values
  PROVE  Flat(Assigned(m, f, v)) = Fields!Put(Flat(m), f, v)
<1> DEFINE a == Assigned(m, f, v)
           put == Fields!Put(Flat(m), f, v)
<1>0. a = Grown(m, f, v) BY AssignedIs
<1> HIDE DEF put, a
<1>1. /\ DOMAIN a = DOMAIN m \cup Path[f] \cup {f} /\ a[f] = v
      /\ \A n \in DOMAIN m \ {f} : a[n] = m[n]
  BY <1>0 DEF Grown
<1>2. Path[f] \cap Leaves = {} BY SchemaAssumption DEF Nodes
<1>3. /\ put = [n \in DOMAIN put |-> put[n]] /\ DOMAIN put = (DOMAIN m \cap Leaves) \cup {f}
      /\ put[f] = v /\ \A n \in (DOMAIN m \cap Leaves) \ {f} : put[n] = m[n]
  BY FlatIs DEF Fields!Put, put
<1>4. DOMAIN put = DOMAIN a \cap Leaves /\ \A n \in DOMAIN put : put[n] = a[n]
  BY <1>1, <1>2, <1>3
<1>5. put = Flat(a) BY <1>3, <1>4, FlatIs
<1> QED BY <1>5 DEF a, put

LEMMA FlatCleared ==
  ASSUME NEW m, Tree(m), NEW f \in Leaves
  PROVE  Flat(Cleared(m, f)) = Restrict(Flat(m), DOMAIN Flat(m) \ {f})
<1> DEFINE S == (DOMAIN m \cap Leaves) \ {f}
<1>1. Restrict(Flat(m), DOMAIN Flat(m) \ {f}) = [n \in S |-> m[n]]
  BY FlatIs DEF Restrict
<1>2. CASE Path[f] \subseteq DOMAIN m
  <2>1. Emptied(m, f) \cap Leaves = {} BY SchemaAssumption DEF Emptied, Nodes
  <2> DEFINE T == DOMAIN m \ ({f} \cup Emptied(m, f))
  <2>2. Cleared(m, f) = [n \in T |-> m[n]] BY <1>2, ClearedIs DEF Restrict
  <2>3. T \cap Leaves = S BY <2>1
  <2>4. Flat(Cleared(m, f)) = [n \in S |-> m[n]] BY <2>2, <2>3 DEF Flat, Restrict
  <2> QED BY <1>1, <2>4
<1>3. CASE ~(Path[f] \subseteq DOMAIN m)
  <2>1. f \notin DOMAIN m BY <1>3 DEF Tree
  <2>2. Flat(m) = [n \in S |-> m[n]] BY <2>1 DEF Flat, Restrict
  <2> QED BY <1>1, <1>3, <2>2 DEF Cleared
<1> QED BY <1>2, <1>3

\* To hold a message is to hold its fields.
HeldFields == [w \in Writers |-> Flat(held[w])]

LEMMA HoldFields ==
  ASSUME IInv, NEW w \in Writers, NEW m, Tree(m), Hold(w, m)
  PROVE  HeldFields' = [HeldFields EXCEPT ![w] = Flat(m)]
<1>1. held'[w] = m /\ \A u \in Writers \ {w} : held'[u] = held[u] BY HoldTree
<1> QED BY <1>1 DEF HeldFields

LEMMA InitFields == Init => Fields!Init
<1> SUFFICES ASSUME Init PROVE Fields!Init OBVIOUS
<1>1. Tree(stored) BY MessagesAreTrees DEF Init
<1>2. HeldFields = [w \in Writers |-> Fields!Visible(w, Flat(stored))]
  BY FlatKnown DEF Init, HeldFields
<1> QED BY <1>1, <1>2, FlatSetting DEF Fields!Init, HeldFields

LEMMA NextFields == IInv /\ [Next]_vars => [Fields!Next]_(Fields!vars)
<1> SUFFICES ASSUME IInv, [Next]_vars PROVE [Fields!Next]_(Fields!vars) OBVIOUS
<1>1. CASE UNCHANGED vars BY <1>1 DEF vars, Fields!vars
<1>2. ASSUME NEW w \in Writers, Load(w) PROVE Fields!Next
  <2>1. Tree(Unmarshal(w, stored)) BY KnownPart DEF IInv
  <2>2. HeldFields' = [HeldFields EXCEPT ![w] = Fields!Visible(w, Flat(stored))]
    BY <1>2, <2>1, HoldFields, FlatKnown DEF Load
  <2>3. Fields!Load(w) BY <1>2, <2>2 DEF Fields!Load, Fields!Hold, HeldFields, Load
  <2> QED BY <2>3 DEF Fields!Next
<1>3. ASSUME NEW w \in Writers, Receive(w) PROVE Fields!Next
  <2>1. PICK u \in Writers \ {w} : Hold(w, held[u]) /\ UNCHANGED stored
    BY <1>3 DEF Receive
  <2>2. HeldFields' = [HeldFields EXCEPT ![w] = HeldFields[u]]
    <3>1. Tree(held[u]) BY DEF IInv
    <3> QED BY <2>1, <3>1, HoldFields DEF HeldFields
  <2>3. Fields!Receive(w) BY <2>1, <2>2 DEF Fields!Receive, Fields!Hold, HeldFields
  <2> QED BY <2>3 DEF Fields!Next
<1>4. ASSUME NEW w \in Writers, Edit(w) PROVE [Fields!Next]_(Fields!vars)
  <2>1. PICK f \in Catalog(w) :
          Set(w, f) \/ SetRefused(w, f) \/ ApplyDefault(w, f) \/ Clear(w, f)
    BY <1>4 DEF Edit
  <2>2. /\ UNCHANGED stored /\ Tree(held[w]) /\ f \in Leaves
        /\ HeldFields[w] = Flat(held[w])
        /\ f \in Leaves \cap [u \in Writers |-> Catalog(u)][w]
    BY <1>4, <2>1, EditDoes DEF HeldFields
  <2>3. CASE Set(w, f)
    <3>1. PICK v \in Values : Hold(w, Assigned(held[w], f, v)) BY <2>3 DEF Set
    <3>2. HeldFields' = [HeldFields EXCEPT ![w] = Fields!Put(HeldFields[w], f, v)]
      <4>1. Tree(Assigned(held[w], f, v)) BY <2>2, AssignedIs
      <4>2. Flat(Assigned(held[w], f, v)) = Fields!Put(Flat(held[w]), f, v)
        BY <2>2, FlatAssigned
      <4>3. HeldFields' = [HeldFields EXCEPT ![w] = Flat(Assigned(held[w], f, v))]
        BY <3>1, <4>1, HoldFields
      <4> QED BY <2>2, <4>2, <4>3
    <3>3. Fields!Set(w, f) BY <2>2, <3>2 DEF Fields!Set, Fields!Hold, HeldFields
    <3> QED BY <2>2, <3>3 DEF Fields!Next
  <2>4. CASE ApplyDefault(w, f)
    <3>1. Hold(w, Assigned(held[w], f, Default)) /\ f \notin DOMAIN held[w]
      BY <2>4 DEF ApplyDefault, Lookup
    <3>2. HeldFields' = [HeldFields EXCEPT ![w] = Fields!Put(HeldFields[w], f, Default)]
      <4>1. Tree(Assigned(held[w], f, Default)) BY <2>2, AssignedIs, ValuesAssumption
      <4>2. Flat(Assigned(held[w], f, Default)) = Fields!Put(Flat(held[w]), f, Default)
        BY <2>2, FlatAssigned, ValuesAssumption
      <4>3. HeldFields' = [HeldFields EXCEPT ![w] = Flat(Assigned(held[w], f, Default))]
        BY <3>1, <4>1, HoldFields
      <4> QED BY <2>2, <4>2, <4>3
    <3>3. f \notin DOMAIN HeldFields[w] BY <2>2, <3>1, FlatIs
    <3>4. Fields!ApplyDefault(w, f)
      BY <2>2, <3>2, <3>3 DEF Fields!ApplyDefault, Fields!Hold, HeldFields
    <3> QED BY <2>2, <3>4 DEF Fields!Next
  <2>5. CASE Clear(w, f)
    <3>1. HeldFields' = [HeldFields EXCEPT ![w] =
                           Restrict(HeldFields[w], DOMAIN HeldFields[w] \ {f})]
      <4>1. /\ Tree(Cleared(held[w], f)) /\ Hold(w, Cleared(held[w], f))
            /\ Flat(Cleared(held[w], f)) =
                 Restrict(HeldFields[w], DOMAIN HeldFields[w] \ {f})
        BY <2>2, <2>5, FlatCleared, ClearedTree DEF Clear
      <4> QED BY <4>1, HoldFields
    <3>2. Fields!Clear(w, f) BY <2>2, <3>1 DEF Fields!Clear, Fields!Hold, Fields!Restrict, Restrict, HeldFields
    <3> QED BY <2>2, <3>2 DEF Fields!Next
  <2>6. CASE SetRefused(w, f)
    <3>1. Hold(w, held[w]) BY <2>2, <2>6, RolledBackIs DEF SetRefused
    <3>2. held' = held BY <3>1 DEF Hold, IInv
    <3> QED BY <2>2, <3>2 DEF Fields!vars
  <2> QED BY <2>1, <2>3, <2>4, <2>5, <2>6
<1>5. ASSUME NEW w \in Writers, Save(w) PROVE Fields!Next
  <2>1. Flat(stored)' = Fields!Visible(w, HeldFields[w])
    BY <1>5, FlatKnown DEF Save, HeldFields
  <2>2. Fields!Save(w) BY <1>5, <2>1 DEF Fields!Save, Save, HeldFields
  <2> QED BY <2>2 DEF Fields!Next
<1> QED BY <1>1, <1>2, <1>3, <1>4, <1>5 DEF Next

\* Product code that never looks at parents sees a flat collection of fields: an
\* operation on one touches no other, however schemas nest and differ.
THEOREM FieldsHold == Spec => FieldsImplemented
BY InitFields, NextFields, Invariant, PTL DEF Spec, FieldsImplemented, Fields!Spec
=============================================================================
