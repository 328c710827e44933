-------------------------- MODULE SourceDeclarations --------------------------
(***************************************************************************)
(* datasource.Client.ListOperations and DeclareOperations: administrators  *)
(* of one source list its operations, change one and declare the whole set *)
(* again, which replaces what the host had. The conversions between the    *)
(* host's declarations and the SDK's are the code; the host, the network   *)
(* and what administrators do between the two calls are external.          *)
(*                                                                         *)
(* A set of operations is a function from their names. A schema is None    *)
(* (absent), "empty" (an object without members) or another; "bad" is JSON *)
(* that is no object. What the conversions copy field by field             *)
(* (description, method, path, query, output limit) is one value, the      *)
(* route.                                                                  *)
(***************************************************************************)
EXTENDS HostErrors, Naturals, Sequences, FiniteSets

CONSTANTS Admins, Names,
          HostSets,   \* what the host may have at first
          Changes,    \* what an administrator makes of an operation
          MaxCalls,   \* bound: declarations sent by one administrator
          MaxSets,    \* bound: sets the host has had or may still get
          None

ASSUME BoundsAssumption == MaxCalls \in Nat /\ MaxSets \in Nat

Schemas == {None, "empty", "schema"}
HostEffects == {"READ_ONLY", "MUTATION", "UNSPECIFIED", "FUTURE"}
HostOps == [effect : HostEffects, input : Schemas, route : {"r1", "r2"}]
Ops == [effect : {"READ_ONLY", "MUTATION", "other"},
        input : Schemas \cup {"bad"}, route : {"r1", "r2"}]
SetsOf(ops) == UNION {[N -> ops] : N \in SUBSET Names}

ASSUME SetsAssumption == HostSets \subseteq SetsOf(HostOps) /\ Changes \subseteq Ops

VARIABLES history, \* the host: every set it admitted, the last is the current one
          phase,   \* where each administrator is
          calls,   \* declarations it has sent
          base,    \* the set in force when its list was answered
          began,   \* the set in force when its current call began
          ops,     \* the operations it has, None before a list
          edited,  \* the name it changed
          inflight \* declarations on their way

admins == <<phase, calls, base, began, ops, edited>>
declarationVars == <<history, admins, inflight>>

Now == Len(history)
Sent == [ops : SetsOf(HostOps), from : Admins \cup {None}, call : 0..MaxCalls,
         base : Nat, edit : Names \cup {None}]

DeclarationsTypeOK ==
  /\ history \in Seq(Sent)
  /\ phase \in [Admins -> {"idle", "listing", "listed", "edited", "declaring",
                           "declared", "refused", "unsettled", "invalid"}]
  /\ calls \in [Admins -> 0..MaxCalls]
  /\ base \in [Admins -> Nat] /\ began \in [Admins -> Nat]
  /\ \A a \in Admins : ops[a] = None \/ ops[a] \in SetsOf(Ops)
  /\ edited \in [Admins -> Names \cup {None}]
  /\ inflight \subseteq Sent

DeclarationsInit ==
  /\ history \in {<<[ops |-> s, from |-> None, call |-> 0, base |-> 0, edit |-> None]>> : s \in HostSets}
  /\ phase = [a \in Admins |-> "idle"]
  /\ calls = [a \in Admins |-> 0]
  /\ base = [a \in Admins |-> 0] /\ began = [a \in Admins |-> 0]
  /\ ops = [a \in Admins |-> None]
  /\ edited = [a \in Admins |-> None]
  /\ inflight = {}

-----------------------------------------------------------------------------
(* Conversions. *)

Restricted(s, P(_)) == [n \in {m \in DOMAIN s : P(s[m])} |-> s[n]]

\* schemaJSON: an absent schema reads as an empty one.
SchemaJSON(schema) == IF schema = None THEN "empty" ELSE schema

Readable(o) == o.effect \in {"READ_ONLY", "MUTATION"}

Listed(s) == [n \in DOMAIN s |-> [s[n] EXCEPT !.input = SchemaJSON(@)]]

\* (Slip: an operation that is not understood is left out.)
ListKnown(s) == Listed(Restricted(s, Readable))

\* ListOperations, all or nothing.
List(s) == IF \A n \in DOMAIN s : Readable(s[n]) THEN Listed(s) ELSE None

\* An operation that can be declared: schemaStruct and the switch on the effect.
Valid(o) == o.effect # "other" /\ o.input \notin {None, "bad"}

\* (Slip: an operation that cannot be declared is skipped.)
DeclareValid(s) == Restricted(s, Valid)

\* DeclareOperations, all or nothing.
Declaration(s) == IF \A n \in DOMAIN s : Valid(s[n]) THEN s ELSE None

-----------------------------------------------------------------------------
(* Administrators. *)

StartList(a) ==
  /\ phase[a] \in {"idle", "declared", "refused", "unsettled", "invalid"}
  /\ calls[a] < MaxCalls
  /\ phase' = [phase EXCEPT ![a] = "listing"]
  /\ began' = [began EXCEPT ![a] = Now]
  /\ ops' = [ops EXCEPT ![a] = None]
  /\ edited' = [edited EXCEPT ![a] = None]
  /\ UNCHANGED <<history, calls, base, inflight>>

\* The answer is what the host had at some moment of the call.
ListAnswered(a) ==
  /\ phase[a] = "listing"
  /\ \E v \in began[a]..Now :
       LET list == List(history[v].ops)
       IN  /\ ops' = [ops EXCEPT ![a] = list]
           /\ base' = [base EXCEPT ![a] = v]
           /\ phase' = [phase EXCEPT ![a] = IF list = None THEN "invalid" ELSE "listed"]
  /\ UNCHANGED <<history, calls, began, edited, inflight>>

ListFails(a) ==
  /\ phase[a] = "listing"
  /\ phase' = [phase EXCEPT ![a] = "idle"]
  /\ UNCHANGED <<history, calls, base, began, ops, edited, inflight>>

\* External: one operation is added, changed or removed.
Edit(a) ==
  /\ phase[a] = "listed"
  /\ \E n \in Names :
       /\ edited' = [edited EXCEPT ![a] = n]
       /\ \/ \E o \in Changes :
               ops' = [ops EXCEPT ![a] = [m \in DOMAIN @ \cup {n} |->
                                            IF m = n THEN o ELSE @[m]]]
          \/ ops' = [ops EXCEPT ![a] = [m \in DOMAIN @ \ {n} |-> @[m]]]
  /\ phase' = [phase EXCEPT ![a] = "edited"]
  /\ UNCHANGED <<history, calls, base, began, inflight>>

\* Nothing is sent of a set with an invalid operation in it.
Declare(a) ==
  /\ phase[a] = "edited"
  /\ LET declaration == Declaration(ops[a])
     IN  IF declaration = None
         THEN phase' = [phase EXCEPT ![a] = "invalid"] /\ UNCHANGED <<calls, inflight>>
         ELSE /\ calls[a] < MaxCalls /\ Now + Cardinality(inflight) < MaxSets
              /\ calls' = [calls EXCEPT ![a] = @ + 1]
              /\ inflight' = inflight \cup
                   {[ops |-> declaration, from |-> a, call |-> calls[a] + 1,
                     base |-> base[a], edit |-> edited[a]]}
              /\ phase' = [phase EXCEPT ![a] = "declaring"]
  /\ began' = [began EXCEPT ![a] = Now]
  /\ UNCHANGED <<history, base, ops, edited>>

\* (Slip: the outcome itself is kept.)
SettledAsIs(outcome) == outcome

\* mapHostError of an error that is not about an effect: a refusal, or an error
\* that leaves open whether the host replaced the set.
Settled(outcome) == IF outcome \in Definite THEN "refused" ELSE "unsettled"

Waits(m) == phase[m.from] = "declaring" /\ calls[m.from] = m.call

Answer(m, to) ==
  /\ inflight' = inflight \ {m}
  /\ phase' = IF Waits(m) THEN [phase EXCEPT ![m.from] = to] ELSE phase

\* External: the host replaces the set at once, without asking what the person who
\* sent it had seen.
Replace(m) ==
  /\ history' = Append(history, m)
  /\ Answer(m, "declared")
  /\ UNCHANGED <<calls, base, began, ops, edited>>

\* External: the host does not admit the set, or not from this person; or a proxy
\* answers in its place and the request ends there.
RefuseSet(m) ==
  /\ \/ \E code \in {"PermissionDenied", "InvalidArgument", "Precondition"} :
          Answer(m, Settled(MapHostError(TRUE, code, FALSE)))
     \/ Answer(m, Settled(MapHostError(FALSE, "PermissionDenied", FALSE)))
  /\ UNCHANGED <<history, calls, base, began, ops, edited>>

\* The answer is lost; the request may still be on its way.
Lost(a) ==
  /\ phase[a] = "declaring"
  /\ \E code \in {"Unavailable", "DeadlineExceeded", "Internal"} :
       phase' = [phase EXCEPT ![a] = Settled(MapHostError(FALSE, code, FALSE))]
  /\ UNCHANGED <<history, calls, base, began, ops, edited, inflight>>

DeclarationsNext ==
  \/ \E a \in Admins :
       \/ StartList(a) \/ ListAnswered(a) \/ ListFails(a) \/ Edit(a)
       \/ Declare(a) \/ Lost(a)
  \/ \E m \in inflight : Replace(m) \/ RefuseSet(m)

DeclarationsSpec == DeclarationsInit /\ [][DeclarationsNext]_declarationVars

-----------------------------------------------------------------------------
(* Properties. *)

Same(o, p) == SchemaJSON(o.input) = SchemaJSON(p.input)
                /\ o.effect = p.effect /\ o.route = p.route

\* "Neither returns a partial list" (operations.go:187): a set that was declared
\* over the one that had been listed differs from it in the edited operation only,
\* although the whole set travels through the SDK's types and back.
EditKeepsTheRest ==
  \A v \in 2..Now :
    LET new == history[v]  old == history[v - 1]
    IN  new.base = v - 1 =>
          /\ DOMAIN new.ops \ {new.edit} = DOMAIN old.ops \ {new.edit}
          /\ \A n \in DOMAIN new.ops \ {new.edit} : Same(new.ops[n], old.ops[n])

\* "Asks the host to replace the source's declarations atomically"
\* (operations.go:152), and what it says of them is so: after a success the host
\* admitted, during the call, the operations of the caller, all of them and in no
\* other form; after an error that names a refusal this call did not replace the
\* set, and will not.
OutcomeIsTrue ==
  \A a \in Admins :
    /\ phase[a] = "declared" =>
         \E v \in (began[a] + 1)..Now :
           /\ history[v].from = a /\ history[v].call = calls[a]
           /\ history[v].ops = ops[a]
    /\ phase[a] = "refused" =>
         \A m \in inflight \cup {history[v] : v \in 1..Now} :
           ~(m.from = a /\ m.call = calls[a])

=============================================================================
