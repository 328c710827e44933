-------------------------- MODULE WorkContextSources --------------------------
(***************************************************************************)
(* moduleauthority.WorkContextSources: the live authority behind one       *)
(* presented capability, asked of the host and remembered for a short      *)
(* while.                                                                  *)
(*                                                                         *)
(* Verifiers ("askers") put questions concurrently. A question is looked   *)
(* up under the mutex, sent without it (callAsModule; ModuleAuthority      *)
(* models that call), and its answer stored under it again, so answers are *)
(* stored in the order they arrive and not in the order they were given.   *)
(* Seal, PrincipalEpoch, OperationBinding, AuthorizationRevision and Grant *)
(* differ in the words of their answers and share their fate: an answer    *)
(* says that the host holds what it was asked about, that it does not, or  *)
(* something the client does not read. An answer repeats one identifier of *)
(* its question, the only one that is compared. For a seal that is not the *)
(* whole question: the answer repeats the installation, not the principal. *)
(***************************************************************************)
EXTENDS Integers, FiniteSets

CONSTANTS Askers,          \* goroutines verifying with one WorkContextSources
          Questions,       \* distinct cache keys
          Identifiers,     \* what an answer may repeat
          AuthorityCacheBound, DefaultEntries,
          Bounds, Entries, \* the CacheBound and CacheEntries one may be built with
          MaxFlight,       \* bound: ticks an answer is on its way
          MaxTime,         \* bound: the clock stops here
          MaxChanges       \* bound: changes of mind of the host

ASSUME CeilingAssumption == AuthorityCacheBound \in Nat /\ DefaultEntries \in Nat \ {0}
ASSUME SettingsAssumption == Bounds \subseteq Int /\ Entries \subseteq Int
ASSUME BoundsAssumption == MaxFlight \in Nat /\ MaxTime \in Nat /\ MaxChanges \in Nat

VARIABLES echo,      \* what the answer to each question repeats of it
          cacheBound, cacheEntries,  \* the settings, as the constructor left them
          cached,    \* the answers remembered
          now,       \* the clock
          pc,        \* where each asker is
          question,  \* what it asks
          begun,     \* when it began to
          answer,    \* the host's answer on its way to it
          given,     \* when the host gave it
          verdict,   \* what this step returned to an asker, if it did
          held,      \* the host: what it holds
          lastSaid,  \* the host: when each answer was last the one to give
          strayed,   \* the host: it has answered another question than it was asked
          changes    \* the host: changes of mind so far

sources == <<echo, cacheBound, cacheEntries, cached>>
askers == <<pc, question, begun, answer, given>>
host == <<held, lastSaid, strayed, changes>>
vars == <<sources, now, askers, verdict, host>>

Never == -1
States == {"held", "unheld", "unreadable"}
Answers == [state : States, about : Questions]
CacheLines == [answer : Answers, until : Int]
NoAnswer == [state |-> "none"]
Verdicts == [of : Questions, begun : Nat, is : States]
NoVerdict == [is |-> "none"]
None == "no question"

TypeOK ==
  /\ echo \in [Questions -> Identifiers]
  /\ cacheBound \in Int /\ cacheEntries \in Int
  /\ DOMAIN cached \subseteq Questions
  /\ \A q \in DOMAIN cached : cached[q] \in CacheLines
  /\ now \in Nat
  /\ pc \in [Askers -> {"idle", "sent", "answered"}]
  /\ question \in [Askers -> Questions \cup {None}]
  /\ begun \in [Askers -> Nat] /\ given \in [Askers -> Nat]
  /\ answer \in [Askers -> Answers \cup {NoAnswer}]
  /\ verdict \in Verdicts \cup {NoVerdict}
  /\ held \in [Questions -> BOOLEAN]
  /\ lastSaid \in [Questions -> [{"held", "unheld"} -> Nat \cup {Never}]]
  /\ strayed \in BOOLEAN /\ changes \in Nat

-----------------------------------------------------------------------------
(* The constructor. *)

\* (Slip: any bound is accepted.)
AnyBound(b) == TRUE

\* A bound above the ceiling is refused, zero is the default.
AcceptedBound(b) == b <= AuthorityCacheBound
EffectiveBound(b) == IF b = 0 THEN AuthorityCacheBound ELSE b
EffectiveEntries(n) == IF n = 0 THEN DefaultEntries ELSE n

NoCache == [q \in {} |-> NoAnswer]

Says(q) == IF held[q] THEN "held" ELSE "unheld"

Init ==
  /\ echo \in [Questions -> Identifiers]
  /\ \E b \in Bounds : AcceptedBound(b) /\ cacheBound = EffectiveBound(b)
  /\ \E n \in Entries : cacheEntries = EffectiveEntries(n)
  /\ cached = NoCache
  /\ now = 0
  /\ pc = [a \in Askers |-> "idle"]
  /\ question = [a \in Askers |-> None]
  /\ begun = [a \in Askers |-> 0] /\ given = [a \in Askers |-> 0]
  /\ answer = [a \in Askers |-> NoAnswer]
  /\ verdict = NoVerdict
  /\ held \in [Questions -> BOOLEAN]
  /\ lastSaid = [q \in Questions |-> [s \in {"held", "unheld"} |->
                   IF s = Says(q) THEN 0 ELSE Never]]
  /\ strayed = FALSE /\ changes = 0

-----------------------------------------------------------------------------
(* The cache. *)

Without(q) == [p \in DOMAIN cached \ {q} |-> cached[p]]

\* load: an entry is served strictly before its end.
Fresh(q) == q \in DOMAIN cached /\ now < cached[q].until

\* store: at the limit the whole cache goes; the bound runs from now on.
Remember(c, q, line) == [p \in DOMAIN c \cup {q} |-> IF p = q THEN line ELSE c[p]]

\* (Slip: the limit is looked at one entry too late.)
StoredOverfull(q, a) ==
  IF cacheEntries < 0 THEN cached
  ELSE LET room == IF Cardinality(DOMAIN cached) > cacheEntries
                     THEN NoCache ELSE cached
       IN  Remember(room, q, [answer |-> a, until |-> now + cacheBound])

Stored(q, a) ==
  IF cacheEntries < 0 THEN cached
  ELSE LET room == IF Cardinality(DOMAIN cached) >= cacheEntries
                     THEN NoCache ELSE cached
       IN  Remember(room, q, [answer |-> a, until |-> now + cacheBound])

\* (Slip: the identifier in the answer is not compared.)
VerdictUnattributed(q, a) == a.state

\* What a source makes of an answer, remembered or not: of what it is about it
\* compares the identifier that is repeated.
Verdict(q, a) == IF echo[a.about] # echo[q] THEN "unreadable" ELSE a.state

-----------------------------------------------------------------------------
(* One question. *)

Return(a, v) ==
  /\ pc' = [pc EXCEPT ![a] = "idle"]
  /\ question' = [question EXCEPT ![a] = None]
  /\ begun' = [begun EXCEPT ![a] = 0] /\ given' = [given EXCEPT ![a] = 0]
  /\ answer' = [answer EXCEPT ![a] = NoAnswer]
  /\ verdict' = v

Hit(a, q) ==
  /\ pc[a] = "idle" /\ Fresh(q)
  /\ verdict' = [of |-> q, begun |-> now, is |-> Verdict(q, cached[q].answer)]
  /\ UNCHANGED <<sources, now, askers, host>>

\* The entry that ended is deleted, the question sent.
Miss(a, q) ==
  /\ pc[a] = "idle" /\ ~Fresh(q)
  /\ cached' = Without(q)
  /\ pc' = [pc EXCEPT ![a] = "sent"]
  /\ question' = [question EXCEPT ![a] = q]
  /\ begun' = [begun EXCEPT ![a] = now]
  /\ verdict' = NoVerdict
  /\ UNCHANGED <<echo, cacheBound, cacheEntries, now, answer, given, host>>

\* External: the host answers from its state, or in one of the ways a client
\* must not read: about another question, or in a state it does not know.
Resolve(a) ==
  /\ pc[a] = "sent"
  /\ pc' = [pc EXCEPT ![a] = "answered"]
  /\ \/ \E q \in Questions :
          /\ answer' = [answer EXCEPT ![a] = [state |-> Says(q), about |-> q]]
          /\ strayed' = (strayed \/ q # question[a])
     \/ /\ answer' = [answer EXCEPT ![a] = [state |-> "unreadable", about |-> question[a]]]
        /\ UNCHANGED strayed
  /\ given' = [given EXCEPT ![a] = now]
  /\ verdict' = NoVerdict
  /\ UNCHANGED <<sources, now, question, begun, held, lastSaid, changes>>

\* (Slip: the result of a failed call is remembered like any other.)
CallFailsRemembered(a) ==
  /\ pc[a] \in {"sent", "answered"}
  /\ cached' = Stored(question[a], NoAnswer)
  /\ Return(a, NoVerdict)
  /\ UNCHANGED <<echo, cacheBound, cacheEntries, now, host>>

\* Any error of callAsModule, or no message: nothing is remembered.
CallFails(a) ==
  /\ pc[a] \in {"sent", "answered"}
  /\ Return(a, NoVerdict)
  /\ UNCHANGED <<sources, now, host>>

\* The answer arrives, is remembered, and only then judged.
Receive(a) ==
  /\ pc[a] = "answered"
  /\ cached' = Stored(question[a], answer[a])
  /\ Return(a, [of |-> question[a], begun |-> begun[a],
                is |-> Verdict(question[a], answer[a])])
  /\ UNCHANGED <<echo, cacheBound, cacheEntries, now, host>>

-----------------------------------------------------------------------------
(* External: the host's state, and time. *)

\* A revocation, or the grant of what was refused.
Change(q) ==
  /\ changes < MaxChanges
  /\ changes' = changes + 1
  /\ held' = [held EXCEPT ![q] = ~@]
  /\ lastSaid' = [lastSaid EXCEPT ![q][Says(q)'] = now]
  /\ verdict' = NoVerdict
  /\ UNCHANGED <<sources, now, askers, strayed>>

\* What the host says now, it said now. No answer travels beyond MaxFlight.
Tick ==
  /\ now < MaxTime
  /\ \A a \in Askers : pc[a] = "answered" => now < given[a] + MaxFlight
  /\ now' = now + 1
  /\ lastSaid' = [q \in Questions |-> [lastSaid[q] EXCEPT ![Says(q)] = now + 1]]
  /\ verdict' = NoVerdict
  /\ UNCHANGED <<sources, askers, held, strayed, changes>>

Next ==
  \/ \E a \in Askers :
       \/ \E q \in Questions : Hit(a, q) \/ Miss(a, q)
       \/ Resolve(a) \/ CallFails(a) \/ Receive(a)
  \/ \E q \in Questions : Change(q)
  \/ Tick

Spec == Init /\ [][Next]_vars

-----------------------------------------------------------------------------
(* Properties. *)

\* "So a module verifying capabilities for many principals cannot grow this
\* without limit" (verifier_sources.go:87): no interleaving of questions leaves
\* more answers than CacheEntries, and a negative CacheEntries leaves none.
CacheBounded ==
  IF cacheEntries < 0 THEN cached = NoCache
  ELSE Cardinality(DOMAIN cached) <= cacheEntries

\* The questions whose answers may be taken for one to q: q alone, as long as the
\* host has answered what it was asked, then all that repeat the same identifier.
Mistakable(q) == IF strayed THEN {p \in Questions : echo[p] = echo[q]} ELSE {q}

\* How long the host's change of mind may go unnoticed: an answer, whether it
\* admits or refuses, is one the host would still have given when the question
\* was begun, or less than the cache's ceiling and one answer's flight before.
\* (The bound runs from the answer's arrival, so its flight comes on top, and an
\* old answer may arrive after, and replace, a newer one.)
AnswerDelay ==
  verdict.is \in {"held", "unheld"} =>
    \E q \in Mistakable(verdict.of) :
      LET last == lastSaid[q][verdict.is]
      IN  \/ verdict.begun <= last
          \/ verdict.begun < last + AuthorityCacheBound + MaxFlight

\* "It is this client refusing to carry an answer it cannot attribute"
\* (verifier_sources.go:261), and the cache does not answer "one question with
\* another's answer" (verifier_sources.go:201): a question is answered with what the
\* host said to it. Only when the host itself answers another question than it was
\* asked may that be what it said to one that repeats the same identifier. (Of
\* seals that is another principal of the same installation, whose answer the
\* comment of ErrUnreadableAuthorityAnswer, verifier_sources.go:54, says is not
\* read either.)
Attributed ==
  verdict.is \in {"held", "unheld"} =>
    \E q \in Mistakable(verdict.of) : lastSaid[q][verdict.is] # Never

\* "Only POSITIVE answers are cached. A refusal is never cached"
\* (verifier_sources.go:82).
OnlyPositiveCached ==
  \A q \in DOMAIN cached : Verdict(q, cached[q].answer) = "held"

\* "A cache delays a revocation by at most its bound" (verifier_sources.go:77):
\* without the cache a question begun after the revocation is refused, so with it
\* one begun more than the bound after is.
DelayWithinBound ==
  verdict.is = "held" =>
    verdict.begun <= lastSaid[verdict.of]["held"] + cacheBound

=============================================================================
