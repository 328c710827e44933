----------------------- MODULE WorkContextSourcesProofs -----------------------
(***************************************************************************)
(* The cache stays within its limit, an answer is never read as one to     *)
(* another question, and none is older than the ceiling and a flight: for  *)
(* any number of verifiers and questions, any settings that the            *)
(* constructor accepts, any ceiling, flight and history of the host.       *)
(***************************************************************************)
EXTENDS WorkContextSources, FiniteSetTheorems, TLAPS

\* The constructor's settings: the bound is under the ceiling, the limit not zero.
Settled ==
  /\ echo \in [Questions -> Identifiers]
  /\ cacheBound \in Int /\ cacheBound <= AuthorityCacheBound
  /\ cacheEntries \in Int /\ cacheEntries # 0

\* The host's history is complete and reaches up to now.
History ==
  /\ now \in Nat
  /\ held \in [Questions -> BOOLEAN]
  /\ lastSaid \in [Questions -> [{"held", "unheld"} -> Nat \cup {Never}]]
  /\ \A q \in Questions : lastSaid[q][Says(q)] = now
  /\ \A q \in Questions, s \in {"held", "unheld"} : lastSaid[q][s] <= now

\* By the history said, the host said this to the question it is about at t or later.
SaidSince(a, t, said) ==
  a.state \in {"held", "unheld"} => said[a.about][a.state] >= t

\* An answer under way was given after its question was begun, and not long ago.
Asking ==
  /\ pc \in [Askers -> {"idle", "sent", "answered"}]
  /\ question \in [Askers -> Questions \cup {None}]
  /\ begun \in [Askers -> Nat] /\ given \in [Askers -> Nat]
  /\ answer \in [Askers -> Answers \cup {NoAnswer}]
  /\ \A a \in Askers :
       /\ pc[a] # "idle" => question[a] \in Questions /\ begun[a] <= now
       /\ pc[a] = "answered" =>
            /\ answer[a] \in Answers
            /\ SaidSince(answer[a], given[a], lastSaid)
            /\ begun[a] <= given[a] /\ given[a] <= now /\ now <= given[a] + MaxFlight

\* An answer is remembered for no longer than the ceiling after its flight.
Line(line, said) ==
  /\ line \in CacheLines
  /\ SaidSince(line.answer, 0, said)
  /\ SaidSince(line.answer, line.until - MaxFlight - AuthorityCacheBound, said)

Remembered ==
  /\ DOMAIN cached \subseteq Questions /\ IsFiniteSet(DOMAIN cached)
  /\ \A q \in DOMAIN cached : Line(cached[q], lastSaid)

\* As long as the host answers what it is asked, every answer is to its question.
Straight ==
  ~strayed =>
    /\ \A a \in Askers : pc[a] = "answered" => answer[a].about = question[a]
    /\ \A q \in DOMAIN cached : cached[q].answer.about = q

Judged == verdict \in Verdicts \cup {NoVerdict}

IInv ==
  /\ Settled /\ History /\ Asking /\ Remembered /\ Straight /\ Judged
  /\ strayed \in BOOLEAN /\ changes \in Nat
  /\ CacheBounded /\ AnswerDelay /\ Attributed

-----------------------------------------------------------------------------
(* The host's history. *)

\* It only grows, whoever takes a step.
Later == \A q \in Questions, s \in {"held", "unheld"} : lastSaid'[q][s] >= lastSaid[q][s]

LEMMA HistoryChange ==
  ASSUME History, NEW q \in Questions, Change(q)
  PROVE  History' /\ Later
<1> DEFINE said == IF held[q] THEN "unheld" ELSE "held"
<1>1. held' = [held EXCEPT ![q] = ~held[q]] /\ now' = now
  BY DEF Change, sources
<1>2. held' \in [Questions -> BOOLEAN] BY <1>1 DEF History
<1>3. /\ Says(q)' = said
      /\ \A p \in Questions \ {q} : Says(p)' = Says(p)
  BY <1>1 DEF Says, History
<1>4. lastSaid' = [lastSaid EXCEPT ![q] = [@ EXCEPT ![said] = now]]
  BY <1>3 DEF Change
<1>5. \A p \in Questions : lastSaid[p] \in [{"held", "unheld"} -> Nat \cup {Never}]
  BY DEF History
<1>6. \A p \in Questions, s \in {"held", "unheld"} :
        lastSaid'[p][s] = IF p = q /\ s = said THEN now ELSE lastSaid[p][s]
  BY <1>4, <1>5 DEF History
<1>7. lastSaid' \in [Questions -> [{"held", "unheld"} -> Nat \cup {Never}]]
  <2>1. [lastSaid[q] EXCEPT ![said] = now] \in [{"held", "unheld"} -> Nat \cup {Never}]
    BY <1>5 DEF History
  <2> QED BY <1>4, <2>1 DEF History
<1>8. \A p \in Questions, s \in {"held", "unheld"} :
        lastSaid[p][s] \in Int /\ lastSaid[p][s] <= now
  BY <1>5 DEF History, Never
<1>9. \A p \in Questions : lastSaid'[p][Says(p)'] = now
  <2>1. \A p \in Questions : Says(p) \in {"held", "unheld"} BY DEF Says
  <2> QED BY <1>3, <1>6, <2>1 DEF History
<1> HIDE DEF said
<1> QED BY <1>1, <1>2, <1>6, <1>7, <1>8, <1>9 DEF History, Later

LEMMA HistoryTick ==
  ASSUME History, Tick
  PROVE  History' /\ Later
<1>1. held' = held /\ now' = now + 1 BY DEF Tick
<1>2. \A p \in Questions : Says(p)' = Says(p) /\ Says(p) \in {"held", "unheld"}
  BY <1>1 DEF Says
<1>3. \A p \in Questions : lastSaid[p] \in [{"held", "unheld"} -> Nat \cup {Never}]
  BY DEF History
<1>4. lastSaid' = [q \in Questions |-> [lastSaid[q] EXCEPT ![Says(q)] = now + 1]]
  BY DEF Tick
<1>5. \A p \in Questions, s \in {"held", "unheld"} :
        lastSaid'[p][s] = IF s = Says(p) THEN now + 1 ELSE lastSaid[p][s]
  BY <1>3, <1>4
<1>6. ASSUME NEW p \in Questions
      PROVE  [lastSaid[p] EXCEPT ![Says(p)] = now + 1] \in [{"held", "unheld"} -> Nat \cup {Never}]
  <2>1. now + 1 \in Nat \cup {Never} BY DEF History
  <2> QED BY <1>2, <1>3, <2>1
<1>7. lastSaid' \in [Questions -> [{"held", "unheld"} -> Nat \cup {Never}]]
  BY <1>4, <1>6
<1>8. \A p \in Questions, s \in {"held", "unheld"} :
        lastSaid[p][s] \in Int /\ lastSaid[p][s] <= now
  BY <1>3 DEF History, Never
<1>9. now \in Nat BY DEF History
<1> QED BY <1>1, <1>2, <1>5, <1>7, <1>8, <1>9 DEF History, Later

LEMMA HistoryKept ==
  ASSUME History, [Next]_vars
  PROVE  History' /\ Later
<1>1. CASE UNCHANGED <<now, held, lastSaid>>
  <2>1. \A p \in Questions : lastSaid[p] \in [{"held", "unheld"} -> Nat \cup {Never}]
    BY DEF History
  <2>2. \A p \in Questions, s \in {"held", "unheld"} : lastSaid[p][s] \in Int
    BY <2>1 DEF Never
  <2> QED BY <1>1, <2>2 DEF History, Later, Says
<1>2. \/ UNCHANGED <<now, held, lastSaid>> \/ Tick \/ \E q \in Questions : Change(q)
  BY DEF Next, vars, host, Hit, Miss, Resolve, CallFails, Receive
<1> QED BY <1>1, <1>2, HistoryTick, HistoryChange

\* What was said since t was said since t for ever.
LEMMA SaidKept ==
  ASSUME History, Later, History', NEW a \in Answers, NEW t \in Int,
         SaidSince(a, t, lastSaid)
  PROVE  SaidSince(a, t, lastSaid')
<1>1. a.about \in Questions /\ a.state \in States BY DEF Answers
<1>2. \A p \in Questions, s \in {"held", "unheld"} :
        lastSaid[p][s] \in Int /\ lastSaid'[p][s] \in Int
  BY DEF History, Never
<1> QED BY <1>1, <1>2 DEF SaidSince, Later

\* An answer is understood only if it may be taken for one to the question.
LEMMA Understood ==
  ASSUME NEW q \in Questions, NEW a \in Answers, ~strayed => a.about = q,
         Verdict(q, a) \in {"held", "unheld"}
  PROVE  a.about \in Mistakable(q) /\ a.state = Verdict(q, a)
BY DEF Verdict, Answers, Mistakable

LEMMA VerdictType ==
  ASSUME NEW q \in Questions, NEW a \in Answers PROVE Verdict(q, a) \in States
BY DEF Verdict, Answers, States

-----------------------------------------------------------------------------
(* The cache. *)

\* Storing keeps the limit, and adds at most the one line.
LEMMA StoredLines ==
  ASSUME Settled, Remembered, CacheBounded, NEW q \in Questions, NEW a
  PROVE  /\ DOMAIN Stored(q, a) \subseteq Questions /\ IsFiniteSet(DOMAIN Stored(q, a))
         /\ \A p \in DOMAIN Stored(q, a) :
              \/ Stored(q, a)[p] = [answer |-> a, until |-> now + cacheBound]
              \/ p \in DOMAIN cached /\ Stored(q, a)[p] = cached[p]
         /\ IF cacheEntries < 0 THEN Stored(q, a) = NoCache
                                ELSE Cardinality(DOMAIN Stored(q, a)) <= cacheEntries
<1>1. CASE cacheEntries < 0
  BY <1>1 DEF Stored, Remembered, CacheBounded
<1>2. CASE ~(cacheEntries < 0)
  <2> DEFINE room == IF Cardinality(DOMAIN cached) >= cacheEntries THEN NoCache ELSE cached
             line == [answer |-> a, until |-> now + cacheBound]
  <2>1. Stored(q, a) = Remember(room, q, line) BY <1>2 DEF Stored
  <2>2. /\ DOMAIN room \subseteq DOMAIN cached
        /\ \A p \in DOMAIN room : room[p] = cached[p]
    BY DEF NoCache
  <2>3. cacheEntries \in Nat \ {0} BY <1>2 DEF Settled
  <2>4. IsFiniteSet(DOMAIN room) /\ Cardinality(DOMAIN room) < cacheEntries
    <3>1. CASE Cardinality(DOMAIN cached) >= cacheEntries
      <4>1. DOMAIN room = {} BY <3>1 DEF NoCache
      <4> HIDE DEF room
      <4> QED BY <2>3, <4>1, FS_EmptySet
    <3>2. CASE ~(Cardinality(DOMAIN cached) >= cacheEntries)
      <4>1. Cardinality(DOMAIN cached) \in Nat BY FS_CardinalityType DEF Remembered
      <4> QED BY <2>3, <3>2, <4>1 DEF Remembered
    <3> QED BY <3>1, <3>2
  <2> HIDE DEF room, line
  <2>5. /\ DOMAIN Remember(room, q, line) = DOMAIN room \cup {q}
        /\ \A p \in DOMAIN Remember(room, q, line) :
             Remember(room, q, line)[p] = IF p = q THEN line ELSE room[p]
    BY DEF Remember
  <2>6. /\ IsFiniteSet(DOMAIN room \cup {q})
        /\ Cardinality(DOMAIN room \cup {q}) <= cacheEntries
    <3>1. /\ IsFiniteSet(DOMAIN room \cup {q})
          /\ Cardinality(DOMAIN room \cup {q}) =
               IF q \in DOMAIN room THEN Cardinality(DOMAIN room)
                                    ELSE Cardinality(DOMAIN room) + 1
      BY <2>4, FS_AddElement
    <3>2. Cardinality(DOMAIN room) \in Nat BY <2>4, FS_CardinalityType
    <3> QED BY <2>3, <2>4, <3>1, <3>2
  <2>7. DOMAIN cached \subseteq Questions BY DEF Remembered
  <2> QED BY <1>2, <2>1, <2>2, <2>5, <2>6, <2>7 DEF line
<1> QED BY <1>1, <1>2

\* Only the question's own line is new.
LEMMA StoredAt ==
  ASSUME NEW q, NEW a
  PROVE  \A p \in DOMAIN Stored(q, a) :
           \/ p = q /\ Stored(q, a)[p].answer = a
           \/ p \in DOMAIN cached /\ Stored(q, a)[p] = cached[p]
<1> DEFINE room == IF Cardinality(DOMAIN cached) >= cacheEntries THEN NoCache ELSE cached
           line == [answer |-> a, until |-> now + cacheBound]
<1>1. \A p \in DOMAIN room : p \in DOMAIN cached /\ room[p] = cached[p]
  BY DEF NoCache
<1>2. line.answer = a OBVIOUS
<1>3. Stored(q, a) = IF cacheEntries < 0 THEN cached ELSE Remember(room, q, line)
  BY DEF Stored
<1> HIDE DEF room, line
<1>4. \A p \in DOMAIN Remember(room, q, line) :
        \/ p = q /\ Remember(room, q, line)[p] = line
        \/ p \in DOMAIN room /\ Remember(room, q, line)[p] = room[p]
  BY DEF Remember
<1>5. CASE cacheEntries < 0 BY <1>3, <1>5
<1>6. CASE ~(cacheEntries < 0) BY <1>1, <1>2, <1>3, <1>4, <1>6
<1> QED BY <1>5, <1>6

\* So does deleting a line.
LEMMA WithoutLines ==
  ASSUME Settled, Remembered, CacheBounded, NEW q
  PROVE  /\ DOMAIN Without(q) \subseteq Questions /\ IsFiniteSet(DOMAIN Without(q))
         /\ \A p \in DOMAIN Without(q) : p \in DOMAIN cached /\ Without(q)[p] = cached[p]
         /\ IF cacheEntries < 0 THEN Without(q) = NoCache
                                ELSE Cardinality(DOMAIN Without(q)) <= cacheEntries
<1>1. /\ DOMAIN Without(q) = DOMAIN cached \ {q}
      /\ \A p \in DOMAIN Without(q) : Without(q)[p] = cached[p]
  BY DEF Without
<1>2. /\ IsFiniteSet(DOMAIN cached \ {q})
      /\ Cardinality(DOMAIN cached \ {q}) <= Cardinality(DOMAIN cached)
      /\ Cardinality(DOMAIN cached) \in Nat /\ Cardinality(DOMAIN cached \ {q}) \in Nat
  BY FS_Subset, FS_CardinalityType DEF Remembered
<1>3. CASE cacheEntries < 0
  <2>1. cached = NoCache BY <1>3 DEF CacheBounded
  <2>2. DOMAIN cached = {} BY <2>1 DEF NoCache
  <2>3. Without(q) = NoCache BY <2>2 DEF Without, NoCache
  <2> QED BY <1>1, <1>2, <1>3, <2>3 DEF Remembered
<1>4. CASE ~(cacheEntries < 0)
  BY <1>1, <1>2, <1>4 DEF Remembered, CacheBounded, Settled
<1> QED BY <1>3, <1>4

-----------------------------------------------------------------------------
(* The inductive invariant. *)

LEMMA InitInv == Init => IInv
<1> SUFFICES ASSUME Init PROVE IInv
  OBVIOUS
<1> USE CeilingAssumption, SettingsAssumption, BoundsAssumption
<1>1. Settled
  BY DEF Init, Settled, AcceptedBound, EffectiveBound, EffectiveEntries
<1>2. History
  <2>1. \A q \in Questions : Says(q) \in {"held", "unheld"} BY DEF Says
  <2>2. \A q \in Questions, s \in {"held", "unheld"} :
          lastSaid[q][s] = IF s = Says(q) THEN 0 ELSE Never
    BY DEF Init
  <2>3. lastSaid \in [Questions -> [{"held", "unheld"} -> Nat \cup {Never}]]
    BY DEF Init
  <2> QED BY <2>1, <2>2, <2>3 DEF Init, History, Never
<1>3. Asking BY DEF Init, Asking
<1>4. DOMAIN cached = {} BY DEF Init, NoCache
<1>5. Remembered BY <1>4, FS_EmptySet DEF Remembered
<1>6. CacheBounded BY <1>1, <1>4, FS_EmptySet DEF Init, CacheBounded, Settled
<1>7. Judged /\ AnswerDelay /\ Attributed
  BY DEF Init, Judged, AnswerDelay, Attributed, NoVerdict
<1>8. strayed \in BOOLEAN /\ changes \in Nat BY DEF Init
<1>9. Straight BY <1>4 DEF Init, Straight
<1> QED BY <1>1, <1>2, <1>3, <1>5, <1>6, <1>7, <1>8, <1>9 DEF IInv

LEMMA NextSettled ==
  IInv /\ [Next]_vars => Settled' /\ strayed' \in BOOLEAN /\ changes' \in Nat
<1> SUFFICES ASSUME IInv, [Next]_vars
             PROVE  Settled' /\ strayed' \in BOOLEAN /\ changes' \in Nat
  OBVIOUS
<1>1. UNCHANGED <<echo, cacheBound, cacheEntries>>
  BY DEF Next, vars, sources, Hit, Miss, Resolve, CallFails, Receive, Change, Tick
<1>2. UNCHANGED changes \/ changes' = changes + 1
  BY DEF Next, vars, host, Hit, Miss, Resolve, CallFails, Receive, Change, Tick
<1>3. UNCHANGED strayed \/ \E b \in BOOLEAN : strayed' = b
  BY DEF Next, vars, host, Hit, Miss, Resolve, CallFails, Receive, Change, Tick
<1> QED BY <1>1, <1>2, <1>3 DEF IInv, Settled

\* The types of what an asker has in hand.
AskingTypes ==
  /\ pc \in [Askers -> {"idle", "sent", "answered"}]
  /\ question \in [Askers -> Questions \cup {None}]
  /\ begun \in [Askers -> Nat] /\ given \in [Askers -> Nat]
  /\ answer \in [Askers -> Answers \cup {NoAnswer}]

\* What is stored was answered, and what is answered is judged straying or not.
LEMMA NextStraight == IInv /\ [Next]_vars => Straight'
<1> SUFFICES ASSUME IInv, [Next]_vars, ~strayed'
             PROVE  /\ \A a \in Askers : pc'[a] = "answered" => answer'[a].about = question'[a]
                    /\ \A q \in DOMAIN cached' : cached'[q].answer.about = q
  BY DEF Straight
<1>1. ~strayed
  BY DEF Next, vars, host, Hit, Miss, Resolve, CallFails, Receive, Change, Tick
<1>2. /\ \A a \in Askers : pc[a] = "answered" => answer[a].about = question[a]
      /\ \A q \in DOMAIN cached : cached[q].answer.about = q
      /\ Settled /\ Remembered /\ CacheBounded /\ AskingTypes
  BY <1>1 DEF IInv, Straight, Asking, AskingTypes
<1>3. CASE UNCHANGED <<pc, question, answer, cached>>
  BY <1>2, <1>3
<1>4. ASSUME NEW a \in Askers, NEW q \in Questions, Miss(a, q)
      PROVE  /\ \A d \in Askers : pc'[d] = "answered" => answer'[d].about = question'[d]
             /\ \A p \in DOMAIN cached' : cached'[p].answer.about = p
  <2>1. cached' = Without(q) BY <1>4 DEF Miss
  <2>2. \A p \in DOMAIN cached' : cached'[p].answer.about = p
    BY <1>2, <2>1, WithoutLines
  <2>3. \A d \in Askers : pc'[d] = "answered" => answer'[d].about = question'[d]
    BY <1>2, <1>4 DEF Miss, AskingTypes
  <2> QED BY <2>2, <2>3
<1>5. ASSUME NEW a \in Askers, Resolve(a)
      PROVE  /\ \A d \in Askers : pc'[d] = "answered" => answer'[d].about = question'[d]
             /\ \A p \in DOMAIN cached' : cached'[p].answer.about = p
  <2>1. PICK ans : answer' = [answer EXCEPT ![a] = ans] /\ ans.about = question[a]
    <3> DEFINE to(state) == [state |-> state, about |-> question[a]]
    <3>1. \A state : to(state).about = question[a] OBVIOUS
    <3>2. \/ answer' = [answer EXCEPT ![a] = to("unreadable")]
          \/ \E q \in Questions : answer' = [answer EXCEPT ![a] = to(Says(q))]
      BY <1>5 DEF Resolve
    <3> HIDE DEF to
    <3> QED BY <3>1, <3>2
  <2>2. \A d \in Askers : pc'[d] = "answered" => answer'[d].about = question'[d]
    BY <1>2, <1>5, <2>1 DEF Resolve, AskingTypes
  <2>3. cached' = cached BY <1>5 DEF Resolve, sources
  <2> QED BY <1>2, <2>2, <2>3
<1>6. ASSUME NEW a \in Askers, CallFails(a) \/ Receive(a)
      PROVE  /\ \A d \in Askers : pc'[d] = "answered" => answer'[d].about = question'[d]
             /\ \A p \in DOMAIN cached' : cached'[p].answer.about = p
  <2>1. \E v : Return(a, v) BY <1>6 DEF CallFails, Receive
  <2>2. \A d \in Askers : pc'[d] = "answered" => answer'[d].about = question'[d]
    BY <1>2, <2>1 DEF Return, AskingTypes
  <2>3. CASE CallFails(a) BY <1>2, <2>2, <2>3 DEF CallFails, sources
  <2>4. CASE Receive(a)
    <3>1. cached' = Stored(question[a], answer[a]) /\ pc[a] = "answered"
      BY <2>4 DEF Receive
    <3>2. question[a] \in Questions /\ answer[a].about = question[a]
      BY <1>2, <3>1 DEF IInv, Asking
    <3>3. \A p \in DOMAIN cached' : cached'[p].answer.about = p
      BY <1>2, <3>1, <3>2, StoredAt
    <3> QED BY <2>2, <3>3
  <2> QED BY <1>6, <2>3, <2>4
<1>7. \/ UNCHANGED <<pc, question, answer, cached>>
      \/ \E a \in Askers : \/ Resolve(a) \/ CallFails(a) \/ Receive(a)
                           \/ \E q \in Questions : Miss(a, q)
  BY DEF Next, vars, sources, askers, Hit, Change, Tick
<1> QED BY <1>3, <1>4, <1>5, <1>6, <1>7

\* A line that is not touched stays good, since what was said stays said.
LEMMA LineKept ==
  ASSUME History, Later, History', NEW line, Line(line, lastSaid)
  PROVE  Line(line, lastSaid')
<1>1. line \in CacheLines /\ line.answer \in Answers /\ line.until \in Int
  BY DEF Line, CacheLines
<1>2. line.until - MaxFlight - AuthorityCacheBound \in Int
  BY <1>1, CeilingAssumption, BoundsAssumption
<1> QED BY <1>1, <1>2, SaidKept DEF Line

LEMMA NextCache == IInv /\ [Next]_vars => Remembered' /\ CacheBounded'
<1> SUFFICES ASSUME IInv, [Next]_vars PROVE Remembered' /\ CacheBounded'
  OBVIOUS
<1>1. Settled /\ Remembered /\ CacheBounded /\ History BY DEF IInv
<1>2. History' /\ Later BY <1>1, HistoryKept
<1>3. CASE UNCHANGED <<cached, cacheEntries>>
  BY <1>1, <1>2, <1>3, LineKept DEF Remembered, CacheBounded
<1>4. ASSUME NEW a \in Askers, NEW q \in Questions, Miss(a, q)
      PROVE  Remembered' /\ CacheBounded'
  <2>1. cached' = Without(q) /\ cacheEntries' = cacheEntries BY <1>4 DEF Miss
  <2>2. CacheBounded' BY <1>1, <2>1, WithoutLines DEF CacheBounded
  <2>3. \A p \in DOMAIN cached' : Line(cached'[p], lastSaid')
    BY <1>1, <1>2, <2>1, WithoutLines, LineKept DEF Remembered
  <2> QED BY <1>1, <2>1, <2>2, <2>3, WithoutLines DEF Remembered
<1>5. ASSUME NEW a \in Askers, Receive(a) PROVE Remembered' /\ CacheBounded'
  <2>1. /\ cached' = Stored(question[a], answer[a]) /\ cacheEntries' = cacheEntries
        /\ question[a] \in Questions /\ answer[a] \in Answers
        /\ SaidSince(answer[a], given[a], lastSaid) /\ given[a] \in Nat
        /\ now <= given[a] + MaxFlight
    BY <1>5 DEF Receive, IInv, Asking
  <2>2. CacheBounded' BY <1>1, <2>1, StoredLines DEF CacheBounded
  <2> DEFINE line == [answer |-> answer[a], until |-> now + cacheBound]
  <2>3. Line(line, lastSaid)
    <3>1. line \in CacheLines
      BY <1>1, <2>1 DEF CacheLines, Settled, History
    <3>2. line.until - MaxFlight - AuthorityCacheBound <= given[a]
      BY <1>1, <2>1, CeilingAssumption, BoundsAssumption DEF Settled, History
    <3>3. line.until \in Int BY <1>1 DEF Settled, History
    <3>4. answer[a].about \in Questions BY <2>1 DEF Answers
    <3>5. \A q \in Questions, s \in {"held", "unheld"} : lastSaid[q][s] \in Int
      BY <1>1 DEF History, Never
    <3>6. line.answer = answer[a] OBVIOUS
    <3> HIDE DEF line
    <3>7. SaidSince(line.answer, line.until - MaxFlight - AuthorityCacheBound, lastSaid)
      BY <2>1, <3>2, <3>3, <3>4, <3>5, <3>6, CeilingAssumption, BoundsAssumption
      DEF SaidSince
    <3>8. SaidSince(line.answer, 0, lastSaid)
      BY <2>1, <3>4, <3>5, <3>6 DEF SaidSince
    <3> QED BY <3>1, <3>7, <3>8 DEF Line
  <2> HIDE DEF line
  <2>4. \A p \in DOMAIN cached' : Line(cached'[p], lastSaid)
    <3>1. \A p \in DOMAIN cached' : cached'[p] = line \/ (p \in DOMAIN cached /\ cached'[p] = cached[p])
      BY <1>1, <2>1, StoredLines DEF line
    <3> QED BY <1>1, <2>3, <3>1 DEF Remembered
  <2>5. \A p \in DOMAIN cached' : Line(cached'[p], lastSaid') BY <1>1, <1>2, <2>4, LineKept
  <2> QED BY <1>1, <2>1, <2>2, <2>5, StoredLines DEF Remembered
<1>6. \/ UNCHANGED <<cached, cacheEntries>>
      \/ \E a \in Askers : Receive(a) \/ \E q \in Questions : Miss(a, q)
  BY DEF Next, vars, sources, Hit, Resolve, CallFails, Change, Tick
<1> QED BY <1>3, <1>4, <1>5, <1>6

LEMMA NextVerdict == IInv /\ [Next]_vars => Judged' /\ AnswerDelay' /\ Attributed'
<1> SUFFICES ASSUME IInv, [Next]_vars PROVE Judged' /\ AnswerDelay' /\ Attributed'
  OBVIOUS
<1>1. Settled /\ Remembered /\ Straight /\ Judged /\ AnswerDelay /\ Attributed /\ History
  BY DEF IInv
<1>2. \A q \in Questions, s \in {"held", "unheld"} : lastSaid[q][s] \in Int
  BY <1>1 DEF History, Never
<1>3. CASE verdict' = NoVerdict
  BY <1>3 DEF Judged, AnswerDelay, Attributed, NoVerdict
<1>4. CASE UNCHANGED vars
  <2>1. verdict' = verdict /\ lastSaid' = lastSaid /\ echo' = echo /\ strayed' = strayed
    BY <1>4 DEF vars, sources, host
  <2>2. \A q : Mistakable(q)' = Mistakable(q) BY <2>1 DEF Mistakable
  <2> QED BY <1>1, <2>1, <2>2 DEF Judged, AnswerDelay, Attributed
<1>5. ASSUME NEW a \in Askers, NEW q \in Questions, Hit(a, q)
      PROVE  Judged' /\ AnswerDelay' /\ Attributed'
  <2> DEFINE line == cached[q]
  <2>1. Line(line, lastSaid) /\ now < line.until
    BY <1>1, <1>5 DEF Hit, Fresh, Remembered
  <2>2. verdict' = [of |-> q, begun |-> now, is |-> Verdict(q, line.answer)]
        /\ lastSaid' = lastSaid /\ echo' = echo /\ strayed' = strayed
    BY <1>5 DEF Hit, sources, host
  <2> HIDE DEF line
  <2>3. line.answer \in Answers /\ line.until \in Int BY <2>1 DEF Line, CacheLines
  <2>4. Judged' BY <1>1, <2>2, <2>3, VerdictType DEF Judged, Verdicts, History
  <2>5. verdict'.of = q /\ verdict'.begun = now /\ verdict'.is = Verdict(q, line.answer)
    BY <2>2
  <2>6. CASE Verdict(q, line.answer) \in {"held", "unheld"}
    <3> DEFINE p == line.answer.about
    <3>1. p \in Mistakable(q) /\ line.answer.state = verdict'.is
      <4>1. ~strayed => line.answer.about = q
        BY <1>1, <1>5 DEF line, Hit, Fresh, Straight
      <4> QED BY <2>3, <2>5, <2>6, <4>1, Understood
    <3>2. p \in Questions /\ p \in Mistakable(q)'
      BY <2>2, <2>3, <3>1 DEF Answers, Mistakable
    <3> HIDE DEF p
    <3>3. lastSaid[p][verdict'.is] >= 0
          /\ lastSaid[p][verdict'.is] >= line.until - MaxFlight - AuthorityCacheBound
      BY <2>1, <2>5, <2>6, <3>1 DEF Line, SaidSince, p
    <3>4. now \in Nat /\ lastSaid[p][verdict'.is] \in Int
      BY <1>1, <1>2, <2>5, <2>6, <3>2 DEF History
    <3>5. now < lastSaid[p][verdict'.is] + AuthorityCacheBound + MaxFlight
      BY <2>1, <2>3, <3>3, <3>4, CeilingAssumption, BoundsAssumption
    <3> QED BY <2>2, <2>4, <2>5, <3>2, <3>3, <3>4, <3>5 DEF AnswerDelay, Attributed, Never
  <2> QED BY <2>4, <2>5, <2>6 DEF AnswerDelay, Attributed
<1>6. ASSUME NEW a \in Askers, Receive(a)
      PROVE  Judged' /\ AnswerDelay' /\ Attributed'
  <2>1. verdict' = [of |-> question[a], begun |-> begun[a],
                    is |-> Verdict(question[a], answer[a])]
        /\ lastSaid' = lastSaid /\ echo' = echo /\ strayed' = strayed
    BY <1>6 DEF Receive, Return, host
  <2>2. /\ question[a] \in Questions /\ answer[a] \in Answers
        /\ SaidSince(answer[a], given[a], lastSaid)
        /\ begun[a] \in Nat /\ given[a] \in Nat /\ begun[a] <= given[a]
    BY <1>6 DEF Receive, IInv, Asking
  <2>3. Judged' BY <2>1, <2>2, VerdictType DEF Judged, Verdicts
  <2>4. /\ verdict'.of = question[a] /\ verdict'.begun = begun[a]
        /\ verdict'.is = Verdict(question[a], answer[a])
    BY <2>1
  <2>5. CASE Verdict(question[a], answer[a]) \in {"held", "unheld"}
    <3>1. PICK q, p : q = question[a] /\ p = answer[a].about OBVIOUS
    <3>2. p \in Mistakable(q) /\ answer[a].state = verdict'.is
      <4>1. ~strayed => answer[a].about = question[a]
        BY <1>1, <1>6 DEF Receive, Straight
      <4> QED BY <2>2, <2>4, <2>5, <3>1, <4>1, Understood
    <3>3. p \in Questions BY <2>2, <3>1 DEF Answers
    <3>4. p \in Mistakable(verdict.of)'
      <4>1. verdict'.of = q BY <2>4, <3>1
      <4> QED BY <2>1, <3>2, <4>1 DEF Mistakable
    <3>5. lastSaid[p][verdict'.is] >= given[a] /\ lastSaid[p][verdict'.is] \in Int
      BY <1>2, <2>2, <2>4, <2>5, <3>1, <3>2, <3>3 DEF SaidSince
    <3> QED BY <2>1, <2>2, <2>3, <2>4, <3>4, <3>5 DEF AnswerDelay, Attributed, Never
  <2> QED BY <2>3, <2>4, <2>5 DEF AnswerDelay, Attributed
<1>7. \/ verdict' = NoVerdict \/ UNCHANGED vars
      \/ \E a \in Askers : Receive(a) \/ \E q \in Questions : Hit(a, q)
  BY DEF Next, Miss, Resolve, CallFails, Return, Change, Tick
<1> QED BY <1>3, <1>4, <1>5, <1>6, <1>7

\* What Asking says of one asker.
AskingAs(a) ==
  /\ pc[a] # "idle" => question[a] \in Questions /\ begun[a] <= now
  /\ pc[a] = "answered" =>
       /\ answer[a] \in Answers
       /\ SaidSince(answer[a], given[a], lastSaid)
       /\ begun[a] <= given[a] /\ given[a] <= now /\ now <= given[a] + MaxFlight

\* An asker that does not move, while the clock stands, asks as it did.
LEMMA AskingKept ==
  ASSUME IInv, [Next]_vars, NEW a \in Askers, now' = now,
         pc'[a] = pc[a], question'[a] = question[a], begun'[a] = begun[a],
         answer'[a] = answer[a], given'[a] = given[a]
  PROVE  AskingAs(a)'
<1>1. Asking /\ History BY DEF IInv
<1>2. History' /\ Later BY <1>1, HistoryKept
<1>3. given[a] \in Int BY <1>1 DEF Asking
<1>4. CASE pc[a] = "answered"
  <2>1. answer[a] \in Answers /\ SaidSince(answer[a], given[a], lastSaid)
    BY <1>1, <1>4 DEF Asking
  <2>2. SaidSince(answer[a], given[a], lastSaid') BY <1>1, <1>2, <1>3, <2>1, SaidKept
  <2>3. SaidSince(answer'[a], given'[a], lastSaid') BY <2>2
  <2> QED BY <1>1, <1>4, <2>1, <2>3 DEF Asking, AskingAs
<1>5. CASE pc[a] # "answered"
  BY <1>1, <1>5 DEF Asking, AskingAs
<1> QED BY <1>4, <1>5

LEMMA NextAsking == IInv /\ [Next]_vars => Asking'
<1> SUFFICES ASSUME IInv, [Next]_vars PROVE Asking'
  OBVIOUS
<1> USE CeilingAssumption, BoundsAssumption
<1>1. /\ Asking /\ History /\ AskingTypes /\ now \in Nat
      /\ \A q \in Questions, s \in {"held", "unheld"} : lastSaid[q][s] \in Int
  BY DEF IInv, Asking, AskingTypes, History, Never
<1>2. AskingTypes' /\ (\A a \in Askers : AskingAs(a)') => Asking'
  BY DEF Asking, AskingTypes, AskingAs
<1>3. CASE UNCHANGED <<pc, question, begun, answer, given, now>>
  <2>1. AskingTypes' BY <1>1, <1>3 DEF AskingTypes
  <2>2. \A a \in Askers : AskingAs(a)' BY <1>3, AskingKept
  <2> QED BY <1>2, <2>1, <2>2
<1>4. ASSUME NEW a \in Askers, NEW q \in Questions, Miss(a, q) PROVE Asking'
  <2>1. AskingTypes' BY <1>1, <1>4 DEF AskingTypes, Miss
  <2>2. AskingAs(a)'
    BY <1>1, <1>4 DEF AskingTypes, AskingAs, Miss
  <2>3. \A d \in Askers \ {a} : AskingAs(d)' BY <1>1, <1>4, AskingKept DEF AskingTypes, Miss
  <2> QED BY <1>2, <2>1, <2>2, <2>3
<1>5. ASSUME NEW a \in Askers, Resolve(a) PROVE Asking'
  <2>1. PICK ans : /\ answer' = [answer EXCEPT ![a] = ans]
                   /\ \/ \E q \in Questions : ans = [state |-> Says(q), about |-> q]
                      \/ ans = [state |-> "unreadable", about |-> question[a]]
    BY <1>5 DEF Resolve
  <2>2. question[a] \in Questions /\ begun[a] <= now
    BY <1>1, <1>5 DEF Resolve, Asking
  <2>3. ans \in Answers BY <2>1, <2>2 DEF Answers, States, Says
  <2>4. SaidSince(ans, now, lastSaid)
    BY <1>1, <2>1 DEF SaidSince, History
  <2>5. AskingTypes' BY <1>1, <1>5, <2>1, <2>3 DEF AskingTypes, Resolve
  <2>6. /\ pc'[a] = "answered" /\ question'[a] = question[a] /\ begun'[a] = begun[a]
        /\ answer'[a] = ans /\ given'[a] = now /\ now' = now /\ lastSaid' = lastSaid
    BY <1>1, <1>5, <2>1 DEF AskingTypes, Resolve, host
  <2>7. AskingAs(a)' BY <1>1, <2>2, <2>3, <2>4, <2>6 DEF AskingAs
  <2>8. \A d \in Askers \ {a} : AskingAs(d)'
    BY <1>1, <1>5, <2>1, AskingKept DEF AskingTypes, Resolve
  <2> QED BY <1>2, <2>5, <2>7, <2>8
<1>6. ASSUME NEW a \in Askers, CallFails(a) \/ Receive(a) PROVE Asking'
  <2>1. now' = now /\ \E v : Return(a, v) BY <1>6 DEF CallFails, Receive
  <2>2. AskingTypes' BY <1>1, <2>1 DEF AskingTypes, Return
  <2>3. AskingAs(a)' BY <1>1, <2>1 DEF AskingTypes, AskingAs, Return
  <2>4. \A d \in Askers \ {a} : AskingAs(d)'
    BY <1>1, <2>1, AskingKept DEF AskingTypes, Return
  <2> QED BY <1>2, <2>2, <2>3, <2>4
<1>7. CASE Tick
  <2>1. UNCHANGED <<pc, question, begun, answer, given>> /\ now' = now + 1
        /\ \A a \in Askers : pc[a] = "answered" => now < given[a] + MaxFlight
    BY <1>7 DEF Tick, askers
  <2>2. AskingTypes' BY <1>1, <2>1 DEF AskingTypes
  <2>3. ASSUME NEW a \in Askers PROVE AskingAs(a)'
    <3>1. History' /\ Later BY <1>1, HistoryKept
    <3>2. begun[a] \in Nat /\ given[a] \in Nat BY <1>1 DEF AskingTypes
    <3>3. CASE pc[a] = "answered"
      <4>1. answer[a] \in Answers /\ SaidSince(answer[a], given[a], lastSaid)
        BY <1>1, <3>3 DEF Asking
      <4>2. SaidSince(answer[a], given[a], lastSaid')
        BY <1>1, <3>1, <3>2, <4>1, SaidKept
      <4> QED BY <1>1, <2>1, <3>2, <3>3, <4>1, <4>2 DEF Asking, AskingAs
    <3>4. CASE pc[a] # "answered"
      BY <1>1, <2>1, <3>2, <3>4 DEF Asking, AskingAs
    <3> QED BY <3>3, <3>4
  <2> QED BY <1>2, <2>2, <2>3
<1>8. \/ UNCHANGED <<pc, question, begun, answer, given, now>> \/ Tick
      \/ \E a \in Askers : \/ Resolve(a) \/ CallFails(a) \/ Receive(a)
                           \/ \E q \in Questions : Miss(a, q)
  BY DEF Next, vars, askers, Hit, Change
<1> QED BY <1>3, <1>4, <1>5, <1>6, <1>7, <1>8

-----------------------------------------------------------------------------
(* Theorems. *)

LEMMA Invariant == Spec => []IInv
<1>1. IInv /\ [Next]_vars => IInv'
  <2>1. IInv /\ [Next]_vars => History' BY HistoryKept DEF IInv
  <2> QED BY <2>1, NextSettled, NextAsking, NextCache, NextStraight,
          NextVerdict DEF IInv
<1> QED BY InitInv, <1>1, PTL DEF Spec

\* The variables keep their types, and what is cached are answers to questions.
THEOREM TypeCorrect == Spec => []TypeOK
<1>1. IInv => TypeOK
  BY DEF IInv, TypeOK, Settled, History, Asking, Remembered, Line, Judged
<1> QED BY Invariant, <1>1, PTL

\* Whatever the number of verifiers and questions and the order their answers arrive
\* in, the cache holds no more answers than its limit.
THEOREM CacheBoundedHolds == Spec => []CacheBounded
<1>1. IInv => CacheBounded BY DEF IInv
<1> QED BY Invariant, <1>1, PTL

\* For every ceiling, every flight and every history of the host: an answer, remembered
\* or not, is one the host would have given when the question was begun, or less than
\* the ceiling and a flight before; if it answers other questions than it is asked, one
\* it would have given to a question with the same identifier.
THEOREM AnswerDelayHolds == Spec => []AnswerDelay
<1>1. IInv => AnswerDelay BY DEF IInv
<1> QED BY Invariant, <1>1, PTL

\* Through the cache or past it, a question is answered with what the host said to it;
\* a host that answers other questions than it is asked can get no answer accepted but
\* one to a question that repeats the same identifier.
THEOREM AttributedHolds == Spec => []Attributed
<1>1. IInv => Attributed BY DEF IInv
<1> QED BY Invariant, <1>1, PTL
=============================================================================
